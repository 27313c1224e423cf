--------------------------- MODULE DBLocksProofs ----------------------------
(***************************************************************************)
(* DBLocks for any sets of processes, writers and exports and any number   *)
(* of READ locks: the bookkeeping of every mutex, what a process believes  *)
(* to hold, that nothing stays locked, the exclusion of the write lock and *)
(* the stability of an export.                                             *)
(***************************************************************************)
EXTENDS DBLocks, RWMutexOpsProofs, SequenceTheorems

Has(g, l)  == lk[l].state[g]
Owes(g, a) == \E i \in 1..Len(gs[g].todo) : gs[g].todo[i] = a

(* Every mutex is in order.                                                *)
InOrder == \A l \in LockType : Consistent(lk[l])

-----------------------------------------------------------------------------
(* The parts of the inductive invariant: one per lock owner, about its own *)
(* guards only, so that a step of one owner leaves those of the others.    *)

(* A range request a of c: each lock of the range is held or still to come.*)
Underway(c, a) ==
  /\ a.do \in {"lock", "rlock"} /\ a.todo # <<>>
  /\ \A i \in 1..Len(a.locks) :
       \/ a.do = "lock" /\ Has(c, a.locks[i]) = Exclusive
       \/ \E j \in 1..Len(a.todo) : a.todo[j] = a.locks[i]
  /\ \A j \in 1..Len(a.todo) : \E i \in 1..Len(a.locks) : a.locks[i] = a.todo[j]
  /\ \A i \in 1..Len(a.locks) : a.locks[i] \in SHMLock =>
       sees[c] = "wal" /\ (a.locks[i] = "DMS" \/ got[c]["DMS"] # Unlocked)

(* What a process believes is so; what it holds besides, it got from a     *)
(* refused range request, and it still has the wal-index open.             *)
Beliefs(c) ==
  \A l \in LockType :
    /\ got[c][l] = Shared => Has(c, l) # Unlocked
    /\ got[c][l] = Exclusive => Has(c, l) = Exclusive
    /\ got[c][l] = Unlocked /\ Has(c, l) # Unlocked =>
         l \in SHMLock /\ got[c]["DMS"] # Unlocked

(* Who uses the wal-index or acts on the header has SHARED.                *)
Session(c) ==
  /\ (\E l \in SHMLock : got[c][l] # Unlocked) =>
       got[c]["DMS"] # Unlocked /\ sees[c] \in {"wal", "closed"}
  /\ sees[c] \in DBMode => got[c]["SHARED"] # Unlocked
  /\ sees[c] = "closed" => dying[c] /\ \A l \in DatabaseLock : got[c][l] = Unlocked
  /\ want[c] # NoWant => /\ ~dying[c] /\ want[c].do = "lock" /\ Underway(c, want[c])
                         /\ \A i \in 1..Len(want[c].locks) : want[c].locks[i] \in ReadLock

(* A process that takes the database for a rollback one is right, or alone.*)
RightHeader(c) ==
  "leave" \notin Optional /\ sees[c] = "rollback" =>
    file = "rollback" \/ got[c]["SHARED"] = Exclusive

ClientInv(c) == Beliefs(c) /\ Session(c) /\ RightHeader(c)

(* Both calls inside LiteFS begin as a reader.                             *)
Begins(g) ==
  /\ gs[g].pc = "idle" => \A l \in LockType : Has(g, l) = Unlocked
  /\ gs[g].pc \in {"idle", "mode", "held", "snapshot", "copy"} => gs[g].todo = <<>>
  /\ gs[g].pc = "shared" =>
       /\ \A i \in 1..Len(gs[g].todo) : gs[g].todo[i] \in {R("PENDING"), R("SHARED"), U("PENDING")}
       /\ Has(g, "SHARED") # Unlocked \/ Owes(g, R("SHARED"))
  /\ gs[g].pc \notin {"idle", "shared"} => Has(g, "SHARED") # Unlocked

RollbackLocks(w) ==
  /\ \A l \in DatabaseLock : Has(w, l) = Exclusive \/ Owes(w, X(l))
  /\ \A i \in 1..Len(gs[w].todo) : gs[w].todo[i].do = "lock"
  /\ gs[w].pc = "upgrade" => mode = "rollback"

WALLocks(w) ==
  /\ \A l \in {"WRITE", "CKPT", "RECOVER"} \cup ReadLock :
       Has(w, l) = Exclusive \/ Owes(w, X(l))
  /\ \A i \in 1..Len(gs[w].todo) : gs[w].todo[i].do = "lock" \/ gs[w].todo[i] = R("DMS")
  /\ mode = "wal"

(* The write lock has the locks of the mode it has found, or will have.    *)
WriterInv(w) ==
  /\ gs[w].pc \in {"idle", "shared", "mode", "upgrade", "held"}
  /\ Begins(w)
  /\ gs[w].pc \in {"upgrade", "held"} => RollbackLocks(w) \/ WALLocks(w)

ExporterInv(x) ==
  /\ gs[x].pc \in {"idle", "shared", "mode", "write", "snapshot", "ckpt", "copy"}
  /\ Begins(x)
  /\ gs[x].pc = "write" =>
       /\ \A i \in 1..Len(gs[x].todo) : gs[x].todo[i] = X("WRITE")
       /\ Has(x, "WRITE") = Exclusive \/ Owes(x, X("WRITE"))
  /\ gs[x].pc = "snapshot" => mode = "rollback" \/ Has(x, "WRITE") = Exclusive
  /\ gs[x].pc \in {"ckpt", "copy"} =>
       /\ \A i \in 1..Len(gs[x].todo) : gs[x].todo[i].do = "rlock"
       /\ Has(x, "CKPT") # Unlocked \/ Owes(x, R("CKPT"))

Inv ==
  /\ TypeOK /\ InOrder
  /\ "leave" \notin Optional => mode = file
  /\ \A c \in Client : ClientInv(c)
  /\ \A w \in Writer : WriterInv(w)
  /\ \A x \in Exporter : ExporterInv(x)

-----------------------------------------------------------------------------
(* The names of the locks. *)

\* The READ locks are the first NReads of five names.
LEMMA ReadLockNames ==
  /\ ReadLock \subseteq {"READ0", "READ1", "READ2", "READ3", "READ4"}
  /\ "READ0" \in ReadLock
  /\ ReadLocks \in Seq(ReadLock) /\ Len(ReadLocks) = NReads
<1> DEFINE s == <<"READ0", "READ1", "READ2", "READ3", "READ4">>
<1> DEFINE S == {"READ0", "READ1", "READ2", "READ3", "READ4"}
<1>1. s \in Seq(S) /\ Len(s) = 5 /\ s[1] = "READ0"
  OBVIOUS
<1>2. NReads \in 1..5 /\ NReads \in Nat /\ NReads >= 2
  BY LocksAssumption
<1>3. /\ ReadLocks \in Seq(S) /\ Len(ReadLocks) = NReads
      /\ \A i \in 1..NReads : ReadLocks[i] = s[i]
  <2>1. \A i \in 1..NReads : s[i] \in S
    BY <1>1, <1>2
  <2> HIDE DEF s, S
  <2>2. /\ SubSeq(s, 1, NReads) \in Seq(S)
        /\ Len(SubSeq(s, 1, NReads)) = IF 1 <= NReads THEN NReads - 1 + 1 ELSE 0
        /\ \A i \in 1..(NReads - 1 + 1) : SubSeq(s, 1, NReads)[i] = s[1 + i - 1]
    BY <1>2, <2>1, SubSeqProperties
  <2>3. QED
    BY <1>2, <2>2 DEF ReadLocks, s
<1> HIDE DEF s
<1>4. \A i \in 1..NReads : ReadLocks[i] \in S
  BY <1>2, <1>3, ElementOfSeq
<1>5. "READ0" = ReadLocks[1]
  BY <1>1, <1>2, <1>3
<1>6. ReadLocks \in Seq(ReadLock)
  <2>1. ReadLocks = [i \in 1..NReads |-> ReadLocks[i]]
    BY <1>3, LenProperties
  <2>2. \A i \in 1..NReads : ReadLocks[i] \in ReadLock
    BY DEF ReadLock
  <2>3. QED
    BY <1>2, <1>3, <2>1, <2>2, IsASeq
<1>7. QED
  BY <1>2, <1>3, <1>4, <1>5, <1>6 DEF ReadLock

\* The lock names are distinct.
LEMMA LockNames ==
  /\ DatabaseLock \subseteq LockType /\ SHMLock \subseteq LockType
  /\ ReadLock \subseteq SHMLock /\ ReadLock \subseteq LockType
  /\ {"WRITE", "CKPT", "RECOVER", "DMS", "READ0"} \subseteq SHMLock
  /\ {"PENDING", "RESERVED", "SHARED"} = DatabaseLock
  /\ DatabaseLock \cap SHMLock = {}
  /\ {"WRITE", "CKPT", "RECOVER", "DMS"} \cap ReadLock = {}
  /\ LockType = DatabaseLock \cup SHMLock
BY ReadLockNames DEF LockType, SHMLock, DatabaseLock

-----------------------------------------------------------------------------
(* What a request does to the mutexes. *)

\* What every step leaves of the guards of g: the mutexes are in order and no other
\* guard has changed.
Untouched(g) ==
  /\ lk' \in [LockType -> Mutex] /\ InOrder'
  /\ \A h \in Guard \ {g}, l \in LockType : lk'[l].state[h] = lk[l].state[h]

\* A lock that one guard holds exclusively no other guard holds.
LEMMA Conflict ==
  ASSUME Inv, NEW l \in LockType, NEW g \in Guard, NEW h \in Guard \ {g},
         Has(g, l) = Exclusive
  PROVE  Has(h, l) = Unlocked
<1>1. lk[l] \in Mutex /\ Consistent(lk[l])
  BY DEF Inv, TypeOK, InOrder
<1>2. lk[l].excl = g /\ lk[l].excl # NoGuard
  BY <1>1, GuardAssumption DEF Has, Consistent
<1>3. QED
  BY <1>1, <1>2 DEF Has, Consistent, Holders, Mutex, GuardState

\* Granted requests, one lock at a time.
LEMMA DoEffect ==
  ASSUME Inv, NEW g \in Guard,
         NEW a \in [do : {"rlock", "lock", "unlock"}, lock : LockType],
         Granted(a, g), Do(a, g)
  PROVE  /\ Untouched(g)
         /\ \A l \in LockType \ {a.lock} : lk'[l].state[g] = lk[l].state[g]
         /\ a.do = "rlock" => lk'[a.lock].state[g] = Shared
         /\ a.do = "lock" => lk'[a.lock].state[g] = Exclusive
         /\ a.do = "unlock" => lk'[a.lock].state[g] = Unlocked
<1> DEFINE m == lk[a.lock]
<1>1. lk \in [LockType -> Mutex] /\ \A l \in LockType : Consistent(lk[l])
  BY DEF Inv, TypeOK, InOrder
<1>2. m \in Mutex /\ Consistent(m) /\ a.lock \in LockType
  BY <1>1
<1>3. ASSUME NEW n \in Mutex, Consistent(n), NEW s \in GuardState,
             lk' = [lk EXCEPT ![a.lock] = n], n.state = [m.state EXCEPT ![g] = s]
      PROVE  /\ Untouched(g) /\ lk'[a.lock].state[g] = s
             /\ \A l \in LockType \ {a.lock} : lk'[l].state[g] = lk[l].state[g]
  BY <1>1, <1>2, <1>3 DEF Untouched, InOrder, Mutex
<1>4. CASE a.do = "rlock"
  <2>1. TryRLockOK(m, g) /\ lk' = [lk EXCEPT ![a.lock] = RLocked(m, g)]
    BY <1>4 DEF Granted, Do
  <2>2. QED
    BY <1>2, <1>3, <1>4, <2>1, RLockedEffect DEF GuardState
<1>5. CASE a.do = "lock"
  <2>1. TryLockOK(m, g) /\ lk' = [lk EXCEPT ![a.lock] = Locked(m, g)]
    BY <1>5 DEF Granted, Do
  <2>2. QED
    BY <1>2, <1>3, <1>5, <2>1, LockedEffect DEF GuardState
<1>6. CASE a.do = "unlock"
  <2>1. lk' = [lk EXCEPT ![a.lock] = Unlock(m, g)]
    BY <1>6 DEF Do
  <2>2. QED
    BY <1>2, <1>3, <1>6, <2>1, UnlockEffect DEF GuardState
<1>7. QED
  BY <1>4, <1>5, <1>6

\* Releases of a set of locks.
LEMMA UnlockAllEffect ==
  ASSUME Inv, NEW g \in Guard, NEW locks, UnlockAll(g, locks)
  PROVE  /\ Untouched(g)
         /\ \A l \in LockType :
              lk'[l].state[g] = IF l \in locks THEN Unlocked ELSE lk[l].state[g]
<1>1. lk \in [LockType -> Mutex] /\ \A l \in LockType : Consistent(lk[l])
  BY DEF Inv, TypeOK, InOrder
<1>2. ASSUME NEW l \in LockType
      PROVE  /\ lk'[l] \in Mutex /\ Consistent(lk'[l])
             /\ lk'[l].state = IF l \in locks THEN [lk[l].state EXCEPT ![g] = Unlocked]
                               ELSE lk[l].state
  <2>1. lk[l] \in Mutex /\ Consistent(lk[l])
    BY <1>1
  <2>2. lk'[l] = IF l \in locks THEN Unlock(lk[l], g) ELSE lk[l]
    BY DEF UnlockAll
  <2>3. QED
    BY <2>1, <2>2, UnlockEffect
<1>3. lk' \in [LockType -> Mutex] /\ InOrder'
  BY <1>2 DEF UnlockAll, InOrder
<1>4. QED
  BY <1>1, <1>2, <1>3 DEF Untouched, Mutex

-----------------------------------------------------------------------------
(* The invariants of the lock owners that do not act. *)

\* The mode of the database stays, or nobody else has looked at it under SHARED.
ModeKept(g) ==
  \/ mode' = mode /\ (file' = file \/ "leave" \in Optional)
  \/ \A h \in Guard \ {g} : Has(h, "SHARED") = Unlocked

\* A process that does not act.
LEMMA ClientKept ==
  ASSUME Inv, NEW c \in Client,
         \A l \in LockType : lk'[l].state[c] = lk[l].state[c],
         got'[c] = got[c], sees'[c] = sees[c], want'[c] = want[c], dying'[c] = dying[c],
         file' = file \/ "leave" \in Optional \/ Has(c, "SHARED") = Unlocked
  PROVE  ClientInv(c)'
<1>1. ClientInv(c) /\ got[c] \in [LockType -> GuardState]
  BY DEF Inv, TypeOK
<1>2. Beliefs(c)'
  BY <1>1 DEF ClientInv, Beliefs, Has
<1>3. Session(c)'
  <2>1. want[c] # NoWant => want[c].locks \in Seq(LockType)
    BY DEF Inv, TypeOK
  <2>2. want[c] # NoWant => \A i \in 1..Len(want[c].locks) : want[c].locks[i] \in LockType
    BY <2>1, ElementOfSeq
  <2>3. want[c] # NoWant /\ Underway(c, want[c]) => Underway(c, want[c])'
    <3>1. SUFFICES ASSUME want[c] # NoWant, Underway(c, want[c])
                   PROVE  Underway(c, want[c])'
      OBVIOUS
    <3>2. \A i \in 1..Len(want[c].locks) : Has(c, want[c].locks[i]) = Has(c, want[c].locks[i])'
      BY <2>2, <3>1 DEF Has
    <3>3. QED
      BY <3>1, <3>2 DEF Underway
  <2>4. QED
    BY <1>1, <2>3 DEF ClientInv, Session
<1>4. sees[c] = "rollback" => Has(c, "SHARED") # Unlocked
  <2>1. sees[c] = "rollback" => got[c]["SHARED"] \in {Shared, Exclusive}
    BY <1>1, LockNames DEF ClientInv, Session, DBMode, GuardState
  <2>2. QED
    BY <1>1, <2>1, LockNames DEF ClientInv, Beliefs, Unlocked, Shared, Exclusive
<1>5. RightHeader(c)'
  BY <1>1, <1>4 DEF ClientInv, RightHeader
<1>6. QED
  BY <1>2, <1>3, <1>5 DEF ClientInv

\* A call inside LiteFS that does not act.
LEMMA CallKept ==
  ASSUME Inv, NEW g \in Writer \cup Exporter,
         \A l \in LockType : lk'[l].state[g] = lk[l].state[g],
         gs'[g] = gs[g], mode' = mode \/ Has(g, "SHARED") = Unlocked
  PROVE  /\ g \in Writer => WriterInv(g)'
         /\ g \in Exporter => ExporterInv(g)'
<1>1. \A a : Owes(g, a) <=> Owes(g, a)'
  BY DEF Owes
<1>2. \A l \in LockType : Has(g, l) = Has(g, l)'
  BY DEF Has
<1>3. Begins(g) => Begins(g)'
  BY <1>1, <1>2, LockNames DEF Begins
<1>4. ASSUME g \in Writer PROVE WriterInv(g)'
  <2>1. WriterInv(g)
    BY <1>4 DEF Inv
  <2>2. gs[g].pc \in {"upgrade", "held"} => mode' = mode
    BY <2>1 DEF WriterInv, Begins
  <2>3. gs[g].pc \in {"upgrade", "held"} /\ RollbackLocks(g) => RollbackLocks(g)'
    BY <1>1, <1>2, <2>2, LockNames DEF RollbackLocks
  <2>4. gs[g].pc \in {"upgrade", "held"} /\ WALLocks(g) => WALLocks(g)'
    BY <1>1, <1>2, <2>2, LockNames DEF WALLocks
  <2>5. QED
    BY <1>3, <2>1, <2>3, <2>4 DEF WriterInv
<1>5. ASSUME g \in Exporter PROVE ExporterInv(g)'
  <2>1. ExporterInv(g)
    BY <1>5 DEF Inv
  <2>2. gs[g].pc = "snapshot" => mode' = mode
    BY <2>1 DEF ExporterInv, Begins
  <2>3. QED
    BY <1>1, <1>2, <1>3, <2>1, <2>2, LockNames DEF ExporterInv
<1>6. QED
  BY <1>4, <1>5

\* A step of one owner keeps the invariants of all the others.
LEMMA OthersKept ==
  ASSUME Inv, NEW g \in Guard, Untouched(g), ModeKept(g),
         \A c \in Client \ {g} : /\ got'[c] = got[c] /\ sees'[c] = sees[c]
                                 /\ want'[c] = want[c] /\ dying'[c] = dying[c],
         \A h \in (Writer \cup Exporter) \ {g} : gs'[h] = gs[h]
  PROVE  /\ \A c \in Client \ {g} : ClientInv(c)'
         /\ \A w \in Writer \ {g} : WriterInv(w)'
         /\ \A x \in Exporter \ {g} : ExporterInv(x)'
<1>1. Client \subseteq Guard /\ Writer \subseteq Guard /\ Exporter \subseteq Guard
  BY LocksAssumption
<1>2. \A c \in Client \ {g} : ClientInv(c)'
  BY <1>1, ClientKept DEF Untouched, ModeKept
<1>3. \A h \in (Writer \cup Exporter) \ {g} :
        (h \in Writer => WriterInv(h)') /\ (h \in Exporter => ExporterInv(h)')
  BY <1>1, CallKept DEF Untouched, ModeKept
<1>4. QED
  BY <1>2, <1>3

\* A step of a process keeps the invariant if it keeps that of the process.
LEMMA ClientStep ==
  ASSUME Inv, NEW c \in Client, Untouched(c), ModeKept(c), TypeOK', ClientInv(c)',
         "leave" \notin Optional => mode' = file',
         \A d \in Client \ {c} : /\ got'[d] = got[d] /\ sees'[d] = sees[d]
                                 /\ want'[d] = want[d] /\ dying'[d] = dying[d],
         gs' = gs
  PROVE  Inv'
<1>1. c \in Guard /\ c \notin Writer /\ c \notin Exporter
  BY LocksAssumption
<1>2. /\ \A d \in Client \ {c} : ClientInv(d)'
      /\ \A w \in Writer \ {c} : WriterInv(w)'
      /\ \A x \in Exporter \ {c} : ExporterInv(x)'
  BY <1>1, OthersKept
<1>3. QED
  BY <1>1, <1>2 DEF Inv, Untouched

\* A step of a call keeps the invariant if it keeps that of the call.
LEMMA CallStep ==
  ASSUME Inv, NEW g \in Writer \cup Exporter, Untouched(g), ModeKept(g), TypeOK',
         g \in Writer => WriterInv(g)', g \in Exporter => ExporterInv(g)',
         "leave" \notin Optional => mode' = file',
         clientVars' = clientVars,
         \A h \in (Writer \cup Exporter) \ {g} : gs'[h] = gs[h]
  PROVE  Inv'
<1>1. g \in Guard /\ g \notin Client
  BY LocksAssumption
<1>2. /\ \A d \in Client \ {g} : ClientInv(d)'
      /\ \A w \in Writer \ {g} : WriterInv(w)'
      /\ \A x \in Exporter \ {g} : ExporterInv(x)'
  BY <1>1, OthersKept DEF clientVars
<1>3. QED
  BY <1>1, <1>2 DEF Inv, Untouched

-----------------------------------------------------------------------------
(* Requests of a process. *)

\* One turn of the loop of TryLocks or TryRLocks: whatever the range, the process is
\* told that it has the locks only when it has all of them.
LEMMA TakeNextStep ==
  ASSUME Inv, NEW c \in Client,
         NEW a \in [do : {"none", "lock", "rlock"}, locks : Seq(LockType), todo : Seq(LockType)],
         Underway(c, a), ~dying[c], TakeNext(c, a),
         \/ Tail(a.todo) = <<>>
         \/ a.do = "lock" /\ \A i \in 1..Len(a.locks) : a.locks[i] \in ReadLock,
         a.do = "rlock" /\ (\E i \in 1..Len(a.locks) : a.locks[i] = "SHARED") =>
           sees[c] # "rollback" \/ file = "rollback"
  PROVE  Inv'
<1> DEFINE op == [do |-> a.do, lock |-> Head(a.todo)]
<1> DEFINE rest == Tail(a.todo)
<1> DEFINE asked(l) == \E i \in 1..Len(a.locks) : a.locks[i] = l
<1>1. /\ a.locks \in Seq(LockType) /\ a.todo \in Seq(LockType) /\ a.todo # <<>>
      /\ a.do \in {"lock", "rlock"} /\ c \in Guard
  BY LocksAssumption DEF Underway
<1>2. /\ Head(a.todo) \in LockType /\ rest \in Seq(LockType)
      /\ Len(a.todo) \in Nat /\ Len(a.todo) >= 1 /\ Len(rest) = Len(a.todo) - 1
      /\ Head(a.todo) = a.todo[1]
      /\ \A j \in 1..Len(rest) : rest[j] = a.todo[j + 1]
  BY <1>1, HeadTailProperties, LenProperties
<1>3. op \in [do : {"rlock", "lock", "unlock"}, lock : LockType]
  BY <1>1, <1>2
<1>4. /\ Untouched(c)
      /\ \A l \in LockType \ {Head(a.todo)} : lk'[l].state[c] = lk[l].state[c]
      /\ a.do = "rlock" => lk'[Head(a.todo)].state[c] = Shared
      /\ a.do = "lock" => lk'[Head(a.todo)].state[c] = Exclusive
  <2>1. Granted(op, c) /\ Do(op, c)
    BY DEF TakeNext
  <2> HIDE DEF op
  <2>2. /\ Untouched(c)
        /\ \A l \in LockType \ {op.lock} : lk'[l].state[c] = lk[l].state[c]
        /\ op.do = "rlock" => lk'[op.lock].state[c] = Shared
        /\ op.do = "lock" => lk'[op.lock].state[c] = Exclusive
    BY <1>1, <1>3, <2>1, DoEffect
  <2>3. op.do = a.do /\ op.lock = Head(a.todo)
    BY DEF op
  <2>4. QED
    BY <2>2, <2>3
<1>5. ClientInv(c) /\ got[c] \in [LockType -> GuardState]
  BY DEF Inv, TypeOK
<1>6. /\ UNCHANGED <<mode, file, pos, dbpos, sees, dirty, dying, gs>>
      /\ sees[c] # "closed"
  BY <1>5 DEF TakeNext, dataVars, ClientInv, Session
<1>7. asked(Head(a.todo))
  BY <1>2 DEF Underway
<1>8. \A i \in 1..Len(a.locks) : a.locks[i] \in LockType
  BY <1>1, ElementOfSeq
<1>9. CASE rest = <<>>
  <2> DEFINE s == IF a.do = "lock" THEN Exclusive ELSE Shared
  <2> DEFINE v == [l \in LockType |-> IF asked(l) THEN s ELSE got[c][l]]
  <2>1. want' = [want EXCEPT ![c] = NoWant] /\ got' = [got EXCEPT ![c] = v]
    BY <1>9 DEF TakeNext
  <2>2. /\ got'[c] = v /\ want'[c] = NoWant
        /\ \A d \in Client \ {c} : got'[d] = got[d] /\ want'[d] = want[d]
    BY <2>1 DEF Inv, TypeOK
  <2>3. v \in [LockType -> GuardState] /\ s # Unlocked
    BY <1>5 DEF GuardState, Unlocked, Shared, Exclusive
  <2>4. \A l \in LockType : asked(l) => lk'[l].state[c] = s
    <3>1. Len(a.todo) = 1
      <4>1. Len(rest) = 0
        BY <1>9, EmptySeq
      <4>2. QED
        BY <1>2, <4>1
    <3>2. SUFFICES ASSUME NEW i \in 1..Len(a.locks)
                   PROVE  lk'[a.locks[i]].state[c] = s
      OBVIOUS
    <3>3. \/ a.do = "lock" /\ Has(c, a.locks[i]) = Exclusive
          \/ a.locks[i] = Head(a.todo)
      BY <1>2, <3>1 DEF Underway
    <3>4. QED
      BY <1>1, <1>4, <1>8, <3>3 DEF Has
  <2>5. \A l \in LockType : ~asked(l) => l # Head(a.todo) /\ lk'[l].state[c] = lk[l].state[c]
    BY <1>4, <1>7
  <2>6. \A l \in LockType : /\ asked(l) => v[l] = s
                            /\ ~asked(l) => v[l] = got[c][l]
    OBVIOUS
  <2>7. \A l \in LockType : got[c][l] # Unlocked => v[l] # Unlocked
    BY <2>3, <2>6
  <2>8. \A l \in SHMLock : asked(l) => sees[c] = "wal" /\ (l = "DMS" \/ got[c]["DMS"] # Unlocked)
    BY DEF Underway
  <2>9. s = Shared \/ s = Exclusive
    OBVIOUS
  <2>10. asked("SHARED") /\ sees[c] = "rollback" /\ "leave" \notin Optional =>
           file = "rollback" \/ s = Exclusive
    BY <1>1
  <2> HIDE DEF v, s, asked
  <2>11. Beliefs(c)'
    <3>1. SUFFICES ASSUME NEW l \in LockType
                   PROVE  /\ v[l] = Shared => lk'[l].state[c] # Unlocked
                          /\ v[l] = Exclusive => lk'[l].state[c] = Exclusive
                          /\ v[l] = Unlocked /\ lk'[l].state[c] # Unlocked =>
                               l \in SHMLock /\ v["DMS"] # Unlocked
      BY <2>2 DEF Beliefs, Has
    <3>2. CASE asked(l)
      BY <2>3, <2>4, <2>6, <3>2
    <3>3. CASE ~asked(l)
      BY <1>5, <2>5, <2>6, <2>7, <3>3, LockNames DEF ClientInv, Beliefs, Has
    <3>4. QED
      BY <3>2, <3>3
  <2>12. Session(c)'
    <3>1. ASSUME NEW l \in SHMLock, v[l] # Unlocked
          PROVE  v["DMS"] # Unlocked /\ sees[c] \in {"wal", "closed"}
      <4>1. CASE asked(l)
        BY <2>3, <2>6, <2>7, <2>8, <3>1, <4>1, LockNames
      <4>2. CASE ~asked(l)
        BY <1>5, <2>6, <2>7, <3>1, <4>2, LockNames DEF ClientInv, Session
      <4>3. QED
        BY <4>1, <4>2
    <3>2. sees[c] \in DBMode => v["SHARED"] # Unlocked
      BY <1>5, <2>7, LockNames DEF ClientInv, Session
    <3>3. QED
      BY <1>6, <2>2, <3>1, <3>2 DEF Session
  <2>13. RightHeader(c)'
    BY <1>5, <1>6, <2>2, <2>6, <2>10, LockNames DEF ClientInv, RightHeader
  <2>14. TypeOK'
    <3>1. NoWant \in [do : {"none", "lock", "rlock"}, locks : Seq(LockType), todo : Seq(LockType)]
      BY EmptySeq DEF NoWant
    <3>2. QED
      BY <1>4, <1>6, <2>1, <2>3, <3>1 DEF Inv, TypeOK, Untouched
  <2>15. QED
    BY <1>4, <1>6, <2>2, <2>11, <2>12, <2>13, <2>14, ClientStep
    DEF ClientInv, ModeKept, Inv
<1>10. CASE rest # <<>>
  <2> DEFINE b == [a EXCEPT !.todo = rest]
  <2>1. /\ want' = [want EXCEPT ![c] = b] /\ got' = got
        /\ a.do = "lock" /\ \A i \in 1..Len(a.locks) : a.locks[i] \in ReadLock
    BY <1>10 DEF TakeNext
  <2>2. /\ b.do = a.do /\ b.locks = a.locks /\ b.todo = rest
        /\ b \in [do : {"none", "lock", "rlock"}, locks : Seq(LockType), todo : Seq(LockType)]
    BY <1>2
  <2>3. want'[c] = b /\ \A d \in Client \ {c} : want'[d] = want[d]
    BY <2>1 DEF Inv, TypeOK
  <2> HIDE DEF b, rest, asked, op
  <2>4. Head(a.todo) \in ReadLock /\ lk'[Head(a.todo)].state[c] = Exclusive
    BY <1>4, <1>7, <2>1 DEF asked
  <2>5. got[c]["DMS"] # Unlocked
    <3>1. PICK i \in 1..Len(a.locks) : a.locks[i] = Head(a.todo)
      BY <1>7 DEF asked
    <3>2. a.locks[i] \in SHMLock /\ a.locks[i] # "DMS"
      BY <2>4, <3>1, LockNames
    <3>3. QED
      BY <3>2 DEF Underway
  <2>6. Beliefs(c)'
    <3>1. SUFFICES ASSUME NEW l \in LockType
                   PROVE  /\ got[c][l] = Shared => lk'[l].state[c] # Unlocked
                          /\ got[c][l] = Exclusive => lk'[l].state[c] = Exclusive
                          /\ got[c][l] = Unlocked /\ lk'[l].state[c] # Unlocked =>
                               l \in SHMLock /\ got[c]["DMS"] # Unlocked
      BY <2>1 DEF Beliefs, Has
    <3>2. CASE l = Head(a.todo)
      BY <2>4, <2>5, <3>2, LockNames DEF Unlocked, Shared, Exclusive
    <3>3. CASE l # Head(a.todo)
      BY <1>4, <1>5, <3>3 DEF ClientInv, Beliefs, Has
    <3>4. QED
      BY <3>2, <3>3
  <2>7. Underway(c, want[c])'
    <3>1. b.do = "lock" /\ b.todo # <<>>
      BY <1>10, <2>1, <2>2
    <3>2. \A i \in 1..Len(a.locks) :
            \/ lk'[a.locks[i]].state[c] = Exclusive
            \/ \E j \in 1..Len(rest) : rest[j] = a.locks[i]
      <4>1. SUFFICES ASSUME NEW i \in 1..Len(a.locks)
                     PROVE  \/ lk'[a.locks[i]].state[c] = Exclusive
                            \/ \E j \in 1..Len(rest) : rest[j] = a.locks[i]
        OBVIOUS
      <4>2. CASE Has(c, a.locks[i]) = Exclusive
        BY <1>4, <1>8, <2>4, <4>2 DEF Has
      <4>3. CASE \E j \in 1..Len(a.todo) : a.todo[j] = a.locks[i]
        <5>1. PICK j \in 1..Len(a.todo) : a.todo[j] = a.locks[i]
          BY <4>3
        <5>2. CASE j = 1
          BY <1>2, <2>4, <5>1, <5>2
        <5>3. CASE j # 1
          <6>1. j - 1 \in 1..Len(rest) /\ rest[j - 1] = a.todo[j]
            BY <1>2, <5>3
          <6>2. QED
            BY <5>1, <6>1
        <5>4. QED
          BY <5>2, <5>3
      <4>4. QED
        BY <4>2, <4>3 DEF Underway
    <3>3. \A j \in 1..Len(rest) : \E i \in 1..Len(a.locks) : a.locks[i] = rest[j]
      <4>1. \A j \in 1..Len(rest) : j + 1 \in 1..Len(a.todo)
        BY <1>2
      <4>2. QED
        BY <1>2, <4>1 DEF Underway
    <3>4. \A i \in 1..Len(a.locks) : a.locks[i] \in SHMLock =>
            sees[c] = "wal" /\ (a.locks[i] = "DMS" \/ got[c]["DMS"] # Unlocked)
      BY DEF Underway
    <3>5. want'[c].do = "lock" /\ want'[c].locks = a.locks /\ want'[c].todo = rest
      BY <2>1, <2>2, <2>3
    <3>6. want'[c].todo # <<>>
      BY <1>10, <3>5
    <3>7. \A i \in 1..Len(want'[c].locks) :
            \/ want'[c].do = "lock" /\ lk'[want'[c].locks[i]].state[c] = Exclusive
            \/ \E j \in 1..Len(want'[c].todo) : want'[c].todo[j] = want'[c].locks[i]
      BY <3>2, <3>5, Zenon
    <3>8. \A j \in 1..Len(want'[c].todo) : \E i \in 1..Len(want'[c].locks) :
            want'[c].locks[i] = want'[c].todo[j]
      BY <3>3, <3>5
    <3>9. \A i \in 1..Len(want'[c].locks) : want'[c].locks[i] \in SHMLock =>
            sees'[c] = "wal" /\ (want'[c].locks[i] = "DMS" \/ got'[c]["DMS"] # Unlocked)
      BY <1>6, <2>1, <3>4, <3>5
    <3>10. QED
      BY <3>5, <3>6, <3>7, <3>8, <3>9, Zenon DEF Underway, Has
  <2>8. Session(c)'
    <3>1. /\ want'[c].do = "lock"
          /\ \A i \in 1..Len(want'[c].locks) : want'[c].locks[i] \in ReadLock
      BY <2>1, <2>2, <2>3
    <3>2. QED
      BY <1>5, <1>6, <2>1, <2>7, <3>1 DEF ClientInv, Session
  <2>9. RightHeader(c)'
    BY <1>5, <1>6, <2>1 DEF ClientInv, RightHeader
  <2>10. TypeOK'
    BY <1>4, <1>6, <2>1, <2>2 DEF Inv, TypeOK, Untouched
  <2>11. QED
    BY <1>4, <1>6, <2>1, <2>3, <2>6, <2>8, <2>9, <2>10, ClientStep
    DEF ClientInv, ModeKept, Inv
<1>11. QED
  BY <1>9, <1>10

\* A process asks for locks of the wal-index only with the wal-index open.
LEMMA WALAsksOpen ==
  ASSUME Inv, NEW c \in Client, NEW b \in WALAsks(got[c]), b.lock \in SHMLock
  PROVE  b.lock = "DMS" \/ got[c]["DMS"] # Unlocked
<1> DEFINE v == got[c]
<1>1. (\E l \in SHMLock : v[l] # Unlocked) => v["DMS"] # Unlocked
  BY DEF Inv, ClientInv, Session
<1>2. /\ b \in {X("DMS"), R("DMS"), X("WRITE"), X("CKPT"), X("READ0")}
             \cup {X("PENDING"), X("SHARED"), R("SHARED")} \cup {R(l) : l \in ReadLock}
  BY DEF WALAsks
<1> HIDE DEF v
<1>3. CASE b \in {X("DMS"), R("DMS")}
  BY <1>3 DEF X, R
<1>4. CASE b = X("WRITE")
  <2>1. \E l \in ReadLock : v[l] = Shared
    BY <1>4 DEF WALAsks, X, R, v
  <2>2. QED
    BY <1>1, <2>1, LockNames DEF Shared, Unlocked, v
<1>5. CASE b = X("CKPT")
  <2>1. v["DMS"] = Shared
    BY <1>5 DEF WALAsks, X, R, v
  <2>2. QED
    BY <2>1 DEF Shared, Unlocked, v
<1>6. CASE b = X("READ0")
  <2>1. v["CKPT"] = Exclusive
    BY <1>6 DEF WALAsks, X, R, v
  <2>2. QED
    BY <1>1, <2>1, LockNames DEF Exclusive, Unlocked, v
<1>7. CASE b \in {X("PENDING"), X("SHARED"), R("SHARED")}
  BY <1>7, LockNames DEF X, R
<1>8. CASE \E l \in ReadLock : b = R(l)
  <2>1. PICK l \in ReadLock : b = R(l)
    BY <1>8
  <2>2. l \notin {"DMS", "SHARED"}
    BY LockNames
  <2>3. v["DMS"] = Shared
    BY <2>1, <2>2 DEF WALAsks, X, R, v
  <2>4. QED
    BY <2>3 DEF Shared, Unlocked, v
<1>9. QED
  BY <1>2, <1>3, <1>4, <1>5, <1>6, <1>7, <1>8

\* What SQLite may ask for is a request as TakeNextStep expects it.
LEMMA AsksUnderway ==
  ASSUME Inv, NEW c \in Client, ~dying[c], NEW a \in Asks(c)
  PROVE  /\ a \in [do : {"none", "lock", "rlock"}, locks : Seq(LockType), todo : Seq(LockType)]
         /\ Underway(c, a)
         /\ \/ Tail(a.todo) = <<>>
            \/ a.do = "lock" /\ \A i \in 1..Len(a.locks) : a.locks[i] \in ReadLock
         /\ a.do = "rlock" /\ (\E i \in 1..Len(a.locks) : a.locks[i] = "SHARED") =>
              sees[c] # "rollback" \/ file = "rollback"
<1> DEFINE one == IF sees[c] = "none" THEN SharedAsks(got[c])
                  ELSE IF sees[c] = "rollback"
                  THEN {b \in UpgradeAsks(got[c]) : b = R("SHARED") => file = "rollback"}
                  ELSE WALAsks(got[c])
<1>1. /\ sees[c] \in {"none", "rollback", "wal"}
      /\ (\E l \in SHMLock : got[c][l] # Unlocked) =>
           got[c]["DMS"] # Unlocked /\ sees[c] = "wal"
  BY DEF Inv, TypeOK, ClientInv, Session, DBMode
<1>2. ASSUME NEW b \in one, a = [do |-> b.do, locks |-> <<b.lock>>, todo |-> <<b.lock>>]
      PROVE  /\ a \in [do : {"none", "lock", "rlock"}, locks : Seq(LockType), todo : Seq(LockType)]
             /\ Underway(c, a)
             /\ Tail(a.todo) = <<>>
             /\ a.do = "rlock" /\ (\E i \in 1..Len(a.locks) : a.locks[i] = "SHARED") =>
                  sees[c] # "rollback" \/ file = "rollback"
  <2>1. /\ b.do \in {"lock", "rlock"} /\ b.lock \in LockType
        /\ b.lock \in SHMLock => sees[c] = "wal" /\ (b.lock = "DMS" \/ got[c]["DMS"] # Unlocked)
        /\ b.do = "rlock" /\ b.lock = "SHARED" => sees[c] # "rollback" \/ file = "rollback"
    <3>1. CASE sees[c] = "none"
      <4>1. b \in {R("PENDING"), R("SHARED")}
        BY <3>1 DEF SharedAsks
      <4>2. QED
        BY <3>1, <4>1, LockNames DEF R
    <3>2. CASE sees[c] = "rollback"
      <4>1. /\ b \in {X("RESERVED"), X("PENDING"), X("SHARED"), R("SHARED")}
            /\ b = R("SHARED") => file = "rollback"
        BY <3>2 DEF UpgradeAsks
      <4>2. QED
        BY <3>2, <4>1, LockNames DEF R, X
    <3>3. CASE sees[c] = "wal"
      <4>1. b \in WALAsks(got[c])
        BY <3>3
      <4>2. b.do \in {"lock", "rlock"} /\ b.lock \in LockType
        BY <4>1, LockNames DEF WALAsks, R, X
      <4>3. QED
        BY <3>3, <4>1, <4>2, WALAsksOpen
    <3>4. QED
      BY <1>1, <3>1, <3>2, <3>3
  <2>2. /\ a.do = b.do /\ a.locks = <<b.lock>> /\ a.todo = <<b.lock>>
        /\ Len(a.locks) = 1 /\ Len(a.todo) = 1 /\ a.locks[1] = b.lock /\ a.todo[1] = b.lock
        /\ a.todo # <<>> /\ Tail(a.todo) = <<>> /\ 1..1 = {1}
    BY <1>2
  <2>3. a \in [do : {"none", "lock", "rlock"}, locks : Seq(LockType), todo : Seq(LockType)]
    BY <1>2, <2>1
  <2> HIDE DEF one
  <2>4. Underway(c, a)
    BY <2>1, <2>2 DEF Underway
  <2>5. QED
    BY <2>1, <2>2, <2>3, <2>4
<1>3. ASSUME a = [do |-> "lock", locks |-> Tail(ReadLocks), todo |-> Tail(ReadLocks)],
             got[c]["WRITE"] = Exclusive
      PROVE  /\ a \in [do : {"none", "lock", "rlock"}, locks : Seq(LockType), todo : Seq(LockType)]
             /\ Underway(c, a) /\ a.do = "lock"
             /\ \A i \in 1..Len(a.locks) : a.locks[i] \in ReadLock
  <2> DEFINE t == Tail(ReadLocks)
  <2>1. t \in Seq(ReadLock) /\ Len(t) = NReads - 1 /\ NReads \in 2..5
    <3>1. NReads \in 2..5 /\ Len(ReadLocks) = NReads /\ ReadLocks \in Seq(ReadLock)
      BY ReadLockNames, LocksAssumption
    <3>2. ReadLocks # <<>>
      BY <3>1
    <3>3. QED
      BY <3>1, <3>2, HeadTailProperties
  <2>2. a.do = "lock" /\ a.locks = t /\ a.todo = t
    BY <1>3
  <2>3. t # <<>> /\ \A i \in 1..Len(t) : t[i] \in ReadLock
    BY <2>1, ElementOfSeq
  <2>4. t \in Seq(LockType)
    BY <2>1, LockNames, SeqMonotonic
  <2>5. sees[c] = "wal" /\ got[c]["DMS"] # Unlocked
    BY <1>1, <1>3, LockNames DEF Exclusive, Unlocked
  <2> HIDE DEF t
  <2>6. Underway(c, a)
    BY <2>2, <2>3, <2>5 DEF Underway
  <2>7. a \in [do : {"none", "lock", "rlock"}, locks : Seq(LockType), todo : Seq(LockType)]
    BY <1>3, <2>4 DEF t
  <2>8. QED
    BY <2>2, <2>3, <2>6, <2>7
<1>4. \/ \E b \in one : a = [do |-> b.do, locks |-> <<b.lock>>, todo |-> <<b.lock>>]
      \/ /\ a = [do |-> "lock", locks |-> Tail(ReadLocks), todo |-> Tail(ReadLocks)]
         /\ got[c]["WRITE"] = Exclusive
  BY DEF Asks
<1> HIDE DEF one
<1>5. QED
  BY <1>2, <1>3, <1>4

\* FUSE lock requests of a process: granted, continued or refused.
LEMMA TryLocksStep ==
  ASSUME Inv, NEW c \in Client, TryLocks(c) \/ TryLocksNext(c) \/ TryLocksRefused(c)
  PROVE  Inv'
<1>1. CASE TryLocks(c)
  <2>1. PICK a \in Asks(c) : TakeNext(c, a)
    BY <1>1 DEF TryLocks
  <2>2. ~dying[c]
    BY <1>1 DEF TryLocks, Alive
  <2>3. QED
    BY <2>1, <2>2, AsksUnderway, TakeNextStep
<1>2. CASE TryLocksNext(c)
  <2>1. want[c] # NoWant /\ TakeNext(c, want[c])
    BY <1>2 DEF TryLocksNext
  <2>2. /\ want[c] \in [do : {"none", "lock", "rlock"},
                        locks : Seq(LockType), todo : Seq(LockType)]
        /\ ~dying[c] /\ want[c].do = "lock" /\ Underway(c, want[c])
        /\ \A i \in 1..Len(want[c].locks) : want[c].locks[i] \in ReadLock
    BY <2>1 DEF Inv, TypeOK, ClientInv, Session
  <2>3. QED
    BY <2>1, <2>2, TakeNextStep
<1>3. CASE TryLocksRefused(c)
  <2>1. /\ want' = [want EXCEPT ![c] = NoWant]
        /\ UNCHANGED <<lk, mode, file, pos, dbpos, got, sees, dirty, dying, gs>>
    BY <1>3 DEF TryLocksRefused, dataVars
  <2>2. want'[c] = NoWant /\ \A d \in Client \ {c} : want'[d] = want[d]
    BY <2>1 DEF Inv, TypeOK
  <2>3. NoWant \in [do : {"none", "lock", "rlock"}, locks : Seq(LockType), todo : Seq(LockType)]
    BY EmptySeq DEF NoWant
  <2>4. TypeOK'
    BY <2>1, <2>3 DEF Inv, TypeOK
  <2>5. ClientInv(c)
    BY DEF Inv
  <2>6. ClientInv(c)'
    BY <2>1, <2>2, <2>5 DEF ClientInv, Beliefs, Session, RightHeader, Has
  <2>7. Untouched(c) /\ ModeKept(c)
    BY <2>1 DEF Untouched, ModeKept, Inv, TypeOK, InOrder
  <2>8. QED
    BY <2>1, <2>2, <2>4, <2>6, <2>7, ClientStep DEF Inv
<1>4. QED
  BY <1>1, <1>2, <1>3

-----------------------------------------------------------------------------
(* Releases of a process. *)

\* A process that gives up a set of locks, and goes on as sees' and dying' say.
LEMMA ForgetStep ==
  ASSUME Inv, NEW c \in Client, NEW locks \in SUBSET LockType,
         NEW s \in DBMode \cup {"none", "closed"}, NEW d \in BOOLEAN,
         UnlockAll(c, locks), Forget(c, locks), want[c] = NoWant,
         UNCHANGED <<mode, file, want, gs>>,
         pos' \in Nat, pos <= pos', dbpos' \in 0..pos', dirty' \in [Client -> BOOLEAN],
         sees' = [sees EXCEPT ![c] = s], dying' = [dying EXCEPT ![c] = d],
         "DMS" \in locks => SHMLock \subseteq locks,
         s \in DBMode => "SHARED" \notin locks /\ got[c]["SHARED"] # Unlocked,
         s \notin {"wal", "closed"} => \A l \in SHMLock \ locks : got[c][l] = Unlocked,
         s = "closed" => d /\ DatabaseLock \subseteq locks,
         s = "rollback" /\ "leave" \notin Optional =>
           file = "rollback" \/ got[c]["SHARED"] = Exclusive
  PROVE  Inv'
<1> DEFINE v == [l \in LockType |-> IF l \in locks THEN Unlocked ELSE got[c][l]]
<1>1. c \in Guard
  BY LocksAssumption
<1>2. /\ Untouched(c)
      /\ \A l \in LockType :
           lk'[l].state[c] = IF l \in locks THEN Unlocked ELSE lk[l].state[c]
  BY <1>1, UnlockAllEffect
<1>3. ClientInv(c) /\ got[c] \in [LockType -> GuardState]
  BY DEF Inv, TypeOK
<1>4. got' = [got EXCEPT ![c] = v]
  BY DEF Forget
<1>5. /\ got'[c] = v /\ sees'[c] = s /\ dying'[c] = d /\ want'[c] = NoWant
      /\ \A e \in Client \ {c} : /\ got'[e] = got[e] /\ sees'[e] = sees[e]
                                 /\ want'[e] = want[e] /\ dying'[e] = dying[e]
  BY <1>4 DEF Inv, TypeOK
<1>6. /\ v \in [LockType -> GuardState]
      /\ \A l \in LockType : l \in locks => v[l] = Unlocked
      /\ \A l \in LockType : l \notin locks => v[l] = got[c][l]
  BY <1>3 DEF GuardState
<1> HIDE DEF v
<1>7. TypeOK'
  <2>1. \A g \in Writer \cup Exporter : gs'[g].pos <= pos'
    BY DEF Inv, TypeOK
  <2>2. QED
    BY <1>2, <1>4, <1>6, <2>1 DEF Inv, TypeOK, Untouched
<1>8. Beliefs(c)'
  <2>1. SUFFICES ASSUME NEW l \in LockType
                 PROVE  /\ v[l] = Shared => lk'[l].state[c] # Unlocked
                        /\ v[l] = Exclusive => lk'[l].state[c] = Exclusive
                        /\ v[l] = Unlocked /\ lk'[l].state[c] # Unlocked =>
                             l \in SHMLock /\ v["DMS"] # Unlocked
    BY <1>5 DEF Beliefs, Has
  <2>2. CASE l \in locks
    BY <1>2, <1>6, <2>2 DEF Unlocked, Shared, Exclusive
  <2>3. CASE l \notin locks
    BY <1>2, <1>3, <1>6, <2>3, LockNames DEF ClientInv, Beliefs, Has
  <2>4. QED
    BY <2>2, <2>3
<1>9. Session(c)'
  <2>1. ASSUME NEW l \in SHMLock, v[l] # Unlocked
        PROVE  v["DMS"] # Unlocked /\ s \in {"wal", "closed"}
    BY <1>3, <1>6, <2>1, LockNames DEF ClientInv, Session
  <2>2. s \in DBMode => v["SHARED"] # Unlocked
    BY <1>6, LockNames
  <2>3. s = "closed" => d /\ \A l \in DatabaseLock : v[l] = Unlocked
    BY <1>6, LockNames
  <2>4. QED
    BY <1>5, <2>1, <2>2, <2>3 DEF Session
<1>10. RightHeader(c)'
  BY <1>5, <1>6, LockNames DEF RightHeader, DBMode
<1>11. QED
  BY <1>2, <1>5, <1>7, <1>8, <1>9, <1>10, ClientStep DEF ClientInv, ModeKept, Inv

\* CommitWAL at the end of a write transaction, if there is one.
LEMMA EndWriteEffect ==
  ASSUME Inv, NEW c \in Client, NEW locks, EndWrite(c, locks)
  PROVE  /\ UNCHANGED <<mode, file>>
         /\ pos' \in Nat /\ pos <= pos' /\ dbpos' \in 0..pos'
         /\ dirty' \in [Client -> BOOLEAN]
<1>1. pos \in Nat /\ dbpos \in 0..pos /\ dirty \in [Client -> BOOLEAN]
  BY DEF Inv, TypeOK
<1>2. CASE "WRITE" \in locks /\ lk["WRITE"].state[c] = Exclusive
  <2>1. CommitWAL(c)
    BY <1>2 DEF EndWrite
  <2>2. dirty' \in [Client -> BOOLEAN]
    BY <1>1, <2>1 DEF CommitWAL
  <2>3. pos' = pos \/ pos' = pos + 1
    BY <2>1 DEF CommitWAL
  <2>4. QED
    BY <1>1, <2>1, <2>2, <2>3 DEF CommitWAL
<1>3. CASE ~("WRITE" \in locks /\ lk["WRITE"].state[c] = Exclusive)
  BY <1>1, <1>3 DEF EndWrite, dataVars
<1>4. QED
  BY <1>2, <1>3

\* The ranges that a process unlocks are locks; none gives up the wal-index, and a
\* WAL connection keeps SHARED.
LEMMA RangesSafe ==
  ASSUME NEW c \in Client, NEW locks \in Ranges(c)
  PROVE  /\ locks \in SUBSET LockType /\ "DMS" \notin locks
         /\ "SHARED" \in locks => sees[c] # "wal"
<1>1. locks \in {{"PENDING"}, {"PENDING", "RESERVED"}, DatabaseLock, {"WRITE"}, {"CKPT"}}
                  \cup {ReadLock \ {"READ0"}} \cup {{l} : l \in ReadLock}
  BY DEF Ranges
<1>2. locks \in SUBSET LockType /\ "DMS" \notin locks
  BY <1>1, LockNames
<1>3. "SHARED" \in locks => locks = DatabaseLock
  BY <1>1, LockNames
<1>4. "RESERVED" \in DatabaseLock /\ "SHARED" \in DatabaseLock
  BY LockNames
<1>5. locks = DatabaseLock => sees[c] # "wal"
  <2>1. SUFFICES ASSUME locks = DatabaseLock PROVE sees[c] # "wal"
    OBVIOUS
  <2>2. locks # {"PENDING"} /\ locks # {"PENDING", "RESERVED"}
    BY <2>1, <1>4
  <2>3. locks # {"WRITE"} /\ locks # {"CKPT"} /\ locks # ReadLock \ {"READ0"}
    BY <2>1, <1>4, LockNames
  <2>4. QED
    BY <2>1, <2>2, <2>3 DEF Ranges
<1>6. QED
  BY <1>2, <1>3, <1>5

\* Unlock of a range, the close of a file at exit, and the end of the WAL mode.
LEMMA ReleaseStep ==
  ASSUME Inv, NEW c \in Client,
         UnlockRange(c) \/ FlushDatabase(c) \/ FlushSHM(c) \/ CloseLog(c)
  PROVE  Inv'
<1>1. /\ ClientInv(c) /\ got[c] \in [LockType -> GuardState]
      /\ sees[c] \in DBMode \cup {"none", "closed"} /\ dying[c] \in BOOLEAN
      /\ sees \in [Client -> DBMode \cup {"none", "closed"}]
      /\ dying \in [Client -> BOOLEAN]
  BY DEF Inv, TypeOK
<1>2. dying' = dying => dying' = [dying EXCEPT ![c] = dying[c]]
  BY <1>1
<1>3. CASE UnlockRange(c)
  <2>1. PICK locks \in Ranges(c) :
          /\ Release(c, locks)
          /\ sees' = [sees EXCEPT ![c] = IF "SHARED" \in locks THEN "none" ELSE @]
    BY <1>3 DEF UnlockRange
  <2> DEFINE s == IF "SHARED" \in locks THEN "none" ELSE sees[c]
  <2>2. ~dying[c] /\ want[c] = NoWant /\ UNCHANGED <<want, dying, gs>>
    BY <1>3 DEF UnlockRange, Alive
  <2>3. sees[c] # "closed"
    BY <1>1, <2>2 DEF ClientInv, Session
  <2>4. /\ locks \in SUBSET LockType /\ "DMS" \notin locks
        /\ "SHARED" \in locks => sees[c] # "wal"
    BY RangesSafe
  <2>5. /\ UnlockAll(c, locks) /\ Forget(c, locks) /\ EndWrite(c, locks)
        /\ sees' = [sees EXCEPT ![c] = s]
    BY <2>1 DEF Release
  <2>6. /\ UNCHANGED <<mode, file>>
        /\ pos' \in Nat /\ pos <= pos' /\ dbpos' \in 0..pos'
        /\ dirty' \in [Client -> BOOLEAN]
    BY <2>5, EndWriteEffect
  <2>7. /\ s \in DBMode \cup {"none", "closed"} /\ s # "closed"
        /\ s \in DBMode => "SHARED" \notin locks /\ got[c]["SHARED"] # Unlocked
        /\ s # "wal" => \A l \in SHMLock : got[c][l] = Unlocked
        /\ s = "rollback" /\ "leave" \notin Optional =>
             file = "rollback" \/ got[c]["SHARED"] = Exclusive
    BY <1>1, <2>3, <2>4 DEF ClientInv, Session, RightHeader, DBMode
  <2> HIDE DEF s
  <2>8. QED
    BY <1>1, <1>2, <2>2, <2>4, <2>5, <2>6, <2>7, ForgetStep
<1>4. CASE FlushDatabase(c)
  <2>1. /\ dying[c] /\ want[c] = NoWant /\ UNCHANGED <<want, dying, gs>>
        /\ sees' = [sees EXCEPT ![c] = "closed"]
    BY <1>1, <1>4 DEF FlushDatabase, ClientInv, Session
  <2>2. UnlockAll(c, DatabaseLock) /\ Forget(c, DatabaseLock) /\ EndWrite(c, DatabaseLock)
    BY <1>4 DEF FlushDatabase, Release
  <2>3. /\ UNCHANGED <<mode, file>>
        /\ pos' \in Nat /\ pos <= pos' /\ dbpos' \in 0..pos'
        /\ dirty' \in [Client -> BOOLEAN]
    BY <2>2, EndWriteEffect
  <2>4. DatabaseLock \in SUBSET LockType /\ "DMS" \notin DatabaseLock /\ "closed" \notin DBMode
    BY LockNames DEF DBMode
  <2>5. QED
    BY <1>1, <1>2, <2>1, <2>2, <2>3, <2>4, ForgetStep DEF DBMode
<1>5. CASE FlushSHM(c)
  <2>1. /\ want[c] = NoWant /\ UNCHANGED <<want, gs>>
        /\ sees' = [sees EXCEPT ![c] = "none"] /\ dying' = [dying EXCEPT ![c] = FALSE]
    BY <1>1, <1>5 DEF FlushSHM, ClientInv, Session
  <2>2. UnlockAll(c, SHMLock) /\ Forget(c, SHMLock) /\ EndWrite(c, SHMLock)
    BY <1>5 DEF FlushSHM, Release
  <2>3. /\ UNCHANGED <<mode, file>>
        /\ pos' \in Nat /\ pos <= pos' /\ dbpos' \in 0..pos'
        /\ dirty' \in [Client -> BOOLEAN]
    BY <2>2, EndWriteEffect
  <2>4. SHMLock \in SUBSET LockType /\ "none" \notin DBMode
    BY LockNames DEF DBMode
  <2>5. QED
    BY <2>1, <2>2, <2>3, <2>4, ForgetStep
<1>6. CASE CloseLog(c)
  <2>1. /\ want[c] = NoWant /\ UNCHANGED <<mode, file, pos, want, dying, gs>>
        /\ sees' = [sees EXCEPT ![c] = "rollback"] /\ got[c]["SHARED"] = Exclusive
        /\ UnlockAll(c, SHMLock) /\ Forget(c, SHMLock)
        /\ dbpos' = pos /\ dirty' = [e \in Client |-> FALSE]
    BY <1>6 DEF CloseLog, Alive
  <2>2. pos' \in Nat /\ pos <= pos' /\ dbpos' \in 0..pos' /\ dirty' \in [Client -> BOOLEAN]
    BY <2>1 DEF Inv, TypeOK
  <2>3. SHMLock \in SUBSET LockType /\ "SHARED" \notin SHMLock /\ "rollback" \in DBMode
    BY LockNames DEF DBMode
  <2>4. got[c]["SHARED"] # Unlocked
    BY <2>1 DEF Unlocked, Exclusive
  <2>5. QED
    BY <1>1, <1>2, <2>1, <2>2, <2>3, <2>4, ForgetStep
<1>7. QED
  BY <1>3, <1>4, <1>5, <1>6

\* What a process does between its lock requests.
LEMMA WorkStep ==
  ASSUME Inv, NEW c \in Client,
         ReadHeader(c) \/ CommitJournal(c) \/ AppendFrames(c) \/ Backfill(c) \/ Die(c)
  PROVE  Inv'
<1>1. /\ ClientInv(c) /\ got[c] \in [LockType -> GuardState]
      /\ ~dying[c] /\ want[c] = NoWant
  BY DEF Inv, TypeOK, Alive, ReadHeader, CommitJournal, AppendFrames, Backfill, Die
<1>2. lk' = lk /\ got' = got /\ want' = want /\ gs' = gs
  BY DEF ReadHeader, CommitJournal, AppendFrames, Backfill, Die, clientVars
<1>3. Untouched(c) /\ Beliefs(c)'
  BY <1>1, <1>2 DEF Untouched, Inv, TypeOK, InOrder, ClientInv, Beliefs, Has
<1>4. CASE ReadHeader(c)
  <2>1. /\ sees' = [sees EXCEPT ![c] = file] /\ file \in DBMode
        /\ UNCHANGED <<mode, file, pos, dbpos, dirty, dying>>
        /\ got[c]["SHARED"] = Shared /\ sees[c] = "none"
    BY <1>4 DEF ReadHeader, dataVars, Inv, TypeOK
  <2>2. sees'[c] = file /\ \A d \in Client \ {c} : sees'[d] = sees[d]
    BY <2>1 DEF Inv, TypeOK
  <2>3. \A l \in SHMLock : got[c][l] = Unlocked
    BY <1>1, <2>1 DEF ClientInv, Session
  <2>4. Session(c)' /\ RightHeader(c)'
    BY <1>1, <1>2, <2>1, <2>2, <2>3 DEF Session, RightHeader, DBMode, Unlocked, Shared
  <2>5. TypeOK'
    BY <1>2, <2>1 DEF Inv, TypeOK
  <2>6. QED
    BY <1>2, <1>3, <2>1, <2>2, <2>4, <2>5, ClientStep DEF ClientInv, ModeKept, Inv
<1>5. CASE CommitJournal(c)
  <2>1. PICK h \in DBMode : file' = h /\ mode' = h /\ sees' = [sees EXCEPT ![c] = h]
    BY <1>5 DEF CommitJournal
  <2>2. /\ pos' = pos + 1 /\ dbpos' = pos + 1 /\ UNCHANGED <<dirty, dying>>
        /\ got[c]["SHARED"] = Exclusive /\ sees[c] = "rollback"
    BY <1>5 DEF CommitJournal
  <2>3. sees'[c] = h /\ \A d \in Client \ {c} : sees'[d] = sees[d]
    BY <2>1 DEF Inv, TypeOK
  <2>4. \A l \in SHMLock : got[c][l] = Unlocked
    BY <1>1, <2>2 DEF ClientInv, Session
  <2>5. Session(c)' /\ RightHeader(c)'
    BY <1>1, <1>2, <2>1, <2>2, <2>3, <2>4
    DEF Session, RightHeader, DBMode, Unlocked, Exclusive
  <2>6. Has(c, "SHARED") = Exclusive
    BY <1>1, <2>2, LockNames DEF ClientInv, Beliefs
  <2>7. ModeKept(c)
    BY <2>6, Conflict, LockNames, LocksAssumption DEF ModeKept
  <2>8. TypeOK'
    <3>1. pos' \in Nat /\ dbpos' \in 0..pos' /\ pos <= pos'
      BY <2>2 DEF Inv, TypeOK
    <3>2. \A g \in Writer \cup Exporter : gs'[g].pos <= pos'
      BY <1>2, <3>1 DEF Inv, TypeOK
    <3>3. QED
      BY <1>2, <2>1, <2>2, <3>1, <3>2 DEF Inv, TypeOK
  <2>9. QED
    BY <1>2, <1>3, <2>1, <2>2, <2>3, <2>5, <2>7, <2>8, ClientStep DEF ClientInv
<1>6. CASE AppendFrames(c) \/ Backfill(c)
  <2>1. UNCHANGED <<mode, file, pos, sees, dying>>
    BY <1>6 DEF AppendFrames, Backfill, dataVars, clientVars
  <2>2. dbpos' \in 0..pos /\ dirty' \in [Client -> BOOLEAN]
    <3>1. dirty' \in [Client -> BOOLEAN]
      BY <1>6 DEF AppendFrames, Backfill, clientVars, Inv, TypeOK
    <3>2. dbpos' \in 0..pos
      BY <1>6 DEF AppendFrames, Backfill, dataVars, Inv, TypeOK
    <3>3. QED
      BY <3>1, <3>2
  <2>3. TypeOK'
    BY <1>2, <2>1, <2>2 DEF Inv, TypeOK
  <2>4. Session(c)' /\ RightHeader(c)'
    BY <1>1, <1>2, <2>1 DEF ClientInv, Session, RightHeader
  <2>5. QED
    BY <1>2, <1>3, <2>1, <2>3, <2>4, ClientStep DEF ClientInv, ModeKept, Inv
<1>7. CASE Die(c)
  <2>1. /\ UNCHANGED <<mode, file, pos, dbpos, sees, dirty>>
        /\ dying' = [dying EXCEPT ![c] = TRUE]
    BY <1>7 DEF Die, dataVars
  <2>2. TypeOK' /\ \A d \in Client \ {c} : dying'[d] = dying[d]
    BY <1>2, <2>1 DEF Inv, TypeOK
  <2>3. dying'[c] = TRUE
    BY <2>1 DEF Inv, TypeOK
  <2>4. Session(c)' /\ RightHeader(c)'
    BY <1>1, <1>2, <2>1, <2>3 DEF ClientInv, Session, RightHeader
  <2>5. QED
    BY <1>2, <1>3, <2>1, <2>2, <2>4, ClientStep DEF ClientInv, ModeKept, Inv
<1>8. QED
  BY <1>4, <1>5, <1>6, <1>7

-----------------------------------------------------------------------------
(* Calls inside LiteFS. *)

\* The next guard of a call: it is off the list of those to come.
LEMMA StepEffect ==
  ASSUME Inv, NEW g \in Writer \cup Exporter,
         NEW next \in {"mode", "held", "snapshot", "copy"}, Step(g, next),
         NEW a, a = Head(gs[g].todo)
  PROVE  /\ Untouched(g) /\ TypeOK'
         /\ UNCHANGED <<mode, file, clientVars>>
         /\ \A h \in (Writer \cup Exporter) \ {g} : gs'[h] = gs[h]
         /\ gs'[g].pc = IF Len(gs[g].todo) = 1 THEN next ELSE gs[g].pc
         /\ Len(gs[g].todo) = 1 => gs'[g].todo = <<>>
         /\ \A i \in 1..Len(gs'[g].todo) :
              \E j \in 1..Len(gs[g].todo) : gs'[g].todo[i] = gs[g].todo[j]
         /\ \A b : Owes(g, b) => b = a \/ Owes(g, b)'
         /\ Owes(g, a) /\ a.lock \in LockType
         /\ \A l \in LockType \ {a.lock} : Has(g, l)' = Has(g, l)
         /\ a.do = "rlock" => Has(g, a.lock)' = Shared
         /\ a.do = "lock" => Has(g, a.lock)' = Exclusive
         /\ a.do = "unlock" => Has(g, a.lock)' = Unlocked
<1> DEFINE Op == [do : {"rlock", "lock", "unlock"}, lock : LockType]
<1> DEFINE t == gs[g].todo
<1>1. /\ t \in Seq(Op) /\ t # <<>> /\ Granted(a, g) /\ Do(a, g) /\ g \in Guard
      /\ UNCHANGED <<mode, file, pos, dbpos, clientVars>>
  BY LocksAssumption DEF Step, Inv, TypeOK, dataVars
<1> HIDE DEF Op
<1>2. /\ a \in Op /\ Tail(t) \in Seq(Op) /\ Len(t) \in Nat /\ Len(t) >= 1
      /\ Len(Tail(t)) = Len(t) - 1 /\ a = t[1]
      /\ \A i \in 1..Len(Tail(t)) : Tail(t)[i] = t[i + 1]
  BY <1>1, HeadTailProperties, LenProperties
<1>3. /\ gs'[g].todo = Tail(t) /\ gs'[g].pos = gs[g].pos
      /\ gs'[g].pc = IF Len(gs[g].todo) = 1 THEN next ELSE gs[g].pc
      /\ \A h \in (Writer \cup Exporter) \ {g} : gs'[h] = gs[h]
      /\ gs' \in [Writer \cup Exporter ->
               [pc : {"idle", "shared", "mode", "upgrade", "held",
                      "write", "snapshot", "ckpt", "copy"}, todo : Seq(Op), pos : Nat]]
  <2> DEFINE pc == IF Len(gs[g].todo) = 1 THEN next ELSE gs[g].pc
  <2> DEFINE q == [gs[g] EXCEPT !.todo = Tail(t), !.pc = pc]
  <2>1. gs' = [gs EXCEPT ![g] = q]
    BY DEF Step
  <2>2. gs \in [Writer \cup Exporter ->
               [pc : {"idle", "shared", "mode", "upgrade", "held",
                      "write", "snapshot", "ckpt", "copy"}, todo : Seq(Op), pos : Nat]]
    BY DEF Inv, TypeOK, Op
  <2> HIDE DEF t
  <2>3. /\ q.todo = Tail(t) /\ q.pos = gs[g].pos /\ q.pc = pc
        /\ q \in [pc : {"idle", "shared", "mode", "upgrade", "held",
                       "write", "snapshot", "ckpt", "copy"}, todo : Seq(Op), pos : Nat]
    <3>1. pc \in {"idle", "shared", "mode", "upgrade", "held",
                  "write", "snapshot", "ckpt", "copy"}
      BY <2>2
    <3>2. /\ gs[g] \in [pc : {"idle", "shared", "mode", "upgrade", "held",
                           "write", "snapshot", "ckpt", "copy"}, todo : Seq(Op), pos : Nat]
          /\ Tail(t) \in Seq(Op)
      BY <1>2, <2>2
    <3> HIDE DEF pc
    <3>3. QED
      BY <3>1, <3>2
  <2> HIDE DEF q
  <2>4. gs'[g] = q /\ \A h \in (Writer \cup Exporter) \ {g} : gs'[h] = gs[h]
    BY <2>1, <2>2
  <2>5. QED
    BY <2>1, <2>2, <2>3, <2>4
<1> HIDE DEF t
<1>4. /\ Untouched(g)
      /\ \A l \in LockType \ {a.lock} : lk'[l].state[g] = lk[l].state[g]
      /\ a.do = "rlock" => lk'[a.lock].state[g] = Shared
      /\ a.do = "lock" => lk'[a.lock].state[g] = Exclusive
      /\ a.do = "unlock" => lk'[a.lock].state[g] = Unlocked
  BY <1>1, <1>2, DoEffect DEF Op
<1>5. \A i \in 1..Len(Tail(t)) : i + 1 \in 1..Len(t)
  BY <1>2
<1>6. \A i \in 1..Len(gs'[g].todo) : \E j \in 1..Len(t) : gs'[g].todo[i] = t[j]
  BY <1>2, <1>3, <1>5
<1>7. Len(t) = 1 => gs'[g].todo = <<>>
  <2>1. Len(t) = 1 => Len(Tail(t)) = 0
    BY <1>2
  <2>2. QED
    BY <1>2, <1>3, <2>1, EmptySeq
<1>8. ASSUME NEW b, Owes(g, b) PROVE b = a \/ Owes(g, b)'
  <2>1. PICK j \in 1..Len(t) : t[j] = b
    BY <1>8 DEF Owes, t
  <2>2. CASE j = 1
    BY <1>2, <2>1, <2>2
  <2>3. CASE j # 1
    <3>1. j - 1 \in 1..Len(Tail(t)) /\ Tail(t)[j - 1] = t[j]
      BY <1>2, <2>3
    <3>2. QED
      BY <1>3, <2>1, <3>1 DEF Owes
  <2>4. QED
    BY <2>2, <2>3
<1>9. Owes(g, a)
  BY <1>2 DEF Owes, t
<1>10. TypeOK'
  <2>1. \A h \in Writer \cup Exporter : gs'[h].pos <= pos'
    BY <1>1, <1>3 DEF Inv, TypeOK
  <2>2. QED
    BY <1>1, <1>3, <1>4, <2>1 DEF Inv, TypeOK, Untouched, clientVars, Op
<1>11. a.lock \in LockType
  BY <1>2 DEF Op
<1>12. /\ \A l \in LockType \ {a.lock} : Has(g, l)' = Has(g, l)
       /\ a.do = "rlock" => Has(g, a.lock)' = Shared
       /\ a.do = "lock" => Has(g, a.lock)' = Exclusive
       /\ a.do = "unlock" => Has(g, a.lock)' = Unlocked
  BY <1>4 DEF Has
<1>13. QED
  BY <1>1, <1>3, <1>4, <1>6, <1>7, <1>8, <1>9, <1>10, <1>11, <1>12 DEF t

Request == [do : {"rlock", "lock", "unlock"}, lock : LockType]

Call ==
  [pc : {"idle", "shared", "mode", "upgrade", "held", "write", "snapshot", "ckpt", "copy"},
   todo : Seq(Request), pos : Nat]

\* A step that sets the state of one call, with the database as it is.
LEMMA SetCall ==
  ASSUME Inv, NEW g \in Writer \cup Exporter, NEW q \in Call, q.pos <= pos,
         gs' = [gs EXCEPT ![g] = q], UNCHANGED <<dataVars, clientVars>>, Untouched(g),
         gs'[g] = q /\ g \in Writer => WriterInv(g)',
         gs'[g] = q /\ g \in Exporter => ExporterInv(g)'
  PROVE  Inv'
<1>1. gs \in [Writer \cup Exporter -> Call]
  BY DEF Inv, TypeOK, Call, Request
<1>2. gs'[g] = q /\ \A h \in (Writer \cup Exporter) \ {g} : gs'[h] = gs[h]
  BY <1>1
<1>3. gs' \in [Writer \cup Exporter -> Call]
  BY <1>1
<1>4. TypeOK'
  <2>1. \A h \in Writer \cup Exporter : gs'[h].pos <= pos'
    BY <1>2 DEF Inv, TypeOK, dataVars
  <2>2. QED
    BY <1>3, <2>1 DEF Inv, TypeOK, Untouched, dataVars, clientVars, Call, Request
<1>5. QED
  BY <1>2, <1>4, CallStep DEF ModeKept, dataVars, Inv

\* A call that ends or fails gives all its locks back.
LEMMA FailStep ==
  ASSUME Inv, NEW g \in Writer \cup Exporter, Fail(g), UNCHANGED <<dataVars, clientVars>>
  PROVE  Inv'
<1>1. g \in Guard
  BY LocksAssumption
<1>2. /\ Untouched(g) /\ \A l \in LockType : lk'[l].state[g] = Unlocked
  BY <1>1, UnlockAllEffect DEF Fail
<1>3. gs' = [gs EXCEPT ![g] = Idle]
  BY DEF Fail
<1>4. Idle \in Call /\ Idle.pos = 0 /\ Idle.pc = "idle" /\ Idle.todo = <<>>
  BY EmptySeq DEF Idle, Call
<1>5. gs'[g] = Idle => Begins(g)'
  BY <1>2, <1>4 DEF Begins, Has
<1>6. gs'[g] = Idle => WriterInv(g)' /\ ExporterInv(g)'
  BY <1>4, <1>5 DEF WriterInv, ExporterInv
<1>7. Idle.pos <= pos
  BY <1>4 DEF Inv, TypeOK
<1>8. QED
  BY <1>2, <1>3, <1>4, <1>6, <1>7, SetCall

\* Both calls begin by asking for SHARED, as a reader does.
LEMMA StartStep ==
  ASSUME Inv, NEW g \in Writer \cup Exporter, UNCHANGED <<lk, dataVars, clientVars>>,
         gs' = [gs EXCEPT ![g].pc = "shared", ![g].todo = TakeShared]
  PROVE  Inv'
<1> DEFINE q == [gs[g] EXCEPT !.pc = "shared", !.todo = TakeShared]
<1>1. gs[g] \in Call /\ gs[g].pos <= pos
  BY DEF Inv, TypeOK, Call, Request
<1>2. /\ TakeShared \in Seq(Request) /\ Len(TakeShared) = 3
      /\ TakeShared[1] = R("PENDING") /\ TakeShared[2] = R("SHARED")
      /\ TakeShared[3] = U("PENDING") /\ 1..3 = {1, 2, 3}
  <2>1. R("PENDING") \in Request /\ R("SHARED") \in Request /\ U("PENDING") \in Request
    BY LockNames DEF R, U, Request
  <2>2. QED
    BY <2>1 DEF TakeShared
<1>3. q \in Call /\ q.pc = "shared" /\ q.todo = TakeShared /\ q.pos = gs[g].pos
  BY <1>1, <1>2 DEF Call
<1>4. gs' = [gs EXCEPT ![g] = q]
  OBVIOUS
<1>5. Untouched(g)
  BY DEF Untouched, Inv, TypeOK, InOrder
<1> HIDE DEF q
<1>6. gs'[g] = q => Begins(g)'
  BY <1>2, <1>3 DEF Begins, Owes
<1>7. gs'[g] = q => WriterInv(g)' /\ ExporterInv(g)'
  BY <1>3, <1>6 DEF WriterInv, ExporterInv
<1>8. QED
  BY <1>1, <1>3, <1>4, <1>5, <1>7, SetCall

\* The guards of the upgrade, in each mode.
LEMMA UpgradeLocks ==
  /\ Upgrade \in Seq(Request)
  /\ mode = "rollback" =>
       /\ \A l \in DatabaseLock : \E i \in 1..Len(Upgrade) : Upgrade[i] = X(l)
       /\ \A i \in 1..Len(Upgrade) : Upgrade[i].do = "lock"
  /\ mode # "rollback" =>
       /\ \A l \in {"WRITE", "CKPT", "RECOVER"} \cup ReadLock :
            \E i \in 1..Len(Upgrade) : Upgrade[i] = X(l)
       /\ \A i \in 1..Len(Upgrade) : Upgrade[i].do = "lock" \/ Upgrade[i] = R("DMS")
<1>1. \A l \in LockType : X(l) \in Request /\ R(l) \in Request /\ X(l).do = "lock"
  BY DEF X, R, Request
<1>2. CASE mode = "rollback"
  <2> DEFINE s == <<X("RESERVED"), X("PENDING"), X("SHARED")>>
  <2>1. Upgrade = s
    BY <1>2 DEF Upgrade
  <2>2. X("RESERVED") \in Request /\ X("PENDING") \in Request /\ X("SHARED") \in Request
    BY <1>1, LockNames
  <2>3. /\ s \in Seq(Request) /\ Len(s) = 3 /\ 1..3 = {1, 2, 3}
        /\ s[1] = X("RESERVED") /\ s[2] = X("PENDING") /\ s[3] = X("SHARED")
    BY <2>2
  <2> HIDE DEF s
  <2>4. QED
    BY <1>1, <1>2, <2>1, <2>3, LockNames
<1>3. CASE mode # "rollback"
  <2> DEFINE s == <<R("DMS"), X("WRITE"), X("CKPT"), X("RECOVER")>>
  <2> DEFINE t == [i \in 1..Len(ReadLocks) |-> X(ReadLocks[i])]
  <2>1. Upgrade = s \o t
    BY <1>3 DEF Upgrade, Each
  <2>2. {R("DMS"), X("WRITE"), X("CKPT"), X("RECOVER")} \subseteq Request
    BY <1>1, LockNames
  <2>3. /\ s \in Seq(Request) /\ Len(s) = 4 /\ 1..4 = {1, 2, 3, 4}
        /\ s[1] = R("DMS") /\ s[2] = X("WRITE") /\ s[3] = X("CKPT") /\ s[4] = X("RECOVER")
    BY <2>2
  <2>4. Len(ReadLocks) = NReads /\ NReads \in Nat /\ \A i \in 1..NReads : ReadLocks[i] \in ReadLock
    BY ReadLockNames, LocksAssumption, ElementOfSeq
  <2>5. t \in Seq(Request) /\ Len(t) = NReads /\ \A i \in 1..NReads : t[i] = X(ReadLocks[i])
    <3>1. t = [i \in 1..NReads |-> X(ReadLocks[i])]
      BY <2>4
    <3>2. \A i \in 1..NReads : X(ReadLocks[i]) \in Request
      BY <1>1, <2>4, LockNames
    <3>3. t \in Seq(Request)
      BY <2>4, <3>1, <3>2, IsASeq
    <3>4. Len(t) = NReads
      BY <2>4, <3>1, <3>3
    <3>5. QED
      BY <3>1, <3>3, <3>4
  <2> HIDE DEF s, t
  <2>6. /\ Upgrade \in Seq(Request) /\ Len(Upgrade) = 4 + NReads
        /\ \A i \in 1..(4 + NReads) : Upgrade[i] = IF i <= 4 THEN s[i] ELSE t[i - 4]
    <3>1. /\ s \o t \in Seq(Request) /\ Len(s \o t) = Len(s) + Len(t)
          /\ \A i \in 1..Len(s) + Len(t) :
               (s \o t)[i] = IF i <= Len(s) THEN s[i] ELSE t[i - Len(s)]
      BY <2>3, <2>5, ConcatProperties
    <3>2. Len(s) = 4 /\ Len(t) = NReads
      BY <2>3, <2>5
    <3>3. QED
      BY <2>1, <3>1, <3>2
  <2>7. \A i \in 1..NReads : Upgrade[i + 4] = X(ReadLocks[i]) /\ i + 4 \in 1..(4 + NReads)
    BY <2>4, <2>5, <2>6
  <2>8. /\ Upgrade[1] = R("DMS") /\ Upgrade[2] = X("WRITE") /\ Upgrade[3] = X("CKPT")
        /\ Upgrade[4] = X("RECOVER") /\ {1, 2, 3, 4} \subseteq 1..Len(Upgrade)
    BY <2>3, <2>4, <2>6
  <2>9. \A i \in 1..Len(Upgrade) : Upgrade[i].do = "lock" \/ Upgrade[i] = R("DMS")
    <3>1. SUFFICES ASSUME NEW i \in 1..(4 + NReads)
                   PROVE  Upgrade[i].do = "lock" \/ Upgrade[i] = R("DMS")
      BY <2>6
    <3>2. CASE i <= 4
      <4>1. i \in {1, 2, 3, 4}
        BY <3>2, <2>4
      <4>2. QED
        BY <4>1, <2>8, <1>1, LockNames
    <3>3. CASE ~(i <= 4)
      <4>1. i - 4 \in 1..NReads /\ Upgrade[i] = t[i - 4]
        BY <3>3, <2>4, <2>6
      <4>2. QED
        BY <4>1, <2>4, <2>5, <1>1, LockNames
    <3>4. QED
      BY <3>2, <3>3
  <2>10. \A l \in ReadLock : \E i \in 1..Len(Upgrade) : Upgrade[i] = X(l)
    BY <2>6, <2>7 DEF ReadLock
  <2>11. QED
    BY <1>3, <2>6, <2>8, <2>9, <2>10
<1>4. QED
  BY <1>2, <1>3

\* A list with nothing on it owes nothing.
LEMMA NothingOwed ==
  ASSUME NEW g, gs'[g].todo = <<>>
  PROVE  \A a : ~Owes(g, a)'
<1>1. Len(gs'[g].todo) = 0
  BY EmptySeq
<1>2. QED
  BY <1>1 DEF Owes

\* The first guards of a call: at the end of them it has SHARED.
LEMMA SharedStep ==
  ASSUME Inv, NEW g \in Writer \cup Exporter, gs[g].pc = "shared", Step(g, "mode")
  PROVE  Inv'
<1>1. PICK a : a = Head(gs[g].todo)
  OBVIOUS
<1>2. /\ Untouched(g) /\ TypeOK' /\ UNCHANGED <<mode, file, clientVars>>
      /\ \A h \in (Writer \cup Exporter) \ {g} : gs'[h] = gs[h]
      /\ gs'[g].pc = IF Len(gs[g].todo) = 1 THEN "mode" ELSE "shared"
      /\ Len(gs[g].todo) = 1 => gs'[g].todo = <<>>
      /\ \A i \in 1..Len(gs'[g].todo) :
           \E j \in 1..Len(gs[g].todo) : gs'[g].todo[i] = gs[g].todo[j]
      /\ \A b : Owes(g, b) => b = a \/ Owes(g, b)'
      /\ Owes(g, a)
      /\ \A l \in LockType \ {a.lock} : Has(g, l)' = Has(g, l)
      /\ a.do = "rlock" => Has(g, a.lock)' = Shared
  BY <1>1, StepEffect
<1>3. /\ \A i \in 1..Len(gs[g].todo) : gs[g].todo[i] \in {R("PENDING"), R("SHARED"), U("PENDING")}
      /\ Has(g, "SHARED") # Unlocked \/ Owes(g, R("SHARED"))
  BY DEF Inv, WriterInv, ExporterInv, Begins
<1>4. a \in {R("PENDING"), R("SHARED"), U("PENDING")}
  BY <1>2, <1>3 DEF Owes
<1>5. (Has(g, "SHARED") # Unlocked \/ Owes(g, R("SHARED")))'
  <2>1. CASE a = R("SHARED")
    BY <1>2, <2>1 DEF R, Unlocked, Shared
  <2>2. CASE a # R("SHARED")
    <3>1. a.lock = "PENDING"
      BY <1>4, <2>2 DEF R, U
    <3>2. Has(g, "SHARED")' = Has(g, "SHARED")
      BY <1>2, <3>1, LockNames
    <3>3. QED
      BY <1>2, <1>3, <2>2, <3>2
  <2>3. QED
    BY <2>1, <2>2
<1>6. CASE Len(gs[g].todo) = 1
  <2>1. gs'[g].pc = "mode" /\ gs'[g].todo = <<>>
    BY <1>2, <1>6
  <2>2. Has(g, "SHARED")' # Unlocked
    BY <1>5, <2>1, NothingOwed
  <2>3. Begins(g)'
    BY <2>1, <2>2 DEF Begins
  <2>4. WriterInv(g)' /\ ExporterInv(g)'
    BY <2>1, <2>3 DEF WriterInv, ExporterInv
  <2>5. QED
    BY <1>2, <2>4, CallStep DEF ModeKept, Inv
<1>7. CASE Len(gs[g].todo) # 1
  <2>1. gs'[g].pc = "shared"
    BY <1>2, <1>7
  <2>2. \A i \in 1..Len(gs'[g].todo) : gs'[g].todo[i] \in {R("PENDING"), R("SHARED"), U("PENDING")}
    BY <1>2, <1>3
  <2>3. Begins(g)'
    BY <1>5, <2>1, <2>2 DEF Begins
  <2>4. WriterInv(g)' /\ ExporterInv(g)'
    BY <2>1, <2>3 DEF WriterInv, ExporterInv
  <2>5. QED
    BY <1>2, <2>4, CallStep DEF ModeKept, Inv
<1>8. QED
  BY <1>6, <1>7

\* The upgrade: each granted guard is one that the mode asks for.
LEMMA UpgradeEffect ==
  ASSUME Inv, NEW w \in Writer, gs[w].pc = "upgrade", Step(w, "held")
  PROVE  /\ Untouched(w) /\ TypeOK' /\ UNCHANGED <<mode, file, clientVars>>
         /\ \A h \in (Writer \cup Exporter) \ {w} : gs'[h] = gs[h]
         /\ gs'[w].pc \in {"upgrade", "held"} /\ (gs'[w].pc = "held" => gs'[w].todo = <<>>)
         /\ Begins(w)'
         /\ RollbackLocks(w) => RollbackLocks(w)'
         /\ WALLocks(w) => WALLocks(w)'
<1>1. PICK a : a = Head(gs[w].todo)
  OBVIOUS
<1>2. /\ Untouched(w) /\ TypeOK' /\ UNCHANGED <<mode, file, clientVars>>
      /\ \A h \in (Writer \cup Exporter) \ {w} : gs'[h] = gs[h]
      /\ gs'[w].pc = IF Len(gs[w].todo) = 1 THEN "held" ELSE "upgrade"
      /\ Len(gs[w].todo) = 1 => gs'[w].todo = <<>>
      /\ \A i \in 1..Len(gs'[w].todo) :
           \E j \in 1..Len(gs[w].todo) : gs'[w].todo[i] = gs[w].todo[j]
      /\ \A b : Owes(w, b) => b = a \/ Owes(w, b)'
      /\ Owes(w, a)
      /\ \A l \in LockType \ {a.lock} : Has(w, l)' = Has(w, l)
      /\ a.do = "lock" => Has(w, a.lock)' = Exclusive
      /\ a.do = "rlock" => Has(w, a.lock)' = Shared
  BY <1>1, StepEffect
<1>3. WriterInv(w)
  BY DEF Inv
<1>4. a.do = "lock" \/ a = R("DMS")
  BY <1>2, <1>3 DEF WriterInv, RollbackLocks, WALLocks, Owes
<1>5. ASSUME NEW l \in LockType, l # "DMS", Has(w, l) = Exclusive \/ Owes(w, X(l))
      PROVE  Has(w, l)' = Exclusive \/ Owes(w, X(l))'
  <2>1. CASE l = a.lock
    <3>1. a.do = "lock"
      BY <1>4, <1>5, <2>1 DEF R
    <3>2. QED
      BY <1>2, <2>1, <3>1
  <2>2. CASE l # a.lock
    <3>1. X(l) # a
      BY <2>2 DEF X
    <3>2. QED
      BY <1>2, <1>5, <2>2, <3>1
  <2>3. QED
    BY <2>1, <2>2
<1>6. Has(w, "SHARED")' # Unlocked
  <2>1. Has(w, "SHARED") # Unlocked
    BY <1>3 DEF WriterInv, Begins
  <2>2. CASE a.lock = "SHARED"
    <3>1. a.do = "lock"
      BY <1>4, <2>2 DEF R
    <3>2. QED
      BY <1>2, <2>2, <3>1 DEF Exclusive, Unlocked
  <2>3. CASE a.lock # "SHARED"
    BY <1>2, <2>1, <2>3, LockNames
  <2>4. QED
    BY <2>2, <2>3
<1>7. gs'[w].pc \in {"upgrade", "held"} /\ (gs'[w].pc = "held" => gs'[w].todo = <<>>)
  BY <1>2
<1>8. Begins(w)'
  BY <1>6, <1>7 DEF Begins
<1>9. RollbackLocks(w) => RollbackLocks(w)'
  <2>1. SUFFICES ASSUME RollbackLocks(w) PROVE RollbackLocks(w)'
    OBVIOUS
  <2>2. \A l \in DatabaseLock : l \in LockType /\ l # "DMS"
    BY LockNames
  <2>3. \A l \in DatabaseLock : (Has(w, l) = Exclusive \/ Owes(w, X(l)))'
    BY <1>5, <2>1, <2>2 DEF RollbackLocks
  <2>4. \A i \in 1..Len(gs'[w].todo) : gs'[w].todo[i].do = "lock"
    BY <1>2, <2>1 DEF RollbackLocks
  <2>5. QED
    BY <1>2, <2>1, <2>3, <2>4 DEF RollbackLocks
<1>10. WALLocks(w) => WALLocks(w)'
  <2>1. SUFFICES ASSUME WALLocks(w) PROVE WALLocks(w)'
    OBVIOUS
  <2>2. \A l \in {"WRITE", "CKPT", "RECOVER"} \cup ReadLock : l \in LockType /\ l # "DMS"
    BY LockNames
  <2>3. \A l \in {"WRITE", "CKPT", "RECOVER"} \cup ReadLock :
          (Has(w, l) = Exclusive \/ Owes(w, X(l)))'
    BY <1>5, <2>1, <2>2 DEF WALLocks
  <2>4. \A i \in 1..Len(gs'[w].todo) : gs'[w].todo[i].do = "lock" \/ gs'[w].todo[i] = R("DMS")
    BY <1>2, <2>1 DEF WALLocks
  <2>5. QED
    BY <1>2, <2>1, <2>3, <2>4 DEF WALLocks
<1>11. QED
  BY <1>2, <1>7, <1>8, <1>9, <1>10

\* A step of the upgrade.
LEMMA UpgradeStep ==
  ASSUME Inv, NEW w \in Writer, gs[w].pc = "upgrade", Step(w, "held")
  PROVE  Inv'
<1>1. /\ Untouched(w) /\ TypeOK' /\ UNCHANGED <<mode, file, clientVars>>
      /\ \A h \in (Writer \cup Exporter) \ {w} : gs'[h] = gs[h]
  BY UpgradeEffect
<1>2. WriterInv(w)'
  <2>1. RollbackLocks(w) \/ WALLocks(w)
    BY DEF Inv, WriterInv
  <2>2. QED
    BY <2>1, UpgradeEffect DEF WriterInv
<1>3. w \notin Exporter
  BY LocksAssumption
<1>4. QED
  BY <1>1, <1>2, <1>3, CallStep DEF ModeKept, Inv

\* The call looks at the mode and starts its upgrade.
LEMMA WriteModeStep ==
  ASSUME Inv, NEW w \in Writer, WriteMode(w)
  PROVE  Inv'
<1> DEFINE q == [gs[w] EXCEPT !.pc = "upgrade", !.todo = Upgrade]
<1>1. gs[w] \in Call /\ gs[w].pos <= pos /\ mode \in DBMode
  BY DEF Inv, TypeOK, Call, Request
<1>2. Upgrade \in Seq(Request)
  BY UpgradeLocks
<1>3. q \in Call /\ q.pc = "upgrade" /\ q.todo = Upgrade /\ q.pos = gs[w].pos
  BY <1>1, <1>2 DEF Call
<1>4. gs' = [gs EXCEPT ![w] = q] /\ UNCHANGED <<lk, dataVars, clientVars>>
  BY DEF WriteMode
<1>5. Untouched(w) /\ mode' = mode
  BY <1>4 DEF Untouched, Inv, TypeOK, InOrder, dataVars
<1> HIDE DEF q
<1>6. Has(w, "SHARED") # Unlocked
  BY DEF Inv, WriterInv, Begins, WriteMode
<1>7. ASSUME gs'[w] = q PROVE WriterInv(w)'
  <2>1. Begins(w)'
    BY <1>3, <1>4, <1>6, <1>7 DEF Begins, Has
  <2>2. CASE mode = "rollback"
    <3>1. RollbackLocks(w)'
      BY <1>3, <1>5, <1>7, <2>2, UpgradeLocks DEF RollbackLocks, Owes
    <3>2. QED
      BY <1>3, <1>7, <2>1, <3>1 DEF WriterInv
  <2>3. CASE mode = "wal"
    <3>1. WALLocks(w)'
      BY <1>3, <1>5, <1>7, <2>3, UpgradeLocks DEF WALLocks, Owes
    <3>2. QED
      BY <1>3, <1>7, <2>1, <3>1 DEF WriterInv
  <2>4. QED
    BY <1>1, <2>2, <2>3 DEF DBMode
<1>8. w \notin Exporter
  BY LocksAssumption
<1>9. QED
  BY <1>1, <1>3, <1>4, <1>5, <1>7, <1>8, SetCall

\* Who holds the write lock has the locks of one of the modes, all of them.
LEMMA HeldLocks ==
  ASSUME Inv, NEW w \in Writer, gs[w].pc = "held"
  PROVE  /\ Has(w, "SHARED") # Unlocked
         /\ \/ \A l \in DatabaseLock : Has(w, l) = Exclusive
            \/ /\ \A l \in {"WRITE", "CKPT", "RECOVER"} \cup ReadLock : Has(w, l) = Exclusive
               /\ mode = "wal"
<1>1. WriterInv(w)
  BY DEF Inv
<1>2. gs[w].todo = <<>> /\ Has(w, "SHARED") # Unlocked
  BY <1>1 DEF WriterInv, Begins
<1>3. Len(gs[w].todo) = 0
  BY <1>2, EmptySeq
<1>4. \A a : ~Owes(w, a)
  BY <1>3 DEF Owes
<1>5. QED
  BY <1>1, <1>2, <1>4 DEF WriterInv, RollbackLocks, WALLocks

\* A transaction or a checkpoint under the write lock.
LEMMA HeldStep ==
  ASSUME Inv, NEW w \in Writer, ApplyLTX(w) \/ CheckpointNoLock(w)
  PROVE  Inv'
<1>1. /\ gs[w].pc = "held" /\ UNCHANGED <<lk, clientVars, gs>> /\ WriterInv(w)
      /\ w \in Guard /\ w \notin Exporter
  BY LocksAssumption DEF ApplyLTX, CheckpointNoLock, Inv
<1>2. Untouched(w)
  BY <1>1 DEF Untouched, Inv, TypeOK, InOrder
<1>3. pos' \in Nat /\ pos <= pos' /\ dbpos' \in 0..pos'
  BY DEF ApplyLTX, CheckpointNoLock, Inv, TypeOK
<1>4. /\ mode' \in DBMode /\ file' \in DBMode /\ (mode = "wal" => mode' = "wal")
      /\ "leave" \notin Optional => file' = file \/ file' = "wal"
      /\ "leave" \notin Optional => mode' = file'
  BY DEF ApplyLTX, CheckpointNoLock, Inv, TypeOK, DBMode
<1>5. TypeOK'
  <2>1. \A g \in Writer \cup Exporter : gs'[g].pos <= pos'
    BY <1>1, <1>3 DEF Inv, TypeOK
  <2>2. QED
    BY <1>1, <1>3, <1>4, <2>1 DEF Inv, TypeOK, clientVars
<1>6. ModeKept(w)
  <2>1. CASE Has(w, "SHARED") = Exclusive
    BY <1>1, <2>1, Conflict, LockNames DEF ModeKept
  <2>2. CASE mode = "wal"
    BY <1>4, <2>2 DEF ModeKept, Inv
  <2>3. QED
    BY <1>1, <2>1, <2>2, HeldLocks, LockNames
<1>7. WriterInv(w)'
  <2>1. Begins(w)'
    BY <1>1 DEF WriterInv, Begins, Has, Owes
  <2>2. RollbackLocks(w) => RollbackLocks(w)'
    BY <1>1 DEF RollbackLocks, Has, Owes
  <2>3. WALLocks(w) => WALLocks(w)'
    BY <1>1, <1>4 DEF WALLocks, Has, Owes
  <2>4. QED
    BY <1>1, <2>1, <2>2, <2>3 DEF WriterInv
<1>8. QED
  BY <1>1, <1>2, <1>4, <1>5, <1>6, <1>7, CallStep

-----------------------------------------------------------------------------
\* The list of the guards under which an export copies the database.
LEMMA CopyLocks ==
  LET s == <<R("CKPT"), R("RECOVER")>> \o Each(R, ReadLocks)
  IN /\ s \in Seq(Request)
     /\ \E i \in 1..Len(s) : s[i] = R("CKPT")
     /\ \A i \in 1..Len(s) : s[i].do = "rlock"
<1> DEFINE A == {b \in Request : b.do = "rlock"}
<1> DEFINE p == <<R("CKPT"), R("RECOVER")>>
<1> DEFINE t == [i \in 1..Len(ReadLocks) |-> R(ReadLocks[i])]
<1>1. \A l \in LockType : R(l) \in A
  BY DEF R, Request
<1>2. p \in Seq(A) /\ Len(p) = 2 /\ p[1] = R("CKPT")
  <2>1. R("CKPT") \in A /\ R("RECOVER") \in A
    BY <1>1, LockNames
  <2> HIDE DEF A
  <2>2. QED
    BY <2>1
<1>3. Len(ReadLocks) = NReads /\ NReads \in Nat /\ \A i \in 1..NReads : ReadLocks[i] \in LockType
  <2>1. \A i \in 1..NReads : ReadLocks[i] \in ReadLock
    BY DEF ReadLock
  <2>2. \A i \in 1..NReads : ReadLocks[i] \in LockType
    <3>1. ReadLock \subseteq LockType
      BY LockNames
    <3>2. QED
      BY <2>1, <3>1
  <2>3. Len(ReadLocks) = NReads /\ NReads \in Nat
    BY ReadLockNames, LocksAssumption
  <2>4. QED
    BY <2>2, <2>3
<1>4. t \in Seq(A)
  <2>1. t = [i \in 1..NReads |-> R(ReadLocks[i])]
    BY <1>3
  <2>2. \A i \in 1..NReads : R(ReadLocks[i]) \in A
    BY <1>1, <1>3
  <2> HIDE DEF A
  <2>3. QED
    BY <1>3, <2>1, <2>2, IsASeq
<1> HIDE DEF A, p, t
<1>5. /\ p \o t \in Seq(A) /\ Len(p \o t) = Len(p) + Len(t)
      /\ \A i \in 1..Len(p) + Len(t) :
           (p \o t)[i] = IF i <= Len(p) THEN p[i] ELSE t[i - Len(p)]
  BY <1>2, <1>4, ConcatProperties
<1>6. Len(t) \in Nat
  BY <1>4, LenProperties
<1>7. 1 \in 1..Len(p \o t) /\ (p \o t)[1] = R("CKPT")
  BY <1>2, <1>5, <1>6
<1>8. \A i \in 1..Len(p \o t) : (p \o t)[i].do = "rlock"
  <2>1. \A i \in 1..Len(p \o t) : (p \o t)[i] \in A
    BY <1>5, ElementOfSeq
  <2>2. QED
    BY <2>1 DEF A
<1>9. p \o t \in Seq(Request)
  BY <1>5, SeqMonotonic DEF A
<1>10. QED
  BY <1>7, <1>8, <1>9 DEF p, t, Each

\* An export that has its locks looks at the mode: in the WAL mode it asks for WRITE.
LEMMA ExportModeStep ==
  ASSUME Inv, NEW x \in Exporter, ExportMode(x)
  PROVE  Inv'
<1> DEFINE pc == IF mode = "wal" THEN "write" ELSE "snapshot"
<1> DEFINE t == IF mode = "wal" THEN <<X("WRITE")>> ELSE <<>>
<1> DEFINE q == [gs[x] EXCEPT !.pc = pc, !.todo = t]
<1>1. gs[x] \in Call /\ gs[x].pos <= pos /\ mode \in DBMode
  BY DEF Inv, TypeOK, Call, Request
<1>2. X("WRITE") \in Request
  BY LockNames DEF X, Request
<1>3. /\ t \in Seq(Request) /\ pc \in {"write", "snapshot"}
      /\ pc = "write" => /\ \A i \in 1..Len(t) : t[i] = X("WRITE")
                         /\ \E i \in 1..Len(t) : t[i] = X("WRITE")
      /\ pc = "snapshot" => mode = "rollback" /\ t = <<>>
  <2>1. CASE mode = "wal"
    <3>1. t = <<X("WRITE")>> /\ pc = "write"
      BY <2>1
    <3>2. <<X("WRITE")>> \in Seq(Request) /\ Len(<<X("WRITE")>>) = 1 /\ <<X("WRITE")>>[1] = X("WRITE")
      BY <1>2
    <3> HIDE DEF t, pc
    <3>3. QED
      BY <3>1, <3>2
  <2>2. CASE mode # "wal"
    BY <1>1, <2>2, EmptySeq DEF DBMode
  <2>3. QED
    BY <2>1, <2>2
<1>4. gs' = [gs EXCEPT ![x] = q] /\ UNCHANGED <<lk, dataVars, clientVars>>
  BY DEF ExportMode
<1> HIDE DEF pc, t
<1>5. q \in Call /\ q.pc = pc /\ q.todo = t /\ q.pos = gs[x].pos
  BY <1>1, <1>3 DEF Call
<1>6. Untouched(x) /\ mode' = mode
  BY <1>4 DEF Untouched, Inv, TypeOK, InOrder, dataVars
<1> HIDE DEF q
<1>7. Has(x, "SHARED") # Unlocked
  BY DEF Inv, ExporterInv, Begins, ExportMode
<1>8. ASSUME gs'[x] = q PROVE ExporterInv(x)'
  <2>1. Has(x, "SHARED")' # Unlocked /\ gs'[x].pc = pc /\ gs'[x].todo = t
    BY <1>4, <1>5, <1>7, <1>8 DEF Has
  <2>2. Begins(x)'
    BY <1>3, <2>1 DEF Begins
  <2>3. pc = "write" => Owes(x, X("WRITE"))'
    BY <1>3, <2>1 DEF Owes
  <2>4. QED
    BY <1>3, <1>6, <2>1, <2>2, <2>3 DEF ExporterInv
<1>9. x \notin Writer
  BY LocksAssumption
<1>10. QED
  BY <1>1, <1>4, <1>5, <1>6, <1>8, <1>9, SetCall

\* The snapshot: the position is copied, WRITE released, and the guards of the copy
\* are still to be taken.
LEMMA ExportSnapshotStep ==
  ASSUME Inv, NEW x \in Exporter, ExportSnapshot(x)
  PROVE  Inv'
<1> DEFINE s == <<R("CKPT"), R("RECOVER")>> \o Each(R, ReadLocks)
<1> DEFINE q == [pc |-> "ckpt", pos |-> pos, todo |-> s]
<1>1. /\ s \in Seq(Request)
      /\ \E i \in 1..Len(s) : s[i] = R("CKPT")
      /\ \A i \in 1..Len(s) : s[i].do = "rlock"
  BY CopyLocks
<1>2. gs' = [gs EXCEPT ![x] = q] /\ UNCHANGED <<dataVars, clientVars>> /\ pos \in Nat
  BY DEF ExportSnapshot, Inv, TypeOK
<1> HIDE DEF s
<1>3. q \in Call /\ q.pc = "ckpt" /\ q.todo = s /\ q.pos = pos /\ q.pos <= pos
  BY <1>1, <1>2 DEF Call
<1> HIDE DEF q
<1>4. x \in Guard /\ x \notin Writer
  BY LocksAssumption
<1>5. Untouched(x) /\ Has(x, "SHARED")' = Has(x, "SHARED")
  <2>1. PICK a : a = U("WRITE")
    OBVIOUS
  <2>2. a \in [do : {"rlock", "lock", "unlock"}, lock : LockType]
        /\ a.do = "unlock" /\ a.lock = "WRITE"
    BY <2>1, LockNames DEF U
  <2>3. Granted(a, x) /\ Do(a, x)
    BY <2>2 DEF Granted, Do, ExportSnapshot
  <2>4. Untouched(x) /\ \A l \in LockType \ {"WRITE"} : lk'[l].state[x] = lk[l].state[x]
    BY <1>4, <2>2, <2>3, DoEffect
  <2>5. QED
    BY <2>4, LockNames DEF Has
<1>6. Has(x, "SHARED") # Unlocked
  BY DEF Inv, ExporterInv, Begins, ExportSnapshot
<1>7. ASSUME gs'[x] = q PROVE ExporterInv(x)'
  <2>1. Begins(x)' /\ gs'[x].pc = "ckpt" /\ gs'[x].todo = s
    BY <1>3, <1>5, <1>6, <1>7 DEF Begins
  <2>2. Owes(x, R("CKPT"))'
    BY <1>1, <2>1 DEF Owes
  <2>3. QED
    BY <1>1, <2>1, <2>2 DEF ExporterInv
<1>8. QED
  BY <1>2, <1>3, <1>4, <1>5, <1>7, SetCall

\* The guards of an export after the first ones.
LEMMA ExportStepKeeps ==
  ASSUME Inv, NEW x \in Exporter, NEW next \in {"snapshot", "copy"}, Step(x, next),
         \/ gs[x].pc = "write" /\ next = "snapshot"
         \/ gs[x].pc = "ckpt" /\ next = "copy"
  PROVE  Inv'
<1>1. PICK a : a = Head(gs[x].todo)
  OBVIOUS
<1>2. /\ Untouched(x) /\ TypeOK' /\ UNCHANGED <<mode, file, clientVars>>
      /\ \A h \in (Writer \cup Exporter) \ {x} : gs'[h] = gs[h]
      /\ gs'[x].pc = IF Len(gs[x].todo) = 1 THEN next ELSE gs[x].pc
      /\ Len(gs[x].todo) = 1 => gs'[x].todo = <<>>
      /\ \A i \in 1..Len(gs'[x].todo) :
           \E j \in 1..Len(gs[x].todo) : gs'[x].todo[i] = gs[x].todo[j]
      /\ \A b : Owes(x, b) => b = a \/ Owes(x, b)'
      /\ Owes(x, a) /\ a.lock \in LockType
      /\ \A l \in LockType \ {a.lock} : Has(x, l)' = Has(x, l)
      /\ a.do = "rlock" => Has(x, a.lock)' = Shared
      /\ a.do = "lock" => Has(x, a.lock)' = Exclusive
  BY <1>1, StepEffect
<1>3. ExporterInv(x) /\ Has(x, "SHARED") # Unlocked
  BY DEF Inv, ExporterInv, Begins
<1>4. a.do \in {"lock", "rlock"}
  BY <1>2, <1>3 DEF ExporterInv, Owes, X
<1>5. Has(x, "SHARED")' # Unlocked
  BY <1>2, <1>3, <1>4, LockNames DEF Unlocked, Shared, Exclusive
<1>6. gs'[x].pc \in {gs[x].pc, next} /\ (gs'[x].pc = next => gs'[x].todo = <<>>)
  BY <1>2
<1>7. Begins(x)'
  BY <1>5, <1>6 DEF Begins
<1>8. ASSUME gs[x].pc = "write" /\ next = "snapshot" PROVE ExporterInv(x)'
  <2>1. \A i \in 1..Len(gs'[x].todo) : gs'[x].todo[i] = X("WRITE")
    BY <1>2, <1>3, <1>8 DEF ExporterInv
  <2>2. a = X("WRITE")
    BY <1>2, <1>3, <1>8 DEF ExporterInv, Owes
  <2>3. Has(x, "WRITE")' = Exclusive
    BY <1>2, <2>2 DEF X
  <2>4. QED
    BY <1>6, <1>7, <1>8, <2>1, <2>3 DEF ExporterInv
<1>9. ASSUME gs[x].pc = "ckpt" /\ next = "copy" PROVE ExporterInv(x)'
  <2>1. \A i \in 1..Len(gs'[x].todo) : gs'[x].todo[i].do = "rlock"
    <3>1. \A j \in 1..Len(gs[x].todo) : gs[x].todo[j].do = "rlock"
      BY <1>3, <1>9 DEF ExporterInv
    <3>2. \A i \in 1..Len(gs'[x].todo) :
            \E j \in 1..Len(gs[x].todo) : gs'[x].todo[i] = gs[x].todo[j]
      BY <1>2
    <3>3. QED
      BY <3>1, <3>2
  <2>2. (Has(x, "CKPT") # Unlocked \/ Owes(x, R("CKPT")))'
    <3>1. CASE a.lock = "CKPT"
      BY <1>2, <1>4, <3>1 DEF Unlocked, Shared, Exclusive
    <3>2. CASE a.lock # "CKPT"
      <4>1. a # R("CKPT") /\ Has(x, "CKPT")' = Has(x, "CKPT")
        BY <1>2, <3>2, LockNames DEF R
      <4>2. QED
        BY <1>2, <1>3, <1>9, <4>1 DEF ExporterInv
    <3>3. QED
      BY <3>1, <3>2
  <2>3. QED
    BY <1>6, <1>7, <1>9, <2>1, <2>2 DEF ExporterInv
<1>10. ExporterInv(x)' /\ x \notin Writer
  BY <1>8, <1>9, LocksAssumption
<1>11. QED
  BY <1>2, <1>10, CallStep DEF ModeKept, Inv

-----------------------------------------------------------------------------
(* The invariant. *)

\* It holds when the database is opened.
LEMMA InitInv == Init => Inv
<1> SUFFICES ASSUME Init PROVE Inv
  OBVIOUS
<1>1. lk \in [LockType -> Mutex] /\ InOrder
  BY NewMutexCorrect DEF Init, InOrder
<1>2. \A g \in Guard, l \in LockType : Has(g, l) = Unlocked
  BY DEF Init, Has, NewMutex
<1>3. NoLocks \in [LockType -> GuardState] /\ \A l \in LockType : NoLocks[l] = Unlocked
  BY DEF NoLocks, GuardState
<1>4. Idle \in Call /\ Idle.pos = 0 /\ Idle.pc = "idle" /\ Idle.todo = <<>>
  BY EmptySeq DEF Idle, Call
<1>5. NoWant \in [do : {"none", "lock", "rlock"}, locks : Seq(LockType), todo : Seq(LockType)]
  BY EmptySeq DEF NoWant
<1>6. gs \in [Writer \cup Exporter -> Call] /\ \A g \in Writer \cup Exporter : gs[g] = Idle
  BY <1>4 DEF Init
<1>7. TypeOK
  <2>1. \A g \in Writer \cup Exporter : gs[g].pos <= pos
    BY <1>4, <1>6 DEF Init
  <2>2. /\ got \in [Client -> [LockType -> GuardState]]
        /\ want \in [Client -> [do : {"none", "lock", "rlock"},
                                locks : Seq(LockType), todo : Seq(LockType)]]
    BY <1>3, <1>5 DEF Init
  <2>3. /\ mode \in DBMode /\ file \in DBMode
        /\ pos \in Nat /\ dbpos \in 0..pos
        /\ sees \in [Client -> DBMode \cup {"none", "closed"}]
        /\ dirty \in [Client -> BOOLEAN] /\ dying \in [Client -> BOOLEAN]
    BY DEF Init
  <2>4. QED
    BY <1>1, <1>6, <2>1, <2>2, <2>3 DEF TypeOK, Call, Request
<1>8. \A c \in Client : ClientInv(c)
  <2>1. SUFFICES ASSUME NEW c \in Client PROVE ClientInv(c)
    OBVIOUS
  <2>2. got[c] = NoLocks /\ sees[c] = "none" /\ want[c] = NoWant
    BY DEF Init
  <2>3. Beliefs(c)
    BY <1>2, <1>3, <2>2, LocksAssumption DEF Beliefs, Unlocked, Shared, Exclusive
  <2>4. Session(c) /\ RightHeader(c)
    BY <1>3, <2>2, LockNames DEF Session, RightHeader, DBMode
  <2>5. QED
    BY <2>3, <2>4 DEF ClientInv
<1>9. \A g \in Writer \cup Exporter : Begins(g)
  BY <1>2, <1>4, <1>6, LocksAssumption DEF Begins
<1>10. QED
  BY <1>1, <1>4, <1>6, <1>7, <1>8, <1>9 DEF Init, Inv, WriterInv, ExporterInv

\* Every step keeps it.
LEMMA StepInv == Inv /\ [Next]_vars => Inv'
<1> SUFFICES ASSUME Inv, [Next]_vars PROVE Inv'
  OBVIOUS
<1>1. CASE UNCHANGED vars
  <2>1. UNCHANGED <<lk, mode, file, pos, dbpos, got, sees, want, dirty, dying, gs>>
    BY <1>1 DEF vars, dataVars, clientVars
  <2>2. TypeOK' /\ InOrder' /\ ("leave" \notin Optional => mode' = file')
    BY <2>1 DEF Inv, TypeOK, InOrder
  <2>3. \A c \in Client : ClientInv(c)'
    BY <2>1, ClientKept
  <2>4. /\ \A w \in Writer : WriterInv(w)'
        /\ \A x \in Exporter : ExporterInv(x)'
    BY <2>1, CallKept
  <2>5. QED
    BY <2>2, <2>3, <2>4 DEF Inv
<1>2. CASE \E c \in Client : ClientNext(c)
  <2>1. PICK c \in Client : ClientNext(c)
    BY <1>2
  <2>2. CASE TryLocks(c) \/ TryLocksNext(c) \/ TryLocksRefused(c)
    BY <2>2, TryLocksStep
  <2>3. CASE UnlockRange(c) \/ FlushDatabase(c) \/ FlushSHM(c) \/ CloseLog(c)
    BY <2>3, ReleaseStep
  <2>4. CASE ReadHeader(c) \/ CommitJournal(c) \/ AppendFrames(c) \/ Backfill(c) \/ Die(c)
    BY <2>4, WorkStep
  <2>5. QED
    BY <2>1, <2>2, <2>3, <2>4 DEF ClientNext
<1>3. CASE \E w \in Writer : WriterNext(w)
  <2>1. PICK w \in Writer : WriterNext(w)
    BY <1>3
  <2>2. CASE AcquireWriteLock(w)
    BY <2>2, StartStep DEF AcquireWriteLock
  <2>3. CASE WriteMode(w)
    BY <2>3, WriteModeStep
  <2>4. CASE WriteStep(w)
    BY <2>4, SharedStep, UpgradeStep DEF WriteStep
  <2>5. CASE WriteBlocked(w) \/ ReleaseWriteLock(w)
    BY <2>5, FailStep DEF WriteBlocked, ReleaseWriteLock
  <2>6. CASE ApplyLTX(w) \/ CheckpointNoLock(w)
    BY <2>6, HeldStep
  <2>7. QED
    BY <2>1, <2>2, <2>3, <2>4, <2>5, <2>6 DEF WriterNext
<1>4. CASE \E x \in Exporter : ExportNext(x)
  <2>1. PICK x \in Exporter : ExportNext(x)
    BY <1>4
  <2>2. CASE Export(x)
    BY <2>2, StartStep DEF Export
  <2>3. CASE ExportMode(x)
    BY <2>3, ExportModeStep
  <2>4. CASE ExportSnapshot(x)
    BY <2>4, ExportSnapshotStep
  <2>5. CASE ExportStep(x)
    BY <2>5, SharedStep, ExportStepKeeps DEF ExportStep
  <2>6. CASE ExportEnd(x)
    BY <2>6, FailStep DEF ExportEnd
  <2>7. QED
    BY <2>1, <2>2, <2>3, <2>4, <2>5, <2>6 DEF ExportNext
<1>5. QED
  BY <1>1, <1>2, <1>3, <1>4 DEF Next

\* The invariant holds throughout.
LEMMA AlwaysInv == Spec => []Inv
BY InitInv, StepInv, PTL DEF Spec

-----------------------------------------------------------------------------
(* What it implies. *)

\* A process that believes to hold a lock does (TryLocks, TryRLocks, Unlock).
LEMMA Believed ==
  ASSUME Inv, NEW c \in Client, NEW l \in LockType
  PROVE  /\ got[c][l] = Shared => Has(c, l) # Unlocked
         /\ got[c][l] = Exclusive => Has(c, l) = Exclusive
BY DEF Inv, ClientInv, Beliefs

\* Nothing stays locked behind the closed files and the calls that have ended.
LEMMA NothingLeft == Inv => ClosedMeansFree
<1> SUFFICES ASSUME Inv, \A c \in Client : got[c] = NoLocks /\ want[c] = NoWant,
                    \A g \in Writer \cup Exporter : gs[g].pc = "idle",
                    NEW l \in LockType
             PROVE  MutexState(lk[l]) = Unlocked
  BY DEF ClosedMeansFree
<1>1. ASSUME NEW c \in Client PROVE Has(c, l) = Unlocked
  <2>1. got[c] = NoLocks /\ Beliefs(c)
    BY DEF Inv, ClientInv
  <2>2. got[c]["DMS"] = Unlocked /\ got[c][l] = Unlocked
    BY <2>1, LockNames DEF NoLocks
  <2>3. QED
    BY <2>1, <2>2 DEF Beliefs
<1>2. ASSUME NEW g \in Writer \cup Exporter PROVE Has(g, l) = Unlocked
  BY DEF Inv, WriterInv, ExporterInv, Begins
<1>3. \A g \in Guard : lk[l].state[g] = Unlocked
  BY <1>1, <1>2, LocksAssumption DEF Has
<1>4. QED
  BY <1>3, FreeMutex DEF Inv, TypeOK, InOrder

\* An export that copies has SHARED and CKPT.
LEMMA Copying ==
  ASSUME Inv, NEW x \in Exporter, gs[x].pc = "copy"
  PROVE  Has(x, "SHARED") # Unlocked /\ Has(x, "CKPT") # Unlocked
<1>1. ExporterInv(x)
  BY DEF Inv
<1>2. gs[x].todo = <<>> /\ Has(x, "SHARED") # Unlocked
  BY <1>1 DEF ExporterInv, Begins
<1>3. Len(gs[x].todo) = 0
  BY <1>2, EmptySeq
<1>4. ~Owes(x, R("CKPT"))
  BY <1>3 DEF Owes
<1>5. QED
  BY <1>1, <1>2, <1>4 DEF ExporterInv

\* Two callers never have the write lock together, in whatever modes they took it.
LEMMA OneHolder ==
  ASSUME Inv, NEW w \in Writer, NEW v \in Writer \ {w}, gs[w].pc = "held"
  PROVE  gs[v].pc # "held"
<1> SUFFICES ASSUME gs[v].pc = "held" PROVE FALSE
  OBVIOUS
<1>1. w \in Guard /\ v \in Guard
  BY LocksAssumption
<1>2. Has(w, "SHARED") # Unlocked /\ Has(v, "SHARED") # Unlocked
  BY HeldLocks
<1>3. Has(w, "SHARED") # Exclusive /\ Has(v, "SHARED") # Exclusive
  BY <1>1, <1>2, Conflict, LockNames
<1>4. Has(w, "WRITE") = Exclusive /\ Has(v, "WRITE") = Exclusive
  BY <1>3, HeldLocks, LockNames
<1>5. QED
  BY <1>1, <1>4, Conflict, LockNames DEF Unlocked, Exclusive

\* Where no transaction leaves the WAL mode, the write lock excludes everybody.
LEMMA Excludes ==
  ASSUME "leave" \notin Optional
  PROVE  Inv => WriteLockExcludes
<1> SUFFICES ASSUME Inv, NEW w \in Writer, gs[w].pc = "held"
             PROVE  /\ \A c \in Client : ~Reading(c) /\ ~Writing(c) /\ ~Checkpointing(c)
                    /\ \A v \in Writer \ {w} : gs[v].pc # "held"
                    /\ \A x \in Exporter : gs[x].pc \notin {"snapshot", "copy"}
  BY DEF WriteLockExcludes
<1>0. w \in Guard /\ w \notin Client /\ w \notin Exporter /\ mode = file
  BY LocksAssumption DEF Inv
<1>1. \A v \in Writer \ {w} : gs[v].pc # "held"
  BY OneHolder
<1>2. ASSUME NEW c \in Client PROVE ~Reading(c) /\ ~Writing(c) /\ ~Checkpointing(c)
  <2>1. c \in Guard /\ c # w /\ ClientInv(c) /\ got[c] \in [LockType -> GuardState]
    BY <1>0, LocksAssumption DEF Inv, TypeOK
  <2>2. got[c]["SHARED"] # Exclusive
    <3>1. Has(w, "SHARED") # Unlocked
      BY HeldLocks
    <3>2. Has(c, "SHARED") # Exclusive
      BY <1>0, <2>1, <3>1, Conflict, LockNames
    <3>3. QED
      BY <3>2, Believed, LockNames
  <2>3. CASE Has(w, "SHARED") = Exclusive
    <3>1. Has(c, "SHARED") = Unlocked
      BY <1>0, <2>1, <2>3, Conflict, LockNames
    <3>2. got[c]["SHARED"] = Unlocked
      BY <2>1, <2>2, <3>1, Believed, LockNames DEF GuardState
    <3>3. sees[c] \notin DBMode
      BY <2>1, <3>2 DEF ClientInv, Session
    <3>4. ~dying[c] => \A l \in SHMLock : got[c][l] = Unlocked
      BY <2>1, <3>3 DEF ClientInv, Session, DBMode
    <3>5. QED
      BY <3>2, <3>3, <3>4, LockNames
      DEF Reading, Writing, Checkpointing, DBMode, Unlocked, Shared, Exclusive
  <2>4. CASE Has(w, "SHARED") # Exclusive
    <3>1. mode = "wal" /\ \A l \in {"WRITE"} \cup ReadLock : Has(w, l) = Exclusive
      BY <2>4, HeldLocks, LockNames
    <3>2. \A l \in {"WRITE"} \cup ReadLock : Has(c, l) = Unlocked
      BY <1>0, <2>1, <3>1, Conflict, LockNames
    <3>3. ASSUME NEW l \in {"WRITE"} \cup ReadLock PROVE got[c][l] = Unlocked
      <4>1. l \in LockType /\ Has(c, l) = Unlocked
        BY <3>2, LockNames
      <4>2. got[c][l] \in GuardState
        BY <2>1, <4>1
      <4>3. got[c][l] # Shared /\ got[c][l] # Exclusive
        BY <4>1, Believed DEF Unlocked, Exclusive
      <4>4. QED
        BY <4>2, <4>3 DEF GuardState
    <3>4. file = "wal"
      BY <1>0, <3>1
    <3>5. sees[c] # "rollback"
      BY <2>1, <2>2, <3>4 DEF ClientInv, RightHeader
    <3>6. ~Reading(c)
      BY <3>3, <3>5 DEF Reading, Unlocked, Shared
    <3>7. ~Writing(c)
      BY <2>2, <3>3 DEF Writing, Unlocked, Exclusive
    <3>8. ~Checkpointing(c)
      BY <3>3, ReadLockNames DEF Checkpointing, Unlocked, Exclusive
    <3>9. QED
      BY <3>6, <3>7, <3>8
  <2>5. QED
    BY <2>3, <2>4
<1>3. ASSUME NEW x \in Exporter, gs[x].pc \in {"snapshot", "copy"} PROVE FALSE
  <2>1. x \in Guard /\ x # w /\ ExporterInv(x) /\ Has(x, "SHARED") # Unlocked
    BY <1>0, <1>3, LocksAssumption DEF Inv, ExporterInv, Begins
  <2>2. Has(w, "SHARED") # Exclusive
    BY <1>0, <2>1, Conflict, LockNames
  <2>3. mode = "wal" /\ Has(w, "WRITE") = Exclusive /\ Has(w, "CKPT") = Exclusive
    BY <2>2, HeldLocks, LockNames
  <2>4. Has(x, "WRITE") = Unlocked /\ Has(x, "CKPT") = Unlocked
    BY <1>0, <2>1, <2>3, Conflict, LockNames
  <2>5. CASE gs[x].pc = "snapshot"
    BY <2>1, <2>3, <2>4, <2>5 DEF ExporterInv, Unlocked, Exclusive
  <2>6. CASE gs[x].pc = "copy"
    BY <2>1, <2>4, <2>6, Copying
  <2>7. QED
    BY <1>3, <2>5, <2>6
<1>4. QED
  BY <1>1, <1>2, <1>3

\* A step that changes the database file holds a lock that a copy holds too.
LEMMA CopyUndisturbed ==
  ASSUME Inv, [Next]_vars, NEW x \in Exporter, gs[x].pc = "copy"
  PROVE  dbpos' = dbpos
<1>1. /\ x \in Guard /\ x \notin Client /\ x \notin Writer
      /\ Client \subseteq Guard /\ Writer \subseteq Guard
  BY LocksAssumption
<1>2. Has(x, "SHARED") # Unlocked /\ Has(x, "CKPT") # Unlocked
  BY Copying
<1>3. \A g \in Guard \ {x} : Has(g, "SHARED") # Exclusive /\ Has(g, "CKPT") # Exclusive
  BY <1>1, <1>2, Conflict, LockNames
<1>4. ASSUME NEW c \in Client, ClientNext(c) PROVE dbpos' = dbpos
  <2>1. got[c]["SHARED"] # Exclusive /\ got[c]["CKPT"] # Exclusive
    BY <1>1, <1>3, Believed, LockNames
  <2>2. ~CommitJournal(c) /\ ~Backfill(c) /\ ~CloseLog(c)
    BY <2>1 DEF CommitJournal, Backfill, CloseLog
  <2>3. \A a : TakeNext(c, a) => dbpos' = dbpos
    BY DEF TakeNext, dataVars
  <2>4. \A locks : Release(c, locks) => dbpos' = dbpos
    BY DEF Release, EndWrite, CommitWAL, dataVars
  <2>5. QED
    BY <1>4, <2>2, <2>3, <2>4 DEF ClientNext, TryLocks, TryLocksNext, TryLocksRefused,
       UnlockRange, ReadHeader, AppendFrames, Die, FlushDatabase, FlushSHM, dataVars
<1>5. ASSUME NEW w \in Writer, WriterNext(w) PROVE dbpos' = dbpos
  <2>1. gs[w].pc # "held"
    BY <1>1, <1>3, HeldLocks, LockNames
  <2>2. QED
    BY <1>5, <2>1 DEF WriterNext, AcquireWriteLock, WriteMode, WriteStep, Step, WriteBlocked,
       ApplyLTX, CheckpointNoLock, ReleaseWriteLock, dataVars
<1>6. ASSUME NEW y \in Exporter, ExportNext(y) PROVE dbpos' = dbpos
  BY <1>6 DEF ExportNext, Export, ExportMode, ExportSnapshot, ExportStep, Step, ExportEnd, dataVars
<1>7. QED
  BY <1>4, <1>5, <1>6 DEF Next, vars, dataVars

\* The write lock is taken by the last step of an upgrade, and by nothing else.
LEMMA BecomesHeld ==
  ASSUME Inv, [Next]_vars, NEW w \in Writer, gs[w].pc # "held", gs'[w].pc = "held"
  PROVE  gs[w].pc = "upgrade" /\ Step(w, "held")
<1>1. gs \in [Writer \cup Exporter -> Call] /\ w \notin Exporter
  BY LocksAssumption DEF Inv, TypeOK, Call, Request
<1>2. gs'[w] # gs[w]
  OBVIOUS
<1>3. ASSUME NEW c \in Client, ClientNext(c) PROVE FALSE
  BY <1>2, <1>3 DEF ClientNext, TryLocks, TryLocksNext, TakeNext, TryLocksRefused, UnlockRange,
     ReadHeader, CommitJournal, AppendFrames, Backfill, CloseLog, Die, FlushDatabase, FlushSHM
<1>4. ASSUME NEW v \in Writer, v # w, WriterNext(v) PROVE FALSE
  BY <1>1, <1>2, <1>4 DEF WriterNext, AcquireWriteLock, WriteMode, WriteStep, Step, WriteBlocked,
     ApplyLTX, CheckpointNoLock, ReleaseWriteLock, Fail
<1>5. ASSUME NEW x \in Exporter, ExportNext(x) PROVE FALSE
  BY <1>1, <1>2, <1>5 DEF ExportNext, Export, ExportMode, ExportSnapshot, ExportStep, Step,
     ExportEnd, Fail
<1>6. ASSUME WriterNext(w) PROVE gs[w].pc = "upgrade" /\ Step(w, "held")
  <2>1. ~AcquireWriteLock(w) /\ ~WriteMode(w)
    <3>1. ASSUME NEW s, NEW t, gs' = [gs EXCEPT ![w].pc = s, ![w].todo = t]
          PROVE  gs'[w].pc = s
      BY <1>1, <3>1 DEF Call
    <3>2. QED
      BY <3>1 DEF AcquireWriteLock, WriteMode
  <2>2. ~WriteBlocked(w) /\ ~ReleaseWriteLock(w)
    BY <1>1 DEF WriteBlocked, ReleaseWriteLock, Fail, Idle
  <2>3. ~ApplyLTX(w) /\ ~CheckpointNoLock(w)
    BY DEF ApplyLTX, CheckpointNoLock
  <2>4. ~(gs[w].pc = "shared" /\ Step(w, "mode"))
    BY <1>1, <1>2 DEF Step, Call
  <2>5. QED
    BY <1>6, <2>1, <2>2, <2>3, <2>4 DEF WriterNext, WriteStep
<1>7. QED
  BY <1>2, <1>3, <1>4, <1>5, <1>6 DEF Next, vars

\* Where no transaction leaves the WAL mode, the locks are those of the file's mode.
LEMMA RightLocks ==
  ASSUME "leave" \notin Optional, Inv, [Next]_vars, NEW w \in Writer,
         gs[w].pc # "held", gs'[w].pc = "held"
  PROVE  lk'[IF file = "rollback" THEN "SHARED" ELSE "WRITE"].excl = w
<1>1. gs[w].pc = "upgrade" /\ Step(w, "held")
  BY BecomesHeld
<1>2. /\ gs'[w].todo = <<>>
      /\ RollbackLocks(w) => RollbackLocks(w)'
      /\ WALLocks(w) => WALLocks(w)'
  BY <1>1, UpgradeEffect
<1>3. \A a : ~Owes(w, a)'
  BY <1>2, NothingOwed
<1>4. /\ mode = file /\ file \in DBMode /\ w \in Guard
      /\ RollbackLocks(w) \/ WALLocks(w)
  BY <1>1, LocksAssumption DEF Inv, TypeOK, WriterInv
<1>5. ASSUME NEW l \in LockType, Has(w, l)' = Exclusive PROVE lk'[l].excl = w
  <2>1. Inv'
    BY StepInv
  <2>2. Consistent(lk'[l])
    BY <2>1 DEF Inv, InOrder
  <2>3. QED
    BY <1>4, <1>5, <2>2 DEF Consistent, Has
<1>6. CASE file = "rollback"
  <2>1. RollbackLocks(w)'
    BY <1>2, <1>4, <1>6 DEF WALLocks
  <2>2. Has(w, "SHARED")' = Exclusive
    BY <1>3, <2>1, LockNames DEF RollbackLocks
  <2>3. QED
    BY <1>5, <1>6, <2>2, LockNames
<1>7. CASE file # "rollback"
  <2>1. WALLocks(w)'
    BY <1>1, <1>2, <1>4, <1>7 DEF RollbackLocks, DBMode
  <2>2. Has(w, "WRITE")' = Exclusive
    BY <1>3, <2>1 DEF WALLocks
  <2>3. QED
    BY <1>5, <1>7, <2>2, LockNames
<1>8. QED
  BY <1>6, <1>7

-----------------------------------------------------------------------------
(* The theorems. *)

\* The types of the variables: in particular each of the twelve mutexes counts a
\* natural number of readers, and the database file is never ahead of the position.
THEOREM LocksTypeCorrect == Spec => []TypeOK
<1>1. Inv => TypeOK
  BY DEF Inv
<1>2. QED
  BY <1>1, AlwaysInv, PTL

\* What a process has been told it holds, it holds, for any number of processes that
\* lock and unlock ranges, are refused, upgrade and close (TryLocks, TryRLocks, Unlock).
THEOREM LocksBelieved == Spec => []BeliefHolds
<1>1. Inv => BeliefHolds
  BY Believed DEF BeliefHolds, Has
<1>2. QED
  BY <1>1, AlwaysInv, PTL

\* No sequence of refused requests, failed attempts, cancelled exports and exits leaves
\* a lock behind (UnlockDatabase, UnlockSHM, GuardSet.Unlock).
THEOREM LocksNothingLeft == Spec => []ClosedMeansFree
BY NothingLeft, AlwaysInv, PTL

\* AcquireWriteLock excludes every reader, writer, checkpoint and export, in both
\* modes, as long as no replicated transaction leaves the WAL mode.
THEOREM LocksExclude ==
  ASSUME "leave" \notin Optional
  PROVE  Spec => []WriteLockExcludes
<1>1. Inv => WriteLockExcludes
  BY Excludes
<1>2. QED
  BY <1>1, AlwaysInv, PTL

\* Under the same condition it has the locks of the mode that the file is in.
THEOREM LocksAppropriate ==
  ASSUME "leave" \notin Optional
  PROVE  Spec => AppropriateLocks
<1>1. Inv /\ [Next]_vars =>
        [\A w \in Writer : gs[w].pc # "held" /\ gs'[w].pc = "held" =>
           lk'[IF file = "rollback" THEN "SHARED" ELSE "WRITE"].excl = w]_vars
  BY RightLocks
<1>2. QED
  BY <1>1, AlwaysInv, PTL DEF Spec, AppropriateLocks

\* No transaction and no checkpoint changes the database file under an export that
\* copies it, in either mode and even if a transaction has left the WAL mode (Export).
THEOREM LocksExportStable == Spec => ExportStable
<1>1. Inv /\ [Next]_vars =>
        [\A x \in Exporter : gs[x].pc = "copy" /\ gs'[x].pc = "copy" => dbpos' = dbpos]_vars
  BY CopyUndisturbed
<1>2. QED
  BY <1>1, AlwaysInv, PTL DEF Spec, ExportStable
=============================================================================
