--------------------------- MODULE HaltLockProofs ---------------------------
(***************************************************************************)
(* HaltLock for any replicas, handles and bounds, whatever the network and *)
(* the applications do: halt locks have their guards, only expiry and late *)
(* releases take one from its holder, and a replica keeps what it forwards *)
(* once the primary has it.                                                *)
(***************************************************************************)
EXTENDS HaltLock, SequenceTheorems, TLAPS

(* A request of a handle, in whatever state.                               *)
Op(h, s, op)   == req[h][s] # None /\ req[h][s].op = op
Live(h, s, op) == Op(h, s, op) /\ req[h][s].live

HaltedFor(h) == halt # None /\ halt.id = h

-----------------------------------------------------------------------------
(* The inductive invariant: guard sets.                                    *)

(* No handler is about to store a halt lock with the guard set g.          *)
NotGot(g) ==
  \A h \in Handle, s \in Slot : At(h, s, "halt", "got") => req[h][s].g # g

(* The guard set g was read from a halt lock of h.                         *)
ReadFrom(g, h) ==
  /\ g \in 1..guards /\ NotGot(g)
  /\ halt # None /\ halt.g = g => halt.id = h

(* It was read, and that halt lock is no longer there.                     *)
Retired(g, h) == ReadFrom(g, h) /\ (halt # None => halt.g # g)

GuardSets ==
  /\ halt # None => halt.g \in 1..guards
  /\ \A h \in Handle, s \in Slot : At(h, s, "halt", "got") =>
       req[h][s].g = wlock /\ wlock \in 1..guards
  /\ \A h, k \in Handle, s, t \in Slot :
       At(h, s, "halt", "got") /\ At(k, t, "halt", "got") => h = k /\ s = t
  /\ \A h \in Handle, s \in Slot :
       At(h, s, "unhalt", "cas") => ReadFrom(req[h][s].g, h)
  /\ \A h \in Handle, s \in Slot :
       At(h, s, "unhalt", "unlock") => Retired(req[h][s].g, h)
  /\ monitor # None => ReadFrom(monitor.g, monitor.id)
  /\ monitor # None /\ monitor.st = "unlock" => Retired(monitor.g, monitor.id)

Inv == TypeOK /\ HaltHasGuards /\ GuardSets

-----------------------------------------------------------------------------
(* The release that a client waits for: its handle is at that call.        *)
Releases ==
  /\ \A h \in Handle, s \in Slot :
       Live(h, s, "unhalt") => pc[h] \in {"deleting", "abort"}
  /\ \A h \in Handle, s, t \in Slot :
       Live(h, s, "unhalt") /\ Live(h, t, "unhalt") => s = t

(* The primary has had every content that a stream, or the answer to a     *)
(* forwarded transaction, brings to a replica.                             *)
Had ==
  /\ ppos \in had
  /\ \A c \in had, p \in Content : IsPrefix(p, c) => p \in had
  /\ \A r \in Replica : frame[r] \in had
  /\ \A h \in Handle, s \in Slot : At(h, s, "tx", "apply") => PreApply(req[h][s].pos) \in had
  /\ \A h \in Handle, s \in Slot : At(h, s, "tx", "ok") => req[h][s].pos \in had

-----------------------------------------------------------------------------
(* What becomes of the requests. *)

Requests == [Handle -> [Slot -> Request \cup {None}]]

\* Only one slot changes.
Touched(h, s) ==
  /\ req' \in Requests
  /\ \A k \in Handle, t \in Slot : k # h \/ t # s => req'[k][t] = req[k][t]

\* A slot that is set.
LEMMA SetEffect ==
  ASSUME req \in Requests, NEW h \in Handle, NEW s \in Slot,
         NEW v \in Request \cup {None}, req' = [req EXCEPT ![h][s] = v]
  PROVE  Touched(h, s) /\ req'[h][s] = v
BY DEF Touched, Requests

\* A new request.
LEMMA SendEffect ==
  ASSUME req \in Requests, NEW h \in Handle, NEW s \in Slot,
         NEW op \in {"halt", "unhalt", "tx"}, NEW st \in {"try", "load", "check"},
         NEW p \in Content, Send(h, s, op, st, p)
  PROVE  /\ Touched(h, s) /\ req[h][s] = None /\ req'[h][s] # None
         /\ req'[h][s].op = op /\ req'[h][s].st = st /\ req'[h][s].live
         /\ req'[h][s].g = 0 /\ req'[h][s].pos = p
<1> DEFINE v == [op |-> op, st |-> st, live |-> TRUE, g |-> 0, pos |-> p]
<1>1. v \in Request
  BY DEF Request
<1>2. v # None
  BY <1>1, NilAssumption
<1>3. req' = [req EXCEPT ![h][s] = v] /\ req[h][s] = None
  BY DEF Send
<1>4. Touched(h, s) /\ req'[h][s] = v
  BY <1>1, <1>3, SetEffect
<1>5. QED
  BY <1>2, <1>3, <1>4

\* A handler that goes on.
LEMMA MovedEffect ==
  ASSUME req \in Requests, NEW h \in Handle, NEW s \in Slot, req[h][s] # None,
         NEW st \in {"got", "cas", "unlock", "apply"}, NEW g \in Guard \cup {0},
         req' = Moved(h, s, st, g)
  PROVE  /\ Touched(h, s) /\ req'[h][s] # None
         /\ req'[h][s].op = req[h][s].op /\ req'[h][s].live = req[h][s].live
         /\ req'[h][s].pos = req[h][s].pos /\ req'[h][s].st = st /\ req'[h][s].g = g
<1> DEFINE v == [req[h][s] EXCEPT !.st = st, !.g = g]
<1>1. req[h][s] \in Request
  BY DEF Requests
<1>2. /\ v \in Request /\ v.st = st /\ v.g = g /\ v.op = req[h][s].op
      /\ v.live = req[h][s].live /\ v.pos = req[h][s].pos
  BY <1>1 DEF Request
<1>3. req' = [req EXCEPT ![h][s] = v]
  BY DEF Moved, Requests
<1> HIDE DEF v
<1>4. v # None /\ v \in Request \cup {None}
  BY <1>2, NilAssumption
<1>5. Touched(h, s) /\ req'[h][s] = v
  BY <1>3, <1>4, SetEffect
<1>6. QED
  BY <1>2, <1>4, <1>5

\* A handler that ends.
LEMMA AnswerEffect ==
  ASSUME req \in Requests, NEW h \in Handle, NEW s \in Slot, req[h][s] # None,
         NEW st \in {"ok", "fail"}, NEW p \in Content, Answer(h, s, st, p)
  PROVE  /\ Touched(h, s)
         /\ ~req[h][s].live => req'[h][s] = None
         /\ req[h][s].live =>
              /\ req'[h][s] # None /\ req'[h][s].op = req[h][s].op
              /\ req'[h][s].st = st /\ req'[h][s].live /\ req'[h][s].pos = p
<1> DEFINE v == [req[h][s] EXCEPT !.st = st, !.g = 0, !.pos = p]
<1>1. req[h][s] \in Request
  BY DEF Requests
<1>2. /\ v \in Request /\ v.st = st /\ v.op = req[h][s].op
      /\ v.live = req[h][s].live /\ v.pos = p
  BY <1>1 DEF Request
<1>3. req' = [req EXCEPT ![h][s] = IF req[h][s].live THEN v ELSE None]
  BY DEF Answer
<1> HIDE DEF v
<1>4. v # None /\ v \in Request \cup {None}
  BY <1>2, NilAssumption
<1>5. CASE req[h][s].live
  <2>1. Touched(h, s) /\ req'[h][s] = v
    BY <1>3, <1>4, <1>5, SetEffect
  <2>2. QED
    BY <1>2, <1>4, <1>5, <2>1
<1>6. CASE ~req[h][s].live
  BY <1>3, <1>6, SetEffect
<1>7. QED
  BY <1>5, <1>6

\* A client that takes its answer.
LEMMA DropEffect ==
  ASSUME req \in Requests, NEW h \in Handle, NEW s \in Slot,
         req' = [req EXCEPT ![h][s] = None]
  PROVE  Touched(h, s) /\ req'[h][s] = None
BY SetEffect

\* A client that does not wait for it.
LEMMA GiveUpEffect ==
  ASSUME req \in Requests, NEW h \in Handle, NEW s \in Slot, NEW op, GiveUp(h, s, op)
  PROVE  /\ Touched(h, s) /\ Live(h, s, op)
         /\ req[h][s].st \in {"ok", "fail"} => req'[h][s] = None
         /\ req[h][s].st \notin {"ok", "fail"} =>
              /\ req'[h][s] # None /\ ~req'[h][s].live
              /\ req'[h][s].op = op /\ req'[h][s].st = req[h][s].st
              /\ req'[h][s].g = req[h][s].g /\ req'[h][s].pos = req[h][s].pos
<1> DEFINE v == [req[h][s] EXCEPT !.live = FALSE]
<1>0. Live(h, s, op)
  BY DEF GiveUp, Live, Op
<1>1. req[h][s] \in Request /\ req[h][s].op = op
  BY DEF Requests, GiveUp
<1>2. /\ v \in Request /\ v.st = req[h][s].st /\ v.op = op /\ ~v.live
      /\ v.g = req[h][s].g /\ v.pos = req[h][s].pos
  BY <1>1 DEF Request
<1>3. req' = [req EXCEPT ![h][s] = IF req[h][s].st \in {"ok", "fail"} THEN None ELSE v]
  BY DEF GiveUp
<1> HIDE DEF v
<1>4. v # None
  BY <1>2, NilAssumption
<1>5. CASE req[h][s].st \in {"ok", "fail"}
  BY <1>0, <1>3, <1>5, SetEffect
<1>6. CASE req[h][s].st \notin {"ok", "fail"}
  <2>1. Touched(h, s) /\ req'[h][s] = v
    BY <1>2, <1>3, <1>6, SetEffect
  <2>2. QED
    BY <1>0, <1>2, <1>4, <1>6, <2>1
<1>7. QED
  BY <1>5, <1>6

-----------------------------------------------------------------------------
(* Types. *)

USE DEF primary, replica, streams, rest

\* The contents that steps make are contents.
LEMMA ContentFacts ==
  ASSUME NEW c \in Content
  PROVE  /\ <<>> \in Content
         /\ \A e \in Tx : Append(c, e) \in Content
         /\ \A n \in Nat : n < Len(c) => SubSeq(c, 1, n + 1) \in Content
<1>1. <<>> \in Content /\ \A e \in Tx : Append(c, e) \in Content
  BY EmptySeq, AppendProperties DEF Content
<1>2. ASSUME NEW n \in Nat, n < Len(c) PROVE SubSeq(c, 1, n + 1) \in Content
  <2>1. c \in Seq(Tx) /\ Len(c) \in Nat
    BY LenProperties DEF Content
  <2>2. \A i \in 1..(n + 1) : c[i] \in Tx
    BY <1>2, <2>1, ElementOfSeq
  <2>3. SubSeq(c, 1, n + 1) \in Seq(Tx)
    BY <2>1, <2>2, SubSeqProperties
  <2>4. QED
    BY <2>3 DEF Content
<1>3. QED
  BY <1>1, <1>2

\* The handlers of the primary.
LEMMA HandlerType ==
  ASSUME TypeOK, GuardSets, NEW h \in Handle, NEW s \in Slot, HandlerStep(h, s)
  PROVE  TypeOK'
<1>0. req \in Requests /\ ppos \in Content /\ <<>> \in Content
  BY ContentFacts DEF TypeOK, Requests
<1>1. SUFFICES req' \in Requests /\ UNCHANGED rest => TypeOK'
  <2>1. req[h][s] # None => req[h][s] \in Request
    BY <1>0 DEF Requests
  <2>2. req[h][s] # None => req[h][s].pos \in Content /\ req[h][s].g \in Guard \cup {0}
    BY <2>1 DEF Request
  <2>3. halt # None => halt.g \in Guard /\ halt.pos \in Content
    BY DEF TypeOK, HaltRecord
  <2>4. req' \in Requests
    <3>1. CASE HaltAlreadyAcquired(h, s)
      BY <3>1, <1>0, <2>3, AnswerEffect DEF HaltAlreadyAcquired, At, Touched
    <3>2. CASE AcquireHaltWriteLock(h, s)
      <4>1. guards' \in Guard
        BY <3>2, BoundAssumption DEF AcquireHaltWriteLock, TypeOK, Guard
      <4>2. req[h][s] # None /\ req' = Moved(h, s, "got", guards')
        BY <3>2 DEF AcquireHaltWriteLock, At
      <4>3. QED
        BY <1>0, <4>1, <4>2, MovedEffect DEF Touched
    <3>3. CASE AcquireHaltFails(h, s)
      BY <3>3, <1>0, AnswerEffect DEF AcquireHaltFails, At, Touched
    <3>4. CASE StoreHaltLock(h, s)
      BY <3>4, <1>0, AnswerEffect DEF StoreHaltLock, At, Touched
    <3>5. CASE ReleaseHaltLoad(h, s)
      <4>1. CASE halt # None /\ halt.id = h
        <5>1. req[h][s] # None /\ req' = Moved(h, s, "cas", halt.g)
          BY <3>5, <4>1 DEF ReleaseHaltLoad, At
        <5>2. req \in Requests /\ halt.g \in Guard \cup {0}
          BY <1>0, <2>3, <4>1
        <5>3. Touched(h, s)
          BY <5>1, <5>2, MovedEffect
        <5>4. QED
          BY <5>3 DEF Touched
      <4>2. CASE ~(halt # None /\ halt.id = h)
        <5>1. req[h][s] # None /\ Answer(h, s, "ok", <<>>)
          BY <3>5, <4>2 DEF ReleaseHaltLoad, At
        <5>2. QED
          BY <1>0, <5>1, AnswerEffect DEF Touched
      <4>3. QED
        BY <4>1, <4>2
    <3>6. CASE ReleaseHaltSwap(h, s)
      <4>1. req[h][s] # None /\ req' = Moved(h, s, "unlock", req[h][s].g)
        BY <3>6 DEF ReleaseHaltSwap, At
      <4>2. QED
        BY <1>0, <2>2, <4>1, MovedEffect DEF Touched
    <3>7. CASE ReleaseHaltUnlock(h, s)
      BY <3>7, <1>0, AnswerEffect DEF ReleaseHaltUnlock, At, Touched
    <3>8. CASE WriteLTXFileAt(h, s)
      <4>1. CASE PreApply(req[h][s].pos) = ppos
        BY <3>8, <1>0, <4>1, MovedEffect DEF WriteLTXFileAt, At, Touched
      <4>2. CASE PreApply(req[h][s].pos) # ppos
        BY <3>8, <1>0, <4>2, AnswerEffect DEF WriteLTXFileAt, At, Touched
      <4>3. QED
        BY <4>1, <4>2
    <3>9. CASE ApplyForwarded(h, s)
      BY <3>9, <1>0, <2>2, AnswerEffect DEF ApplyForwarded, At, Touched
    <3>10. CASE RecoveryFails(h, s)
      BY <3>10, <1>0, AnswerEffect DEF RecoveryFails, At, Touched
    <3>11. QED
      BY <3>1, <3>2, <3>3, <3>4, <3>5, <3>6, <3>7, <3>8, <3>9, <3>10 DEF HandlerStep
  <2>5. UNCHANGED rest
    BY DEF HandlerStep, HaltAlreadyAcquired, AcquireHaltWriteLock, AcquireHaltFails,
     RecoveryFails, StoreHaltLock, ReleaseHaltLoad, ReleaseHaltSwap, ReleaseHaltUnlock,
       WriteLTXFileAt, ApplyForwarded
  <2>6. QED
    BY <2>4, <2>5
<1>2. SUFFICES ASSUME req' \in Requests, UNCHANGED rest
               PROVE  /\ ppos' \in Content /\ had' \subseteq Content
                      /\ pbase' \in Content \cup {None}
                      /\ wlock' \in Guard \cup {None, App}
                      /\ halt' \in HaltRecord \cup {None} /\ guards' \in 0..MaxGuard
                      /\ monitor' \in Expiry \cup {None}
  BY DEF TypeOK, Requests
<1>3. req[h][s] # None => req[h][s].pos \in Content /\ req[h][s].g \in Guard \cup {0}
  BY <1>0 DEF Requests, Request
<1>4. CASE AcquireHaltWriteLock(h, s)
  BY <1>4, BoundAssumption DEF AcquireHaltWriteLock, TypeOK, Guard
<1>5. CASE StoreHaltLock(h, s)
  <2>1. req[h][s].g \in Guard
    <3>1. At(h, s, "halt", "got") /\ guards \in 0..MaxGuard /\ MaxGuard \in Nat
      BY <1>5, BoundAssumption DEF StoreHaltLock, TypeOK
    <3>2. req[h][s].g \in 1..guards
      BY <3>1 DEF GuardSets
    <3>3. QED
      BY <3>1, <3>2 DEF Guard
  <2>2. QED
    BY <1>5, <2>1 DEF StoreHaltLock, TypeOK, HaltRecord
<1>6. CASE RecoveryFails(h, s) \/ ReleaseHaltSwap(h, s) \/ ReleaseHaltUnlock(h, s)
  BY <1>6 DEF RecoveryFails, ReleaseHaltSwap, ReleaseHaltUnlock, Swapped, Unlocked, TypeOK
<1>7. CASE ApplyForwarded(h, s)
  BY <1>7, <1>3 DEF ApplyForwarded, At, TypeOK
<1>8. CASE UNCHANGED primary
  BY <1>8 DEF TypeOK
<1>9. QED
  BY <1>4, <1>5, <1>6, <1>7, <1>8 DEF HandlerStep, HaltAlreadyAcquired, AcquireHaltFails,
     ReleaseHaltLoad, WriteLTXFileAt

\* The monitor and the applications of the primary.
LEMMA PrimaryType ==
  ASSUME TypeOK, MonitorStep \/ BeginLocal \/ CommitLocal \/ RollbackLocal
  PROVE  TypeOK'
<1>1. ppos \in Content
  BY DEF TypeOK
<1>2. CASE ExpireLoad
  <2>1. monitor' \in Expiry
    BY <1>2 DEF ExpireLoad, TypeOK, HaltRecord, Expiry
  <2>2. QED
    BY <1>2, <2>1 DEF ExpireLoad, TypeOK
<1>3. CASE ExpireSwap
  <2>1. monitor' \in Expiry /\ halt' \in HaltRecord \cup {None}
    BY <1>3 DEF ExpireSwap, TypeOK, Expiry, Swapped
  <2>2. QED
    BY <1>3, <2>1 DEF ExpireSwap, TypeOK
<1>4. CASE ExpireUnlock
  BY <1>4 DEF ExpireUnlock, Unlocked, TypeOK
<1>5. CASE BeginLocal \/ RollbackLocal
  BY <1>5 DEF BeginLocal, RollbackLocal, TypeOK
<1>6. CASE CommitLocal
  <2>1. txs' \in 1..MaxTx
    BY <1>6, BoundAssumption DEF CommitLocal, TypeOK
  <2>2. [n |-> txs', by |-> "primary"] \in Tx
    BY <2>1 DEF Tx
  <2>3. ppos' \in Content /\ had' \subseteq Content
    BY <1>1, <1>6, <2>2, ContentFacts DEF CommitLocal, TypeOK
  <2>4. QED
    BY <1>6, <2>1, <2>3 DEF CommitLocal, TypeOK
<1>7. QED
  BY <1>2, <1>3, <1>4, <1>5, <1>6 DEF MonitorStep

\* The lock file of a replica.
LEMMA LockFileType ==
  ASSUME TypeOK, NEW h \in Handle,
         \/ WaitPosExact(h) \/ UnlockHalt(h) \/ Interrupt(h)
         \/ \E s \in Slot : \/ LockWait(h, s) \/ LockGranted(h, s) \/ LockRefused(h, s)
                            \/ WaitPosFails(h, s) \/ DeleteHalt(h, s) \/ HaltDeleted(h, s)
  PROVE  TypeOK'
<1>0. req \in Requests /\ ppos \in Content /\ <<>> \in Content /\ Home[h] \in Replica
  BY HomeAssumption, ContentFacts DEF TypeOK, Requests
<1>1. ASSUME NEW to \in HandlePC, pc' = [pc EXCEPT ![h] = to]
      PROVE  /\ pc' \in [Handle \cup Replica -> HandlePC \cup StreamPC]
             /\ \A k \in Handle : pc'[k] \in HandlePC
             /\ \A r \in Replica : pc'[r] \in StreamPC
  BY <1>1, NoneAssumption DEF TypeOK
<1>2. /\ pc' \in [Handle \cup Replica -> HandlePC \cup StreamPC]
      /\ \A k \in Handle : pc'[k] \in HandlePC
      /\ \A r \in Replica : pc'[r] \in StreamPC
  <2>1. \E to \in HandlePC : pc' = [pc EXCEPT ![h] = to]
    BY DEF WaitPosExact, UnlockHalt, Interrupt, LockWait, LockGranted, LockRefused, WaitPosFails,
       DeleteHalt, HaltDeleted, Goto, HandlePC
  <2>2. QED
    BY <1>1, <2>1
<1>3. ASSUME NEW s \in Slot, req[h][s] # None PROVE req[h][s].pos \in Content
  BY <1>0, <1>3 DEF Requests, Request
<1>4. req' \in Requests
  <2>1. CASE WaitPosExact(h) \/ UnlockHalt(h)
    BY <1>0, <2>1 DEF WaitPosExact, UnlockHalt
  <2>2. CASE Interrupt(h)
    <3>1. UNCHANGED req \/ \E s \in Slot, op \in {"halt", "unhalt"} : GiveUp(h, s, op)
      BY <2>2 DEF Interrupt
    <3>2. QED
      BY <1>0, <3>1, GiveUpEffect DEF Touched
  <2>3. ASSUME NEW s \in Slot, LockWait(h, s) \/ WaitPosFails(h, s) \/ DeleteHalt(h, s)
        PROVE  req' \in Requests
    <3>1. Send(h, s, "halt", "try", <<>>) \/ Send(h, s, "unhalt", "load", <<>>)
      BY <2>3 DEF LockWait, WaitPosFails, DeleteHalt
    <3>2. QED
      BY <1>0, <3>1, SendEffect DEF Touched
  <2>4. ASSUME NEW s \in Slot, LockGranted(h, s) \/ LockRefused(h, s) \/ HaltDeleted(h, s)
        PROVE  req' \in Requests
    BY <1>0, <2>4, DropEffect DEF LockGranted, LockRefused, HaltDeleted, Touched
  <2>5. QED
    BY <2>1, <2>2, <2>3, <2>4
<1>5. target' \in [Handle -> Content]
  BY <1>0, <1>3 DEF TypeOK, WaitPosExact, UnlockHalt, Interrupt, LockWait, LockGranted, LockRefused,
     WaitPosFails, DeleteHalt, HaltDeleted, Done, At
<1>6. /\ loaded' \in [Handle \cup Replica -> Handle \cup {None}]
      /\ remote' \in [Replica -> Handle \cup {None}]
      /\ breaks' \in 0..MaxBreak
  <2>1. /\ UNCHANGED loaded \/ \E v \in {h, None} : loaded' = [loaded EXCEPT ![h] = v]
        /\ UNCHANGED remote \/ remote' = [remote EXCEPT ![Home[h]] = h]
        /\ UNCHANGED breaks \/ (breaks < MaxBreak /\ breaks' = breaks + 1)
    BY DEF WaitPosExact, UnlockHalt, Interrupt, LockWait, LockGranted, LockRefused, WaitPosFails,
       DeleteHalt, HaltDeleted
  <2>2. breaks' \in 0..MaxBreak
    BY <2>1, BoundAssumption DEF TypeOK
  <2>3. remote' \in [Replica -> Handle \cup {None}]
    BY <1>0, <2>1 DEF TypeOK
  <2>4. loaded' \in [Handle \cup Replica -> Handle \cup {None}]
    <3>1. loaded \in [Handle \cup Replica -> Handle \cup {None}]
      BY DEF TypeOK
    <3>2. ASSUME NEW v \in {h, None}, loaded' = [loaded EXCEPT ![h] = v]
          PROVE  loaded' \in [Handle \cup Replica -> Handle \cup {None}]
      <4>1. v \in Handle \cup {None}
        OBVIOUS
      <4>2. QED
        BY <3>1, <3>2, <4>1
    <3>3. QED
      BY <2>1, <3>1, <3>2
  <2>5. QED
    BY <2>2, <2>3, <2>4
<1>7. UNCHANGED <<primary, rpos, rlock, rtx, built, streams, txs>>
  BY DEF WaitPosExact, UnlockHalt, Interrupt, LockWait, LockGranted, LockRefused,
     WaitPosFails, DeleteHalt, HaltDeleted
<1>8. QED
  BY <1>2, <1>4, <1>5, <1>6, <1>7 DEF TypeOK, Requests

\* Transactions on a replica.
LEMMA ReplicaType ==
  ASSUME TypeOK, NEW h \in Handle,
         \/ BeginTx(h) \/ RollbackTx(h) \/ CommitJournal(h)
         \/ \E s \in Slot : ForwardTx(h, s) \/ TxAccepted(h, s) \/ TxRejected(h, s)
  PROVE  TypeOK'
<1> DEFINE r == Home[h]
<1>0. req \in Requests /\ r \in Replica /\ built[r] \in Content /\ rpos[r] \in Content
      /\ <<>> \in Content
  BY HomeAssumption, ContentFacts DEF TypeOK, Requests
<1>1. ASSUME NEW s \in Slot, req[h][s] # None PROVE req[h][s].pos \in Content
  BY <1>0, <1>1 DEF Requests, Request
<1>2. req' \in Requests
  <2>1. CASE BeginTx(h) \/ RollbackTx(h) \/ CommitJournal(h)
    BY <1>0, <2>1 DEF BeginTx, RollbackTx, CommitJournal
  <2>2. ASSUME NEW s \in Slot, ForwardTx(h, s) PROVE req' \in Requests
    <3>1. UNCHANGED req \/ Send(h, s, "tx", "check", built[r])
      BY <2>2 DEF ForwardTx
    <3>2. QED
      BY <1>0, <3>1, SendEffect DEF Touched
  <2>3. ASSUME NEW s \in Slot, TxAccepted(h, s) \/ TxRejected(h, s) PROVE req' \in Requests
    <3>1. req' = [req EXCEPT ![h][s] = None] \/ GiveUp(h, s, "tx")
      BY <2>3 DEF TxAccepted, TxRejected
    <3>2. QED
      BY <1>0, <3>1, DropEffect, GiveUpEffect DEF Touched
  <2>4. QED
    BY <2>1, <2>2, <2>3
<1>3. /\ rlock' \in [Replica -> Handle \cup {None, "stream"}]
      /\ rtx' \in [Replica -> {"none", "open", "built", "sent"}]
  <2>1. \E l \in {h, None}, x \in {"none", "open", "built", "sent"} : Transaction(r, l, x)
    BY DEF BeginTx, RollbackTx, CommitJournal, ForwardTx, TxAccepted, TxRejected
  <2>2. QED
    BY <1>0, <2>1 DEF TypeOK, Transaction
<1>4. txs' \in 0..MaxTx /\ breaks' \in 0..MaxBreak
  BY BoundAssumption DEF TypeOK, BeginTx, RollbackTx, CommitJournal, ForwardTx, TxAccepted, TxRejected
<1>5. built' \in [Replica -> Content]
  <2>1. CASE CommitJournal(h)
    <3>1. txs' \in 1..MaxTx
      BY <2>1, BoundAssumption DEF TypeOK, CommitJournal
    <3>2. [n |-> txs', by |-> r] \in Tx
      BY <1>0, <3>1 DEF Tx
    <3>3. Append(rpos[r], [n |-> txs', by |-> r]) \in Content
      BY <1>0, <3>2, ContentFacts
    <3>4. QED
      BY <2>1, <3>3 DEF TypeOK, CommitJournal
  <2>2. CASE ~CommitJournal(h)
    <3>1. UNCHANGED built \/ built' = [built EXCEPT ![r] = <<>>]
      BY <2>2 DEF BeginTx, RollbackTx, ForwardTx, TxAccepted, TxRejected
    <3>2. QED
      BY <1>0, <3>1 DEF TypeOK
  <2>3. QED
    BY <2>1, <2>2
<1>6. rpos' \in [Replica -> Content]
  <2>1. \/ UNCHANGED rpos
        \/ rpos' = [rpos EXCEPT ![r] = built[r]]
        \/ \E s \in Slot : req[h][s] # None /\ rpos' = [rpos EXCEPT ![r] = req[h][s].pos]
    BY DEF BeginTx, RollbackTx, CommitJournal, ForwardTx, TxAccepted, TxRejected, Done, At
  <2>2. QED
    BY <1>0, <1>1, <2>1 DEF TypeOK
<1>7. UNCHANGED <<primary, pc, loaded, target, remote, streams>>
  BY DEF BeginTx, RollbackTx, CommitJournal, ForwardTx, TxAccepted, TxRejected
<1>8. QED
  BY <1>2, <1>3, <1>4, <1>5, <1>6, <1>7 DEF TypeOK, Requests

\* The stream of a replica, and UnsetRemoteHaltLock.
LEMMA StreamType ==
  ASSUME TypeOK,
         \/ \E r \in Replica : StreamStep(r)
         \/ \E u \in Handle \cup Replica : UnsetStep(u)
  PROVE  TypeOK'
<1>1. ASSUME NEW r \in Replica, StreamStep(r) PROVE TypeOK'
  <2>0. /\ rpos[r] \in Content /\ frame[r] \in Content /\ ppos \in Content /\ <<>> \in Content
        /\ Len(rpos[r]) \in Nat /\ sent[r] \in Nat /\ "stream" \notin Handle
    BY LenProperties, ContentFacts, NoneAssumption DEF TypeOK, Content
  <2>1. /\ pc' \in [Handle \cup Replica -> HandlePC \cup StreamPC]
        /\ \A k \in Handle : pc'[k] \in HandlePC
        /\ \A q \in Replica : pc'[q] \in StreamPC
    <3>1. \E to \in StreamPC : pc' = [pc EXCEPT ![r] = to]
      BY <1>1 DEF StreamStep, ReceiveFrame, LockFrame, SkipFrame, UnhaltForFrame, ApplyFrame,
         RejectFrame, FrameDone, Goto, StreamPC
    <3>2. QED
      BY <3>1, NoneAssumption DEF TypeOK
  <2>2. /\ rpos' \in [Replica -> Content] /\ sent' \in [Replica -> Nat]
        /\ frame' \in [Replica -> Content]
    <3>1. CASE ReceiveFrame(r)
      <4>1. SubSeq(ppos, 1, sent[r] + 1) \in Content
        BY <2>0, <3>1, ContentFacts DEF ReceiveFrame
      <4>2. QED
        BY <2>0, <3>1, <4>1 DEF ReceiveFrame, TypeOK
    <3>2. CASE ~ReceiveFrame(r)
      <4>1. /\ UNCHANGED rpos \/ rpos' = [rpos EXCEPT ![r] = frame[r]]
            /\ UNCHANGED sent \/ sent' = [sent EXCEPT ![r] = Len(rpos[r])]
            /\ UNCHANGED frame \/ frame' = [frame EXCEPT ![r] = <<>>]
        BY <1>1, <3>2 DEF StreamStep, LockFrame, SkipFrame, UnhaltForFrame, ApplyFrame,
           RejectFrame, FrameDone
      <4>2. QED
        <5>1. rpos' \in [Replica -> Content]
          BY <2>0, <4>1 DEF TypeOK
        <5>2. sent' \in [Replica -> Nat]
          BY <2>0, <4>1 DEF TypeOK
        <5>3. frame' \in [Replica -> Content]
          BY <2>0, <4>1 DEF TypeOK
        <5>4. QED
          BY <5>1, <5>2, <5>3
    <3>3. QED
      BY <3>1, <3>2
  <2>3. /\ rlock' \in [Replica -> Handle \cup {None, "stream"}]
        /\ loaded' \in [Handle \cup Replica -> Handle \cup {None}]
    BY <1>1 DEF StreamStep, ReceiveFrame, LockFrame, SkipFrame, UnhaltForFrame, ApplyFrame,
       RejectFrame, FrameDone, TypeOK
  <2>4. UNCHANGED <<primary, req, target, remote, rtx, built, txs, breaks>>
    BY <1>1 DEF StreamStep, ReceiveFrame, LockFrame, SkipFrame, UnhaltForFrame, ApplyFrame,
       RejectFrame, FrameDone
  <2>5. QED
    BY <2>1, <2>2, <2>3, <2>4 DEF TypeOK
<1>2. ASSUME NEW u \in Handle \cup Replica, UnsetStep(u) PROVE TypeOK'
  <2>0. NodeOf(u) \in Replica
    BY HomeAssumption DEF NodeOf
  <2>1. /\ pc' \in [Handle \cup Replica -> HandlePC \cup StreamPC]
        /\ \A k \in Handle : pc'[k] \in HandlePC
        /\ \A q \in Replica : pc'[q] \in StreamPC
    <3>1. PICK to : /\ pc' = [pc EXCEPT ![u] = to]
                    /\ u \in Handle => to \in HandlePC
                    /\ u \notin Handle => to \in StreamPC
      BY <1>2 DEF UnsetStep, Recover, ClearRemote, Goto, HandlePC, StreamPC
    <3>2. QED
      BY <3>1, NoneAssumption DEF TypeOK
  <2>2. /\ remote' \in [Replica -> Handle \cup {None}]
        /\ loaded' \in [Handle \cup Replica -> Handle \cup {None}]
    <3>1. \/ UNCHANGED <<remote, loaded>>
          \/ /\ loaded' = [loaded EXCEPT ![u] = None]
             /\ \/ UNCHANGED remote
                \/ remote' = [remote EXCEPT ![NodeOf(u)] = None]
      <4>1. CASE Recover(u)
        BY <4>1 DEF Recover, replica
      <4>2. CASE ClearRemote(u)
        BY <2>0, <4>2 DEF ClearRemote, TypeOK
      <4>3. QED
        BY <1>2, <4>1, <4>2 DEF UnsetStep
    <3>2. remote' \in [Replica -> Handle \cup {None}]
      BY <2>0, <3>1 DEF TypeOK
    <3>3. loaded' \in [Handle \cup Replica -> Handle \cup {None}]
      BY <3>1 DEF TypeOK
    <3>4. QED
      BY <3>2, <3>3
  <2>3. UNCHANGED <<primary, req, target, rpos, rlock, rtx, built, streams, txs, breaks>>
    BY <1>2 DEF UnsetStep, Recover, ClearRemote
  <2>4. QED
    BY <2>1, <2>2, <2>3 DEF TypeOK
<1>3. QED
  BY <1>1, <1>2

-----------------------------------------------------------------------------
(* Guard sets. *)

\* The request has a guard set to store or to unlock.
Bears(h, s) ==
  At(h, s, "halt", "got") \/ At(h, s, "unhalt", "cas") \/ At(h, s, "unhalt", "unlock")

\* Who will unlock the database if it is locked by g and there is no halt lock.
Due(g) ==
  \/ monitor # None /\ monitor.st = "unlock" /\ monitor.g = g
  \/ \E h \in Handle, s \in Slot :
       /\ At(h, s, "halt", "got") \/ At(h, s, "unhalt", "unlock")
       /\ req[h][s].g = g

\* HaltHasGuards in these terms.
LEMMA HaltHasGuardsIs ==
  HaltHasGuards <=>
    /\ halt # None => wlock = halt.g
    /\ \A h \in Handle, s \in Slot : At(h, s, "halt", "got") => halt = None
    /\ wlock \in Guard => halt # None \/ Due(wlock)
BY DEF HaltHasGuards, Due

\* A step that changes no guard set and nobody's part in one.
LEMMA GuardsKept ==
  ASSUME HaltHasGuards, GuardSets, UNCHANGED <<halt, wlock, guards, monitor>>,
         \A k \in Handle, t \in Slot :
           \/ req'[k][t] = req[k][t]
           \/ ~Bears(k, t) /\ ~Bears(k, t)'
           \/ /\ req[k][t] # None /\ req'[k][t] # None /\ req'[k][t].op = req[k][t].op
              /\ req'[k][t].st = req[k][t].st /\ req'[k][t].g = req[k][t].g
  PROVE  HaltHasGuards' /\ GuardSets'
<1>1. ASSUME NEW k \in Handle, NEW t \in Slot
      PROVE  /\ At(k, t, "halt", "got")' <=> At(k, t, "halt", "got")
             /\ At(k, t, "unhalt", "cas")' <=> At(k, t, "unhalt", "cas")
             /\ At(k, t, "unhalt", "unlock")' <=> At(k, t, "unhalt", "unlock")
             /\ Bears(k, t) => req'[k][t].g = req[k][t].g
  BY DEF At, Bears
<1>2. \A g : NotGot(g) => NotGot(g)'
  BY <1>1 DEF NotGot, Bears
<1>3. \A g, h : /\ ReadFrom(g, h) => ReadFrom(g, h)'
                /\ Retired(g, h) => Retired(g, h)'
  BY <1>2 DEF ReadFrom, Retired
<1>4. \A g : Due(g) => Due(g)'
  BY <1>1 DEF Due, Bears
<1>5. HaltHasGuards'
  <2>1. /\ halt' # None => wlock' = halt'.g
        /\ wlock' \in Guard => halt' # None \/ Due(wlock)'
    BY <1>4, HaltHasGuardsIs
  <2>2. \A h \in Handle, s \in Slot : At(h, s, "halt", "got")' => halt' = None
    BY <1>1, HaltHasGuardsIs
  <2>3. QED
    BY <2>1, <2>2 DEF HaltHasGuards, Due
<1>6. GuardSets'
  BY <1>1, <1>3 DEF GuardSets, Bears
<1>7. QED
  BY <1>5, <1>6

\* What a step on one slot leaves of the others.
LEMMA OtherSlots ==
  ASSUME NEW h \in Handle, NEW s \in Slot, Touched(h, s)
  PROVE  \A k \in Handle, t \in Slot : k # h \/ t # s =>
           /\ req'[k][t] = req[k][t]
           /\ \A op, st : At(k, t, op, st)' <=> At(k, t, op, st)
           /\ \A op : Op(k, t, op)' <=> Op(k, t, op)
           /\ \A op : Live(k, t, op)' <=> Live(k, t, op)
BY DEF Touched, At, Op, Live

\* AcquireHaltLock has the write lock: a new guard set, and no halt lock.
LEMMA AcquireGuards ==
  ASSUME Inv, NEW h \in Handle, NEW s \in Slot, AcquireHaltWriteLock(h, s)
  PROVE  HaltHasGuards' /\ GuardSets'
<1>1. /\ wlock = None /\ guards' = guards + 1 /\ wlock' = guards' /\ UNCHANGED <<halt, monitor>>
      /\ req[h][s] # None /\ req[h][s].op = "halt" /\ req' = Moved(h, s, "got", guards')
      /\ guards \in 0..MaxGuard /\ guards < MaxGuard /\ MaxGuard \in Nat /\ None \notin Nat
  BY BoundAssumption, NilAssumption DEF AcquireHaltWriteLock, At, Inv, TypeOK
<1>2. guards' \in Guard /\ guards' \in Nat /\ guards' \notin 1..guards
  BY <1>1 DEF Guard
<1>3. /\ Touched(h, s) /\ req'[h][s] # None /\ req'[h][s].op = "halt"
      /\ req'[h][s].st = "got" /\ req'[h][s].g = guards'
  BY <1>1, <1>2, MovedEffect DEF Inv, TypeOK, Requests
<1>4. halt = None
  BY <1>1 DEF Inv, HaltHasGuards, GuardSets
<1>5. \A k \in Handle, t \in Slot : ~At(k, t, "halt", "got")
  BY <1>1 DEF Inv, GuardSets
<1>6. ASSUME NEW k \in Handle, NEW t \in Slot
      PROVE  /\ At(k, t, "halt", "got")' => k = h /\ t = s /\ req'[k][t].g = guards'
             /\ At(k, t, "unhalt", "cas")' =>
                  At(k, t, "unhalt", "cas") /\ req'[k][t].g = req[k][t].g
             /\ At(k, t, "unhalt", "unlock")' =>
                  At(k, t, "unhalt", "unlock") /\ req'[k][t].g = req[k][t].g
  <2>1. CASE k = h /\ t = s
    BY <1>3, <2>1 DEF At
  <2>2. CASE k # h \/ t # s
    BY <1>3, <1>5, <2>2, OtherSlots
  <2>3. QED
    BY <2>1, <2>2
<1>7. \A g \in 1..guards : NotGot(g)'
  BY <1>2, <1>6 DEF NotGot
<1>8. \A g, k : /\ ReadFrom(g, k) => ReadFrom(g, k)'
                /\ Retired(g, k) => Retired(g, k)'
  <2>1. 1..guards \subseteq 1..guards'
    BY <1>1
  <2>2. QED
    BY <1>1, <1>4, <1>7, <2>1 DEF ReadFrom, Retired
<1>9. HaltHasGuards'
  <2>1. Due(wlock)'
    BY <1>1, <1>3 DEF Due, At
  <2>2. QED
    BY <1>1, <1>4, <2>1 DEF HaltHasGuards, Due
<1>10. GuardSets'
  <2>1. guards' \in 1..guards'
    BY <1>1
  <2>2. QED
    BY <1>1, <1>4, <1>6, <1>8, <2>1 DEF Inv, GuardSets
<1>11. QED
  BY <1>9, <1>10

\* Its recovery fails: the guards are unlocked.
LEMMA RecoveryGuards ==
  ASSUME Inv, NEW h \in Handle, NEW s \in Slot, RecoveryFails(h, s)
  PROVE  HaltHasGuards' /\ GuardSets'
<1>1. /\ At(h, s, "halt", "got") /\ req[h][s] # None /\ req[h][s].op = "halt"
      /\ Answer(h, s, "fail", <<>>) /\ UNCHANGED <<halt, guards, monitor>>
      /\ wlock' = Unlocked(req[h][s].g)
  BY DEF RecoveryFails, At
<1>2. halt = None /\ wlock' = None
  BY <1>1 DEF Inv, HaltHasGuards, GuardSets, Unlocked
<1>3. wlock' \notin Guard
  BY <1>2, NilAssumption, BoundAssumption DEF Guard
<1>4. /\ Touched(h, s)
      /\ req'[h][s] = None \/ (req'[h][s].op = "halt" /\ req'[h][s].st = "fail")
  BY <1>1, ContentFacts, AnswerEffect DEF Inv, TypeOK, Requests
<1>5. ASSUME NEW k \in Handle, NEW t \in Slot
      PROVE  /\ ~At(k, t, "halt", "got")'
             /\ At(k, t, "unhalt", "cas")' =>
                  At(k, t, "unhalt", "cas") /\ req'[k][t].g = req[k][t].g
             /\ At(k, t, "unhalt", "unlock")' =>
                  At(k, t, "unhalt", "unlock") /\ req'[k][t].g = req[k][t].g
  <2>1. CASE k = h /\ t = s
    BY <1>4, <2>1 DEF At
  <2>2. CASE k # h \/ t # s
    <3>1. ~At(k, t, "halt", "got")
      BY <1>1, <2>2 DEF Inv, GuardSets
    <3>2. QED
      BY <1>4, <2>2, <3>1, OtherSlots
  <2>3. QED
    BY <2>1, <2>2
<1>6. \A g, k : /\ ReadFrom(g, k) => ReadFrom(g, k)'
                /\ Retired(g, k) => Retired(g, k)'
  BY <1>1, <1>5 DEF ReadFrom, Retired, NotGot
<1>7. HaltHasGuards'
  BY <1>1, <1>2, <1>3, <1>5 DEF HaltHasGuards
<1>8. GuardSets'
  BY <1>1, <1>2, <1>5, <1>6 DEF Inv, GuardSets
<1>9. QED
  BY <1>7, <1>8

\* It stores the halt lock.
LEMMA StoreGuards ==
  ASSUME Inv, NEW h \in Handle, NEW s \in Slot, StoreHaltLock(h, s)
  PROVE  HaltHasGuards' /\ GuardSets' /\ halt = None
<1>1. /\ At(h, s, "halt", "got") /\ req[h][s] # None /\ req[h][s].op = "halt"
      /\ halt' = [id |-> h, g |-> req[h][s].g, pos |-> ppos]
      /\ Answer(h, s, "ok", ppos) /\ UNCHANGED <<guards, monitor>>
  BY DEF StoreHaltLock, At
<1>2. halt = None /\ req[h][s].g = wlock /\ wlock \in 1..guards
  BY <1>1 DEF Inv, HaltHasGuards, GuardSets
<1>3. wlock' = wlock
  BY <1>2 DEF StoreHaltLock
<1>4. wlock \in Guard
  BY <1>2, BoundAssumption DEF Inv, TypeOK, Guard
<1>5. halt' # None /\ halt'.g = wlock /\ halt'.id = h
  <2>1. halt' \in HaltRecord
    BY <1>1, <1>2, <1>4 DEF HaltRecord, Inv, TypeOK
  <2>2. QED
    BY <1>1, <1>2, <2>1, NilAssumption
<1>6. /\ Touched(h, s)
      /\ req'[h][s] = None \/ (req'[h][s].op = "halt" /\ req'[h][s].st = "ok")
  BY <1>1, AnswerEffect DEF Inv, TypeOK, Requests
<1>7. ASSUME NEW k \in Handle, NEW t \in Slot
      PROVE  /\ ~At(k, t, "halt", "got")'
             /\ At(k, t, "unhalt", "cas")' =>
                  At(k, t, "unhalt", "cas") /\ req'[k][t].g = req[k][t].g
             /\ At(k, t, "unhalt", "unlock")' =>
                  At(k, t, "unhalt", "unlock") /\ req'[k][t].g = req[k][t].g
  <2>1. CASE k = h /\ t = s
    BY <1>6, <2>1 DEF At
  <2>2. CASE k # h \/ t # s
    <3>1. ~At(k, t, "halt", "got")
      BY <1>1, <2>2 DEF Inv, GuardSets
    <3>2. QED
      BY <1>6, <2>2, <3>1, OtherSlots
  <2>3. QED
    BY <2>1, <2>2
<1>8. \A g, k : ReadFrom(g, k) => Retired(g, k)'
  <2>1. SUFFICES ASSUME NEW g, NEW k, ReadFrom(g, k) PROVE Retired(g, k)'
    OBVIOUS
  <2>2. g # wlock
    BY <1>1, <1>2, <2>1 DEF ReadFrom, NotGot
  <2>3. NotGot(g)'
    BY <1>7 DEF NotGot
  <2>4. QED
    BY <1>1, <1>5, <2>1, <2>2, <2>3 DEF ReadFrom, Retired
<1>9. HaltHasGuards'
  BY <1>3, <1>5, <1>7 DEF HaltHasGuards
<1>10. GuardSets'
  BY <1>1, <1>2, <1>3, <1>5, <1>7, <1>8 DEF Inv, GuardSets, Retired
<1>11. QED
  BY <1>2, <1>9, <1>10

\* A release has read the halt lock, or found that it is not there.
LEMMA LoadGuards ==
  ASSUME Inv, NEW h \in Handle, NEW s \in Slot, ReleaseHaltLoad(h, s)
  PROVE  HaltHasGuards' /\ GuardSets'
<1>1. /\ At(h, s, "unhalt", "load") /\ req[h][s] # None /\ UNCHANGED <<halt, wlock, guards, monitor>>
      /\ req[h][s].op = "unhalt" /\ ~Bears(h, s) /\ req \in Requests /\ <<>> \in Content
  BY ContentFacts DEF ReleaseHaltLoad, At, Bears, Inv, TypeOK, Requests
<1>2. CASE ~(halt # None /\ halt.id = h)
  <2>1. Answer(h, s, "ok", <<>>)
    BY <1>2 DEF ReleaseHaltLoad
  <2>2. /\ Touched(h, s)
        /\ req'[h][s] = None \/ req'[h][s].st = "ok"
    BY <1>1, <2>1, AnswerEffect
  <2>3. ~Bears(h, s)'
    BY <2>2 DEF Bears, At
  <2>4. \A k \in Handle, t \in Slot : req'[k][t] = req[k][t] \/ (~Bears(k, t) /\ ~Bears(k, t)')
    BY <1>1, <2>2, <2>3 DEF Touched
  <2>5. QED
    BY <1>1, <2>4, GuardsKept DEF Inv
<1>3. CASE halt # None /\ halt.id = h
  <2>1. req' = Moved(h, s, "cas", halt.g) /\ halt.g \in Guard /\ halt.g \in 1..guards
    BY <1>3 DEF ReleaseHaltLoad, Inv, TypeOK, HaltRecord, GuardSets
  <2>2. /\ Touched(h, s) /\ req'[h][s] # None /\ req'[h][s].op = "unhalt"
        /\ req'[h][s].st = "cas" /\ req'[h][s].g = halt.g
    BY <1>1, <2>1, MovedEffect
  <2>3. \A k \in Handle, t \in Slot : ~At(k, t, "halt", "got")
    BY <1>3 DEF Inv, HaltHasGuards
  <2>4. ASSUME NEW k \in Handle, NEW t \in Slot
        PROVE  /\ ~At(k, t, "halt", "got")'
               /\ At(k, t, "unhalt", "cas")' =>
                    \/ k = h /\ req'[k][t].g = halt.g
                    \/ At(k, t, "unhalt", "cas") /\ req'[k][t].g = req[k][t].g
               /\ At(k, t, "unhalt", "unlock")' =>
                    At(k, t, "unhalt", "unlock") /\ req'[k][t].g = req[k][t].g
    <3>1. CASE k = h /\ t = s
      BY <2>2, <3>1 DEF At
    <3>2. CASE k # h \/ t # s
      BY <2>2, <2>3, <3>2, OtherSlots
    <3>3. QED
      BY <3>1, <3>2
  <2>5. \A g : NotGot(g)'
    BY <2>4 DEF NotGot
  <2>6. \A g, k : /\ ReadFrom(g, k) => ReadFrom(g, k)'
                  /\ Retired(g, k) => Retired(g, k)'
    BY <1>1, <2>5 DEF ReadFrom, Retired
  <2>7. ReadFrom(halt.g, h)'
    BY <1>1, <1>3, <2>1, <2>5 DEF ReadFrom
  <2>8. HaltHasGuards'
    BY <1>1, <1>3, <2>4 DEF Inv, HaltHasGuards
  <2>9. \A k \in Handle, t \in Slot : At(k, t, "unhalt", "cas")' => ReadFrom(req[k][t].g, k)'
    <3>1. SUFFICES ASSUME NEW k \in Handle, NEW t \in Slot, At(k, t, "unhalt", "cas")'
                   PROVE  ReadFrom(req[k][t].g, k)'
      OBVIOUS
    <3>2. PICK g : g = req'[k][t].g
      OBVIOUS
    <3>3. CASE k = h /\ g = halt.g
      BY <1>1, <2>7, <3>2, <3>3 DEF ReadFrom
    <3>4. CASE At(k, t, "unhalt", "cas") /\ g = req[k][t].g
      <4>1. ReadFrom(g, k)
        BY <3>4 DEF Inv, GuardSets
      <4>2. QED
        BY <2>6, <3>2, <4>1
    <3>5. QED
      BY <2>4, <3>1, <3>2, <3>3, <3>4
  <2>10. QED
    BY <1>1, <2>4, <2>6, <2>8, <2>9 DEF Inv, GuardSets
<1>4. QED
  BY <1>2, <1>3

\* The halt lock with the guard set g is swapped out, by a release or by the monitor.
LEMMA SwapGuards ==
  ASSUME Inv, NEW g, NEW h \in Handle, ReadFrom(g, h), halt' = Swapped(g), UNCHANGED guards,
         \A k \in Handle, t \in Slot :
           At(k, t, "halt", "got")' <=> At(k, t, "halt", "got") /\ req'[k][t].g = req[k][t].g
  PROVE  /\ \A b, k : /\ ReadFrom(b, k) => ReadFrom(b, k)'
                      /\ Retired(b, k) => Retired(b, k)'
         /\ Retired(g, h)'
         /\ halt' = None \/ halt' = halt
         /\ halt' # halt => halt.g = g /\ halt # None /\ halt.id = h /\ wlock = g
<1>1. \A b : NotGot(b) => NotGot(b)'
  BY DEF NotGot
<1>2. halt' = None \/ halt' = halt
  BY DEF Swapped
<1>3. halt' # None => halt'.g # g
  BY DEF Swapped
<1>4. halt' # halt => halt.g = g /\ halt # None
  BY DEF Swapped
<1>5. halt # None => wlock = halt.g
  BY DEF Inv, HaltHasGuards
<1>6. QED
  BY <1>1, <1>2, <1>3, <1>4, <1>5 DEF ReadFrom, Retired

\* The guards of a halt lock that is gone are unlocked.
LEMMA UnlockGuards ==
  ASSUME Inv, NEW g, NEW h \in Handle, Retired(g, h), wlock' = Unlocked(g)
  PROVE  /\ halt # None => wlock' = wlock
         /\ \A k \in Handle, t \in Slot : At(k, t, "halt", "got") => wlock' = wlock
         /\ wlock' \in Guard => wlock' = wlock /\ wlock # g
<1>1. None \notin Guard
  BY NilAssumption, BoundAssumption DEF Guard
<1>2. QED
  BY <1>1 DEF Inv, HaltHasGuards, GuardSets, Retired, ReadFrom, NotGot, Unlocked

\* ReleaseHaltLock has removed the halt lock, and unlocks its guards next.
LEMMA ReleaseSwapGuards ==
  ASSUME Inv, NEW h \in Handle, NEW s \in Slot, ReleaseHaltSwap(h, s)
  PROVE  HaltHasGuards' /\ GuardSets'
<1>1. PICK g : g = req[h][s].g
  OBVIOUS
<1>2. /\ At(h, s, "unhalt", "cas") /\ req[h][s] # None /\ UNCHANGED <<wlock, guards, monitor>>
      /\ req[h][s].op = "unhalt" /\ req' = Moved(h, s, "unlock", g) /\ halt' = Swapped(g)
      /\ req \in Requests
  BY <1>1 DEF ReleaseHaltSwap, At, Inv, TypeOK, Requests
<1>3. g \in Guard \cup {0}
  BY <1>1, <1>2 DEF Requests, Request
<1>4. /\ Touched(h, s) /\ req'[h][s] # None /\ req'[h][s].op = "unhalt"
      /\ req'[h][s].st = "unlock" /\ req'[h][s].g = g
  BY <1>2, <1>3, MovedEffect
<1>5. ASSUME NEW k \in Handle, NEW t \in Slot
      PROVE  /\ At(k, t, "halt", "got")' <=> At(k, t, "halt", "got")
             /\ At(k, t, "unhalt", "cas")' => At(k, t, "unhalt", "cas")
             /\ At(k, t, "unhalt", "unlock")' => (k = h /\ t = s) \/ At(k, t, "unhalt", "unlock")
             /\ At(k, t, "unhalt", "unlock") => At(k, t, "unhalt", "unlock")'
             /\ req'[k][t].g = req[k][t].g
  <2>1. CASE k = h /\ t = s
    BY <1>1, <1>2, <1>4, <2>1 DEF At
  <2>2. CASE k # h \/ t # s
    BY <1>4, <2>2, OtherSlots
  <2>3. QED
    BY <2>1, <2>2
<1>6. ReadFrom(g, h)
  BY <1>1, <1>2 DEF Inv, GuardSets
<1>7. /\ \A b, k : /\ ReadFrom(b, k) => ReadFrom(b, k)'
                   /\ Retired(b, k) => Retired(b, k)'
      /\ Retired(g, h)'
      /\ halt' = None \/ halt' = halt
      /\ halt' # halt => halt.g = g /\ halt # None /\ halt.id = h /\ wlock = g
  BY <1>2, <1>5, <1>6, SwapGuards
<1>8. HaltHasGuards'
  <2>1. Due(wlock) => Due(wlock)'
    BY <1>2, <1>5 DEF Due
  <2>2. wlock = g => Due(wlock)'
    BY <1>2, <1>4 DEF Due, At
  <2>3. wlock' \in Guard => halt' # None \/ Due(wlock)'
    BY <1>2, <1>7, <2>1, <2>2, HaltHasGuardsIs DEF Inv
  <2>4. halt' # None => wlock' = halt'.g
    BY <1>2, <1>7 DEF Inv, HaltHasGuards
  <2>5. \A k \in Handle, t \in Slot : At(k, t, "halt", "got")' => halt' = None
    BY <1>5, <1>7 DEF Inv, HaltHasGuards
  <2>6. QED
    BY <2>3, <2>4, <2>5 DEF HaltHasGuards, Due
<1>9. GuardSets'
  <2>1. /\ halt' # None => halt'.g \in 1..guards'
        /\ \A k \in Handle, t \in Slot : At(k, t, "halt", "got")' =>
             req'[k][t].g = wlock' /\ wlock' \in 1..guards'
        /\ \A k, l \in Handle, t, u \in Slot :
             At(k, t, "halt", "got")' /\ At(l, u, "halt", "got")' => k = l /\ t = u
    BY <1>2, <1>5, <1>7 DEF Inv, GuardSets
  <2>2. \A k \in Handle, t \in Slot : At(k, t, "unhalt", "cas")' => ReadFrom(req[k][t].g, k)'
    <3>1. \A k \in Handle, t \in Slot : At(k, t, "unhalt", "cas") => ReadFrom(req[k][t].g, k)
      BY DEF Inv, GuardSets
    <3>2. SUFFICES ASSUME NEW k \in Handle, NEW t \in Slot, At(k, t, "unhalt", "cas")'
                   PROVE  ReadFrom(req[k][t].g, k)'
      OBVIOUS
    <3>3. PICK b : b = req[k][t].g
      OBVIOUS
    <3>4. ReadFrom(b, k) /\ req'[k][t].g = b
      BY <1>5, <3>1, <3>2, <3>3
    <3>5. ReadFrom(b, k)'
      BY <1>7, <3>4
    <3>6. QED
      BY <3>4, <3>5 DEF ReadFrom
  <2>3. \A k \in Handle, t \in Slot : At(k, t, "unhalt", "unlock")' => Retired(req[k][t].g, k)'
    <3>1. \A k \in Handle, t \in Slot : At(k, t, "unhalt", "unlock") => Retired(req[k][t].g, k)
      BY DEF Inv, GuardSets
    <3>2. SUFFICES ASSUME NEW k \in Handle, NEW t \in Slot, At(k, t, "unhalt", "unlock")'
                   PROVE  Retired(req[k][t].g, k)'
      OBVIOUS
    <3>3. PICK b : b = req[k][t].g
      OBVIOUS
    <3>4. Retired(b, k)'
      BY <1>1, <1>5, <1>7, <3>1, <3>2, <3>3
    <3>5. QED
      BY <1>5, <3>3, <3>4
  <2>4. /\ monitor' # None => ReadFrom(monitor.g, monitor.id)'
        /\ monitor' # None /\ monitor'.st = "unlock" => Retired(monitor.g, monitor.id)'
    BY <1>2, <1>7 DEF Inv, GuardSets
  <2>5. QED
    BY <2>1, <2>2, <2>3, <2>4 DEF GuardSets
<1>10. QED
  BY <1>8, <1>9

\* A release unlocks the guards and is over.
LEMMA ReleaseUnlockGuards ==
  ASSUME Inv, NEW h \in Handle, NEW s \in Slot, ReleaseHaltUnlock(h, s)
  PROVE  HaltHasGuards' /\ GuardSets'
<1>1. PICK g : g = req[h][s].g
  OBVIOUS
<1>2. /\ At(h, s, "unhalt", "unlock") /\ req[h][s] # None /\ UNCHANGED <<halt, guards, monitor>>
      /\ req[h][s].op = "unhalt" /\ wlock' = Unlocked(g) /\ Answer(h, s, "ok", <<>>)
      /\ req \in Requests /\ <<>> \in Content
  BY <1>1, ContentFacts DEF ReleaseHaltUnlock, At, Inv, TypeOK, Requests
<1>3. /\ Touched(h, s)
      /\ req'[h][s] = None \/ req'[h][s].st = "ok"
  BY <1>2, AnswerEffect
<1>4. ASSUME NEW k \in Handle, NEW t \in Slot
      PROVE  /\ At(k, t, "halt", "got")' <=> At(k, t, "halt", "got")
             /\ At(k, t, "unhalt", "cas")' => At(k, t, "unhalt", "cas")
             /\ At(k, t, "unhalt", "unlock")' => At(k, t, "unhalt", "unlock")
             /\ At(k, t, "unhalt", "unlock") => (k = h /\ t = s) \/ At(k, t, "unhalt", "unlock")'
             /\ (k = h /\ t = s) \/ req'[k][t].g = req[k][t].g
             /\ k = h /\ t = s => ~Bears(k, t)'
  <2>1. CASE k = h /\ t = s
    BY <1>2, <1>3, <2>1 DEF At, Bears
  <2>2. CASE k # h \/ t # s
    BY <1>3, <2>2, OtherSlots
  <2>3. QED
    BY <2>1, <2>2
<1>5. ASSUME NEW k \in Handle, NEW t \in Slot, Bears(k, t)'
      PROVE  req'[k][t].g = req[k][t].g
  BY <1>4, <1>5
<1>6. Retired(g, h)
  BY <1>1, <1>2 DEF Inv, GuardSets
<1>7. /\ halt # None => wlock' = wlock
      /\ \A k \in Handle, t \in Slot : At(k, t, "halt", "got") => wlock' = wlock
      /\ wlock' \in Guard => wlock' = wlock /\ wlock # g
  BY <1>2, <1>6, UnlockGuards
<1>8. \A b : NotGot(b) => NotGot(b)'
  BY <1>4, <1>5 DEF NotGot, Bears
<1>9. \A b, k : /\ ReadFrom(b, k) => ReadFrom(b, k)'
                /\ Retired(b, k) => Retired(b, k)'
  BY <1>2, <1>8 DEF ReadFrom, Retired
<1>10. HaltHasGuards'
  <2>1. wlock # g /\ Due(wlock) /\ wlock' = wlock => Due(wlock)'
    <3>1. SUFFICES ASSUME wlock # g, Due(wlock), wlock' = wlock PROVE Due(wlock)'
      OBVIOUS
    <3>2. CASE monitor # None /\ monitor.st = "unlock" /\ monitor.g = wlock
      BY <1>2, <3>1, <3>2 DEF Due
    <3>3. CASE \E k \in Handle, t \in Slot :
                 /\ At(k, t, "halt", "got") \/ At(k, t, "unhalt", "unlock")
                 /\ req[k][t].g = wlock
      <4>1. PICK k \in Handle, t \in Slot :
              /\ At(k, t, "halt", "got") \/ At(k, t, "unhalt", "unlock")
              /\ req[k][t].g = wlock
        BY <3>3
      <4>2. ~(k = h /\ t = s)
        BY <1>1, <3>1, <4>1
      <4>3. /\ At(k, t, "halt", "got")' \/ At(k, t, "unhalt", "unlock")'
            /\ req'[k][t].g = wlock'
        BY <1>4, <3>1, <4>1, <4>2
      <4>4. QED
        BY <4>3 DEF Due
    <3>4. QED
      BY <3>1, <3>2, <3>3 DEF Due
  <2>2. wlock' \in Guard => halt' # None \/ Due(wlock)'
    BY <1>2, <1>7, <2>1, HaltHasGuardsIs DEF Inv
  <2>3. halt' # None => wlock' = halt'.g
    BY <1>2, <1>7 DEF Inv, HaltHasGuards
  <2>4. \A k \in Handle, t \in Slot : At(k, t, "halt", "got")' => halt' = None
    BY <1>2, <1>4 DEF Inv, HaltHasGuards
  <2>5. QED
    BY <2>2, <2>3, <2>4 DEF HaltHasGuards, Due
<1>11. GuardSets'
  <2>1. /\ halt' # None => halt'.g \in 1..guards'
        /\ \A k \in Handle, t \in Slot : At(k, t, "halt", "got")' =>
             req'[k][t].g = wlock' /\ wlock' \in 1..guards'
        /\ \A k, l \in Handle, t, u \in Slot :
             At(k, t, "halt", "got")' /\ At(l, u, "halt", "got")' => k = l /\ t = u
    BY <1>2, <1>4, <1>5, <1>7 DEF Inv, GuardSets, Bears
  <2>2. \A k \in Handle, t \in Slot : At(k, t, "unhalt", "cas")' => ReadFrom(req[k][t].g, k)'
    <3>1. \A k \in Handle, t \in Slot : At(k, t, "unhalt", "cas") => ReadFrom(req[k][t].g, k)
      BY DEF Inv, GuardSets
    <3>2. SUFFICES ASSUME NEW k \in Handle, NEW t \in Slot, At(k, t, "unhalt", "cas")'
                   PROVE  ReadFrom(req[k][t].g, k)'
      OBVIOUS
    <3>3. PICK b : b = req[k][t].g
      OBVIOUS
    <3>4. ReadFrom(b, k)' /\ req'[k][t].g = b
      BY <1>4, <1>5, <1>9, <3>1, <3>2, <3>3 DEF Bears
    <3>5. QED
      BY <3>4
  <2>3. \A k \in Handle, t \in Slot : At(k, t, "unhalt", "unlock")' => Retired(req[k][t].g, k)'
    <3>1. \A k \in Handle, t \in Slot : At(k, t, "unhalt", "unlock") => Retired(req[k][t].g, k)
      BY DEF Inv, GuardSets
    <3>2. SUFFICES ASSUME NEW k \in Handle, NEW t \in Slot, At(k, t, "unhalt", "unlock")'
                   PROVE  Retired(req[k][t].g, k)'
      OBVIOUS
    <3>3. PICK b : b = req[k][t].g
      OBVIOUS
    <3>4. Retired(b, k)' /\ req'[k][t].g = b
      BY <1>4, <1>5, <1>9, <3>1, <3>2, <3>3 DEF Bears
    <3>5. QED
      BY <3>4
  <2>4. /\ monitor' # None => ReadFrom(monitor.g, monitor.id)'
        /\ monitor' # None /\ monitor'.st = "unlock" => Retired(monitor.g, monitor.id)'
    BY <1>2, <1>9 DEF Inv, GuardSets
  <2>5. QED
    BY <2>1, <2>2, <2>3, <2>4 DEF GuardSets
<1>12. QED
  BY <1>10, <1>11

\* The monitor loads a halt lock, removes it and unlocks its guards.
LEMMA MonitorGuards ==
  ASSUME Inv, MonitorStep
  PROVE  HaltHasGuards' /\ GuardSets'
<1>0. UNCHANGED <<guards, req>>
  BY DEF MonitorStep, ExpireLoad, ExpireSwap, ExpireUnlock
<1>1. /\ \A k \in Handle, t \in Slot : \A op, st : At(k, t, op, st)' <=> At(k, t, op, st)
      /\ \A b : NotGot(b)' <=> NotGot(b)
  BY <1>0 DEF At, NotGot
<1>2. CASE ExpireLoad
  <2>1. /\ UNCHANGED <<halt, wlock>> /\ monitor = None /\ halt # None
        /\ monitor' = [id |-> halt.id, g |-> halt.g, st |-> "cas"]
    BY <1>2 DEF ExpireLoad
  <2>2. \A b, k : /\ ReadFrom(b, k) => ReadFrom(b, k)'
                  /\ Retired(b, k) => Retired(b, k)'
    BY <1>0, <1>1, <2>1 DEF ReadFrom, Retired
  <2>3. NotGot(halt.g) /\ halt.g \in 1..guards
    BY <2>1 DEF Inv, HaltHasGuards, GuardSets, NotGot
  <2>4. ReadFrom(halt.g, halt.id)
    BY <2>3 DEF ReadFrom
  <2>5. HaltHasGuards'
    BY <1>1, <2>1 DEF Inv, HaltHasGuards
  <2>6. ReadFrom(monitor.g, monitor.id)' /\ monitor'.st # "unlock"
    BY <2>1, <2>2, <2>4 DEF ReadFrom
  <2>7. QED
    BY <1>0, <1>1, <2>1, <2>2, <2>5, <2>6 DEF Inv, GuardSets
<1>3. CASE ExpireSwap
  <2>1. PICK g, h : g = monitor.g /\ h = monitor.id
    OBVIOUS
  <2>2. /\ UNCHANGED wlock /\ monitor # None /\ monitor.st = "cas" /\ halt' = Swapped(g)
        /\ monitor' = [monitor EXCEPT !.st = "unlock"] /\ monitor \in Expiry
    BY <1>3, <2>1 DEF ExpireSwap, Inv, TypeOK
  <2>3. /\ monitor' # None /\ monitor'.st = "unlock" /\ monitor'.g = g /\ monitor'.id = h
        /\ h \in Handle
    <3>1. /\ monitor' \in Expiry /\ monitor'.st = "unlock" /\ monitor'.g = g /\ monitor'.id = h
          /\ h \in Handle
      BY <2>1, <2>2 DEF Expiry
    <3>2. QED
      BY <3>1, NilAssumption
  <2>4. ReadFrom(g, h)
    BY <2>1, <2>2 DEF Inv, GuardSets
  <2>5. /\ \A b, k : /\ ReadFrom(b, k) => ReadFrom(b, k)'
                     /\ Retired(b, k) => Retired(b, k)'
        /\ Retired(g, h)'
        /\ halt' = None \/ halt' = halt
        /\ halt' # halt => halt.g = g /\ halt # None /\ halt.id = h /\ wlock = g
    BY <1>0, <1>1, <2>2, <2>3, <2>4, SwapGuards
  <2>6. HaltHasGuards'
    <3>1. Due(wlock) => Due(wlock)'
      BY <1>0, <1>1, <2>2 DEF Due
    <3>2. wlock = g => Due(wlock)'
      BY <2>2, <2>3 DEF Due
    <3>3. wlock' \in Guard => halt' # None \/ Due(wlock)'
      BY <2>2, <2>5, <3>1, <3>2, HaltHasGuardsIs DEF Inv
    <3>4. /\ halt' # None => wlock' = halt'.g
          /\ \A k \in Handle, t \in Slot : At(k, t, "halt", "got")' => halt' = None
      BY <1>1, <2>2, <2>5 DEF Inv, HaltHasGuards
    <3>5. QED
      BY <3>3, <3>4 DEF HaltHasGuards, Due
  <2>7. ReadFrom(monitor.g, monitor.id)' /\ Retired(monitor.g, monitor.id)'
    BY <2>3, <2>5 DEF Retired, ReadFrom
  <2>8. halt' # None => halt'.g \in 1..guards'
    BY <1>0, <2>5 DEF Inv, GuardSets
  <2>9. QED
    BY <1>0, <1>1, <2>2, <2>5, <2>6, <2>7, <2>8 DEF Inv, GuardSets
<1>4. CASE ExpireUnlock
  <2>1. PICK g, h : g = monitor.g /\ h = monitor.id
    OBVIOUS
  <2>2. /\ UNCHANGED halt /\ monitor # None /\ monitor.st = "unlock" /\ wlock' = Unlocked(g)
        /\ monitor' = None /\ h \in Handle
    BY <1>4, <2>1 DEF ExpireUnlock, Inv, TypeOK, Expiry
  <2>3. Retired(g, h)
    BY <2>1, <2>2 DEF Inv, GuardSets
  <2>4. /\ halt # None => wlock' = wlock
        /\ \A k \in Handle, t \in Slot : At(k, t, "halt", "got") => wlock' = wlock
        /\ wlock' \in Guard => wlock' = wlock /\ wlock # g
    BY <2>2, <2>3, UnlockGuards
  <2>5. \A b, k : /\ ReadFrom(b, k) => ReadFrom(b, k)'
                  /\ Retired(b, k) => Retired(b, k)'
    BY <1>0, <1>1, <2>2 DEF ReadFrom, Retired
  <2>6. HaltHasGuards'
    <3>1. wlock # g /\ Due(wlock) /\ wlock' = wlock => Due(wlock)'
      BY <1>0, <1>1, <2>1 DEF Due
    <3>2. wlock' \in Guard => halt' # None \/ Due(wlock)'
      BY <2>2, <2>4, <3>1, HaltHasGuardsIs DEF Inv
    <3>3. /\ halt' # None => wlock' = halt'.g
          /\ \A k \in Handle, t \in Slot : At(k, t, "halt", "got")' => halt' = None
      BY <1>1, <2>2, <2>4 DEF Inv, HaltHasGuards
    <3>4. QED
      BY <3>2, <3>3 DEF HaltHasGuards, Due
  <2>7. QED
    BY <1>0, <1>1, <2>2, <2>4, <2>5, <2>6 DEF Inv, GuardSets
<1>5. QED
  BY <1>2, <1>3, <1>4 DEF MonitorStep

\* The applications of the primary lock the database when nothing else does.
LEMMA LocalGuards ==
  ASSUME Inv, BeginLocal \/ CommitLocal \/ RollbackLocal
  PROVE  HaltHasGuards' /\ GuardSets'
<1>1. /\ wlock \in {None, App} /\ wlock' \in {None, App} /\ UNCHANGED <<halt, guards, monitor, req>>
  BY DEF BeginLocal, CommitLocal, RollbackLocal
<1>2. wlock \notin 1..guards /\ wlock \notin Guard /\ wlock' \notin Guard
  BY <1>1, NilAssumption, BoundAssumption DEF Inv, TypeOK, Guard, App
<1>3. halt = None
  BY <1>2 DEF Inv, HaltHasGuards, GuardSets
<1>4. \A k \in Handle, t \in Slot : ~At(k, t, "halt", "got")
  BY <1>2 DEF Inv, GuardSets
<1>5. /\ \A k \in Handle, t \in Slot : \A op, st : At(k, t, op, st)' <=> At(k, t, op, st)
      /\ \A b : NotGot(b)' <=> NotGot(b)
  BY <1>1 DEF At, NotGot
<1>6. \A b, k : /\ ReadFrom(b, k) => ReadFrom(b, k)'
                /\ Retired(b, k) => Retired(b, k)'
  BY <1>1, <1>5 DEF ReadFrom, Retired
<1>7. HaltHasGuards'
  BY <1>1, <1>2, <1>3, <1>4, <1>5 DEF HaltHasGuards
<1>8. GuardSets'
  BY <1>1, <1>3, <1>4, <1>5, <1>6 DEF Inv, GuardSets
<1>9. QED
  BY <1>7, <1>8

\* What clients do to their requests: send one, take its answer, or give it up.
Sent(h, s, op) ==
  /\ Touched(h, s) /\ req[h][s] = None /\ req'[h][s] # None
  /\ req'[h][s].op = op /\ req'[h][s].live /\ req'[h][s].st \in {"try", "load", "check"}

Taken(h, s, op) ==
  /\ Touched(h, s) /\ Live(h, s, op) /\ req[h][s].st \in {"ok", "fail"} /\ req'[h][s] = None

GaveUp(h, s, op) ==
  /\ Touched(h, s) /\ Live(h, s, op) /\ req[h][s].st \notin {"ok", "fail"}
  /\ req'[h][s] # None /\ ~req'[h][s].live
  /\ req'[h][s].op = op /\ req'[h][s].st = req[h][s].st
  /\ req'[h][s].g = req[h][s].g /\ req'[h][s].pos = req[h][s].pos

\* Which of them the steps of a client do.
LEMMA ClientEffect ==
  ASSUME TypeOK, NEW h \in Handle, NEW s \in Slot
  PROVE  /\ LockWait(h, s) => Sent(h, s, "halt") /\ req'[h][s].st = "try"
         /\ LockGranted(h, s) \/ LockRefused(h, s) => Taken(h, s, "halt")
         /\ WaitPosFails(h, s) \/ DeleteHalt(h, s) => Sent(h, s, "unhalt")
         /\ HaltDeleted(h, s) => Taken(h, s, "unhalt")
         /\ ForwardTx(h, s) => \/ UNCHANGED req /\ remote[Home[h]] = None
                               \/ /\ Sent(h, s, "tx") /\ remote[Home[h]] # None
                                  /\ req'[h][s].pos = built[Home[h]] /\ req'[h][s].st = "check"
         /\ TxAccepted(h, s) => Taken(h, s, "tx")
         /\ TxRejected(h, s) => Taken(h, s, "tx") \/ GaveUp(h, s, "tx")
         /\ \A op : GiveUp(h, s, op) => Taken(h, s, op) \/ GaveUp(h, s, op)
<1>1. req \in Requests /\ <<>> \in Content /\ built[Home[h]] \in Content
  BY HomeAssumption, ContentFacts DEF TypeOK, Requests
<1>2. ASSUME NEW op \in {"halt", "unhalt", "tx"}, NEW st \in {"try", "load", "check"},
             NEW p \in Content, Send(h, s, op, st, p)
      PROVE  Sent(h, s, op) /\ req'[h][s].pos = p /\ req'[h][s].st = st
  BY <1>1, <1>2, SendEffect DEF Sent
<1>3. ASSUME NEW op, NEW st \in {"ok", "fail"}, Done(h, s, op, st), req' = [req EXCEPT ![h][s] = None]
      PROVE  Taken(h, s, op)
  BY <1>1, <1>3, DropEffect DEF Done, At, Taken, Live, Op
<1>4. ASSUME NEW op, GiveUp(h, s, op) PROVE Taken(h, s, op) \/ GaveUp(h, s, op)
  BY <1>1, <1>4, GiveUpEffect DEF Taken, GaveUp
<1>5. LockWait(h, s) => Sent(h, s, "halt") /\ req'[h][s].st = "try"
  BY <1>1, <1>2 DEF LockWait
<1>6. LockGranted(h, s) \/ LockRefused(h, s) => Taken(h, s, "halt")
  BY <1>3 DEF LockGranted, LockRefused
<1>7. WaitPosFails(h, s) \/ DeleteHalt(h, s) => Sent(h, s, "unhalt")
  BY <1>1, <1>2 DEF WaitPosFails, DeleteHalt
<1>8. HaltDeleted(h, s) => Taken(h, s, "unhalt")
  BY <1>3 DEF HaltDeleted
<1>9. ForwardTx(h, s) => \/ UNCHANGED req /\ remote[Home[h]] = None
                         \/ /\ Sent(h, s, "tx") /\ remote[Home[h]] # None
                            /\ req'[h][s].pos = built[Home[h]] /\ req'[h][s].st = "check"
  BY <1>1, <1>2 DEF ForwardTx
<1>10. TxAccepted(h, s) => Taken(h, s, "tx")
  BY <1>3 DEF TxAccepted
<1>11. TxRejected(h, s) => Taken(h, s, "tx") \/ GaveUp(h, s, "tx")
  BY <1>3, <1>4 DEF TxRejected
<1>12. QED
  BY <1>4, <1>5, <1>6, <1>7, <1>8, <1>9, <1>10, <1>11

\* None of them has to do with guard sets.
LEMMA ClientGuards ==
  ASSUME Inv, UNCHANGED primary, NEW h \in Handle, NEW s \in Slot, NEW op,
         Sent(h, s, op) \/ Taken(h, s, op) \/ GaveUp(h, s, op)
  PROVE  HaltHasGuards' /\ GuardSets'
<1>1. Touched(h, s)
  BY DEF Sent, Taken, GaveUp
<1>2. \/ ~Bears(h, s) /\ ~Bears(h, s)'
      \/ /\ req[h][s] # None /\ req'[h][s] # None /\ req'[h][s].op = req[h][s].op
         /\ req'[h][s].st = req[h][s].st /\ req'[h][s].g = req[h][s].g
  BY DEF Sent, Taken, GaveUp, Bears, At, Live, Op
<1>3. \A k \in Handle, t \in Slot :
           \/ req'[k][t] = req[k][t]
           \/ ~Bears(k, t) /\ ~Bears(k, t)'
           \/ /\ req[k][t] # None /\ req'[k][t] # None /\ req'[k][t].op = req[k][t].op
              /\ req'[k][t].st = req[k][t].st /\ req'[k][t].g = req[k][t].g
  BY <1>1, <1>2 DEF Touched
<1>4. QED
  BY <1>3, GuardsKept DEF Inv

\* Nor have the handlers that only answer, or that apply a transaction.
LEMMA InertGuards ==
  ASSUME Inv, NEW h \in Handle, NEW s \in Slot,
         \/ HaltAlreadyAcquired(h, s) \/ AcquireHaltFails(h, s)
         \/ WriteLTXFileAt(h, s) \/ ApplyForwarded(h, s)
  PROVE  HaltHasGuards' /\ GuardSets'
<1>1. req \in Requests /\ <<>> \in Content
  BY ContentFacts DEF Inv, TypeOK, Requests
<1>2. /\ UNCHANGED <<halt, wlock, guards, monitor>> /\ req[h][s] # None
      /\ ~Bears(h, s)
  BY DEF HaltAlreadyAcquired, AcquireHaltFails, WriteLTXFileAt, ApplyForwarded, At, Bears
<1>3. \/ \E p \in Content, st \in {"ok", "fail"} : Answer(h, s, st, p)
      \/ req' = Moved(h, s, "apply", 0)
  <2>1. /\ req[h][s] \in Request /\ req[h][s].pos \in Content
        /\ halt # None => halt.pos \in Content
    BY <1>1, <1>2 DEF Requests, Request, Inv, TypeOK, HaltRecord
  <2>2. QED
    BY <1>1, <2>1 DEF HaltAlreadyAcquired, AcquireHaltFails, WriteLTXFileAt, ApplyForwarded
<1>4. Touched(h, s) /\ (req'[h][s] = None \/ req'[h][s].st \in {"ok", "fail", "apply"})
  <2>1. ASSUME NEW p \in Content, NEW st \in {"ok", "fail"}, Answer(h, s, st, p)
        PROVE  Touched(h, s) /\ (req'[h][s] = None \/ req'[h][s].st \in {"ok", "fail"})
    BY <1>1, <1>2, <2>1, AnswerEffect
  <2>2. ASSUME req' = Moved(h, s, "apply", 0) PROVE Touched(h, s) /\ req'[h][s].st = "apply"
    BY <1>1, <1>2, <2>2, MovedEffect
  <2>3. QED
    BY <1>3, <2>1, <2>2
<1>5. ~Bears(h, s)'
  BY <1>4 DEF Bears, At
<1>6. \A k \in Handle, t \in Slot : req'[k][t] = req[k][t] \/ (~Bears(k, t) /\ ~Bears(k, t)')
  BY <1>2, <1>4, <1>5 DEF Touched
<1>7. QED
  BY <1>2, <1>6, GuardsKept DEF Inv

\* The steps of a handle and of the process behind it.
LockFile(h) ==
  \/ WaitPosExact(h) \/ UnlockHalt(h) \/ Interrupt(h)
  \/ \E s \in Slot : \/ LockWait(h, s) \/ LockGranted(h, s) \/ LockRefused(h, s)
                     \/ WaitPosFails(h, s) \/ DeleteHalt(h, s) \/ HaltDeleted(h, s)

Writer(h) ==
  \/ BeginTx(h) \/ RollbackTx(h) \/ CommitJournal(h)
  \/ \E s \in Slot : ForwardTx(h, s) \/ TxAccepted(h, s) \/ TxRejected(h, s)

Streaming ==
  \/ \E r \in Replica : StreamStep(r)
  \/ \E u \in Handle \cup Replica : UnsetStep(u)

\* Next by who takes the step.
LEMMA NextIs ==
  ASSUME Next
  PROVE  \/ MonitorStep \/ BeginLocal \/ CommitLocal \/ RollbackLocal
         \/ \E h \in Handle, s \in Slot : HandlerStep(h, s)
         \/ \E h \in Handle : LockFile(h)
         \/ \E h \in Handle : Writer(h)
         \/ Streaming
BY Zenon DEF Next, Application, HandleStep, LockFile, Writer, Streaming

\* A handle's steps leave the primary alone, and touch one request at most.
LEMMA LockFileRequests ==
  ASSUME TypeOK, NEW h \in Handle, LockFile(h) \/ Writer(h)
  PROVE  /\ UNCHANGED primary
         /\ \/ UNCHANGED req
            \/ \E s \in Slot, op \in {"halt", "unhalt", "tx"} :
                 Sent(h, s, op) \/ Taken(h, s, op) \/ GaveUp(h, s, op)
<1>1. UNCHANGED primary
  BY DEF LockFile, Writer, WaitPosExact, UnlockHalt, Interrupt, LockWait, LockGranted, LockRefused,
     WaitPosFails, DeleteHalt, HaltDeleted, BeginTx, RollbackTx, CommitJournal, ForwardTx,
     TxAccepted, TxRejected
<1>2. CASE WaitPosExact(h) \/ UnlockHalt(h) \/ BeginTx(h) \/ RollbackTx(h) \/ CommitJournal(h)
  BY <1>1, <1>2 DEF WaitPosExact, UnlockHalt, BeginTx, RollbackTx, CommitJournal
<1>3. CASE Interrupt(h)
  <2>1. UNCHANGED req \/ \E s \in Slot, op \in {"halt", "unhalt"} : GiveUp(h, s, op)
    BY <1>3 DEF Interrupt
  <2>2. QED
    BY <1>1, <2>1, ClientEffect
<1>4. ASSUME NEW s \in Slot,
             \/ LockWait(h, s) \/ LockGranted(h, s) \/ LockRefused(h, s) \/ WaitPosFails(h, s)
             \/ DeleteHalt(h, s) \/ HaltDeleted(h, s)
             \/ ForwardTx(h, s) \/ TxAccepted(h, s) \/ TxRejected(h, s)
      PROVE  \/ UNCHANGED req
             \/ \E op \in {"halt", "unhalt", "tx"} :
                  Sent(h, s, op) \/ Taken(h, s, op) \/ GaveUp(h, s, op)
  BY <1>4, ClientEffect
<1>5. QED
  BY <1>1, <1>2, <1>3, <1>4 DEF LockFile, Writer

\* A stream leaves the primary and the requests alone.
LEMMA StreamingKeeps ==
  ASSUME Streaming
  PROVE  UNCHANGED <<primary, req, txs, breaks>>
BY DEF Streaming, StreamStep, UnsetStep, ReceiveFrame, LockFrame, SkipFrame, UnhaltForFrame,
   ApplyFrame, RejectFrame, FrameDone, Recover, ClearRemote

\* The invariant holds at first.
LEMMA InitInv == Init => Inv
<1> SUFFICES ASSUME Init PROVE Inv
  OBVIOUS
<1>1. <<>> \in Content
  BY EmptySeq DEF Content
<1>2. TypeOK
  <2>1. /\ ppos \in Content /\ had \subseteq Content /\ pbase \in Content \cup {None}
        /\ wlock \in Guard \cup {None, App}
        /\ halt \in HaltRecord \cup {None} /\ guards \in 0..MaxGuard /\ txs \in 0..MaxTx
        /\ breaks \in 0..MaxBreak /\ monitor \in Expiry \cup {None}
    BY <1>1, BoundAssumption DEF Init
  <2>2. req \in [Handle -> [Slot -> Request \cup {None}]]
    BY DEF Init
  <2>3. /\ pc \in [Handle \cup Replica -> HandlePC \cup StreamPC]
        /\ \A h \in Handle : pc[h] \in HandlePC
        /\ \A r \in Replica : pc[r] \in StreamPC
    BY DEF Init, HandlePC, StreamPC
  <2>4. /\ loaded \in [Handle \cup Replica -> Handle \cup {None}] /\ target \in [Handle -> Content]
        /\ rpos \in [Replica -> Content] /\ remote \in [Replica -> Handle \cup {None}]
        /\ rlock \in [Replica -> Handle \cup {None, "stream"}]
        /\ rtx \in [Replica -> {"none", "open", "built", "sent"}]
        /\ built \in [Replica -> Content]
        /\ sent \in [Replica -> Nat] /\ frame \in [Replica -> Content]
    BY <1>1 DEF Init
  <2>5. QED
    BY <2>1, <2>2, <2>3, <2>4 DEF TypeOK
<1>3. \A h \in Handle, s \in Slot : \A op, st : ~At(h, s, op, st)
  BY DEF Init, At
<1>4. wlock \notin Guard
  BY NilAssumption, BoundAssumption DEF Init, Guard
<1>5. HaltHasGuards
  BY <1>3, <1>4 DEF Init, HaltHasGuards
<1>6. GuardSets
  BY <1>3 DEF Init, GuardSets
<1>7. QED
  BY <1>2, <1>5, <1>6 DEF Inv

\* Every step keeps it.
LEMMA StepInv == Inv /\ [Next]_vars => Inv'
<1> SUFFICES ASSUME Inv, [Next]_vars PROVE Inv'
  OBVIOUS
<1>0. TypeOK /\ GuardSets /\ HaltHasGuards
  BY DEF Inv
<1>1. CASE UNCHANGED vars
  <2>1. TypeOK'
    BY <1>0, <1>1 DEF vars, TypeOK
  <2>2. HaltHasGuards' /\ GuardSets'
    BY <1>0, <1>1, GuardsKept DEF vars
  <2>3. QED
    BY <2>1, <2>2 DEF Inv
<1>2. CASE MonitorStep
  BY <1>0, <1>2, MonitorGuards, PrimaryType DEF Inv
<1>3. CASE BeginLocal \/ CommitLocal \/ RollbackLocal
  BY <1>0, <1>3, LocalGuards, PrimaryType DEF Inv
<1>4. ASSUME NEW h \in Handle, NEW s \in Slot, HandlerStep(h, s) PROVE Inv'
  <2>1. TypeOK'
    BY <1>0, <1>4, HandlerType
  <2>2. HaltHasGuards' /\ GuardSets'
    <3>1. CASE AcquireHaltWriteLock(h, s)
      BY <3>1, AcquireGuards
    <3>2. CASE StoreHaltLock(h, s)
      BY <3>2, StoreGuards
    <3>3. CASE ReleaseHaltLoad(h, s)
      BY <3>3, LoadGuards
    <3>4. CASE ReleaseHaltSwap(h, s)
      BY <3>4, ReleaseSwapGuards
    <3>5. CASE ReleaseHaltUnlock(h, s)
      BY <3>5, ReleaseUnlockGuards
    <3>6. CASE \/ HaltAlreadyAcquired(h, s) \/ AcquireHaltFails(h, s)
               \/ WriteLTXFileAt(h, s) \/ ApplyForwarded(h, s)
      BY <3>6, InertGuards
    <3>7. CASE RecoveryFails(h, s)
      BY <3>7, RecoveryGuards
    <3>8. QED
      BY <1>4, <3>1, <3>2, <3>3, <3>4, <3>5, <3>6, <3>7 DEF HandlerStep
  <2>3. QED
    BY <2>1, <2>2 DEF Inv
<1>5. ASSUME NEW h \in Handle, LockFile(h) \/ Writer(h) PROVE Inv'
  <2>1. TypeOK'
    <3>1. LockFile(h) => TypeOK'
      BY <1>0, LockFileType DEF LockFile
    <3>2. Writer(h) => TypeOK'
      BY <1>0, ReplicaType DEF Writer
    <3>3. QED
      BY <1>5, <3>1, <3>2
  <2>2. /\ UNCHANGED primary
        /\ \/ UNCHANGED req
           \/ \E s \in Slot, op \in {"halt", "unhalt", "tx"} :
                Sent(h, s, op) \/ Taken(h, s, op) \/ GaveUp(h, s, op)
    BY <1>0, <1>5, LockFileRequests
  <2>3. HaltHasGuards' /\ GuardSets'
    <3>1. CASE UNCHANGED req
      BY <1>0, <2>2, <3>1, GuardsKept
    <3>2. CASE \E s \in Slot, op \in {"halt", "unhalt", "tx"} :
                 Sent(h, s, op) \/ Taken(h, s, op) \/ GaveUp(h, s, op)
      BY <2>2, <3>2, ClientGuards
    <3>3. QED
      BY <2>2, <3>1, <3>2
  <2>4. QED
    BY <2>1, <2>3 DEF Inv
<1>6. CASE Streaming
  <2>1. TypeOK'
    BY <1>0, <1>6, StreamType DEF Streaming
  <2>2. HaltHasGuards' /\ GuardSets'
    BY <1>0, <1>6, StreamingKeeps, GuardsKept
  <2>3. QED
    BY <2>1, <2>2 DEF Inv
<1>7. QED
  BY <1>1, <1>2, <1>3, <1>4, <1>5, <1>6, NextIs

\* For every set of replicas and handles, the variables have their
\* types.
THEOREM HaltTypeCorrect == Spec => []TypeOK
<1>1. Inv => TypeOK
  BY DEF Inv
<1>2. QED
  BY <1>1, InitInv, StepInv, PTL DEF Spec

\* Whatever is lost, delayed, given up, retried or expired, the halt lock of the primary has
\* its guards, a new one never finds an old one, and the guards of one that is gone are on
\* their way to be unlocked.
THEOREM HaltGuarded == Spec => []HaltHasGuards
<1>1. Inv => HaltHasGuards
  BY DEF Inv
<1>2. QED
  BY <1>1, InitInv, StepInv, PTL DEF Spec

-----------------------------------------------------------------------------
(* Who takes a halt lock. *)

\* A handler keeps the operation of its request, or ends it.
LEMMA HandlerRequests ==
  ASSUME Inv, NEW h \in Handle, NEW s \in Slot, HandlerStep(h, s)
  PROVE  /\ Touched(h, s) /\ req[h][s] # None
         /\ \/ req'[h][s] = None /\ ~req[h][s].live
            \/ /\ req'[h][s] # None /\ req'[h][s].op = req[h][s].op
               /\ req'[h][s].live = req[h][s].live
<1>1. req \in Requests /\ <<>> \in Content /\ ppos \in Content
  BY ContentFacts DEF Inv, TypeOK, Requests
<1>2. /\ req[h][s] # None
      /\ \/ \E p \in Content, st \in {"ok", "fail"} : Answer(h, s, st, p)
         \/ \E g \in Guard \cup {0}, st \in {"got", "cas", "unlock", "apply"} :
              req' = Moved(h, s, st, g)
  <2>1. req[h][s] # None
    BY DEF HandlerStep, HaltAlreadyAcquired, AcquireHaltFails, AcquireHaltWriteLock,
       RecoveryFails, StoreHaltLock, ReleaseHaltLoad, ReleaseHaltSwap, ReleaseHaltUnlock,
       WriteLTXFileAt, ApplyForwarded, At
  <2>2. /\ req[h][s].pos \in Content /\ req[h][s].g \in Guard \cup {0}
        /\ halt # None => halt.pos \in Content /\ halt.g \in Guard \cup {0}
    BY <1>1, <2>1 DEF Requests, Request, Inv, TypeOK, HaltRecord
  <2>3. AcquireHaltWriteLock(h, s) => guards' \in Guard
    BY BoundAssumption DEF AcquireHaltWriteLock, Inv, TypeOK, Guard
  <2>4. \/ \E p \in Content, st \in {"ok", "fail"} : Answer(h, s, st, p)
        \/ \E g \in Guard \cup {0}, st \in {"got", "cas", "unlock", "apply"} :
             req' = Moved(h, s, st, g)
    BY <1>1, <2>2, <2>3
    DEF HandlerStep, HaltAlreadyAcquired, AcquireHaltFails, AcquireHaltWriteLock,
       RecoveryFails, StoreHaltLock, ReleaseHaltLoad, ReleaseHaltSwap, ReleaseHaltUnlock,
       WriteLTXFileAt, ApplyForwarded
  <2>5. QED
    BY <2>1, <2>4
<1>3. req[h][s] \in Request
  BY <1>1, <1>2 DEF Requests
<1>4. ASSUME NEW p \in Content, NEW st \in {"ok", "fail"}, Answer(h, s, st, p)
      PROVE  /\ Touched(h, s)
             /\ \/ req'[h][s] = None /\ ~req[h][s].live
                \/ /\ req'[h][s] # None /\ req'[h][s].op = req[h][s].op
                   /\ req'[h][s].live = req[h][s].live
  <2>1. req[h][s].live => req'[h][s] \in Request /\ req[h][s].live \in BOOLEAN
    BY <1>1, <1>2, <1>3, <1>4, AnswerEffect DEF Touched, Requests, Request
  <2>2. req[h][s].live => req'[h][s].live \in BOOLEAN
    BY <2>1 DEF Request
  <2>3. QED
    BY <1>1, <1>2, <1>4, <2>1, <2>2, AnswerEffect
<1>5. ASSUME NEW g \in Guard \cup {0}, NEW st \in {"got", "cas", "unlock", "apply"},
             req' = Moved(h, s, st, g)
      PROVE  /\ Touched(h, s) /\ req'[h][s] # None
             /\ req'[h][s].op = req[h][s].op /\ req'[h][s].live = req[h][s].live
  BY <1>1, <1>2, <1>5, MovedEffect
<1>6. QED
  BY <1>2, <1>4, <1>5

\* What each kind of step leaves of the requests of all handles.
LEMMA RequestsAfter ==
  ASSUME NEW h \in Handle, NEW s \in Slot, NEW op
  PROVE  /\ Sent(h, s, op) => \A k \in Handle, t \in Slot : \A o :
              /\ Op(k, t, o)' => Op(k, t, o) \/ (k = h /\ t = s /\ o = op)
              /\ Live(k, t, o)' => Live(k, t, o) \/ (k = h /\ t = s /\ o = op)
         /\ Taken(h, s, op) => \A k \in Handle, t \in Slot : \A o :
              /\ Op(k, t, o)' => Op(k, t, o) /\ ~(k = h /\ t = s)
              /\ Live(k, t, o)' => Live(k, t, o) /\ ~(k = h /\ t = s)
         /\ GaveUp(h, s, op) => \A k \in Handle, t \in Slot : \A o :
              /\ Op(k, t, o)' => Op(k, t, o)
              /\ Live(k, t, o)' => Live(k, t, o) /\ ~(k = h /\ t = s)
<1>1. ASSUME Touched(h, s), NEW k \in Handle, NEW t \in Slot, k # h \/ t # s, NEW o
      PROVE  /\ Op(k, t, o)' <=> Op(k, t, o)
             /\ Live(k, t, o)' <=> Live(k, t, o)
  BY <1>1, OtherSlots
<1>2. ASSUME Sent(h, s, op), NEW o
      PROVE  /\ Op(h, s, o)' => o = op
             /\ Live(h, s, o)' => o = op
  BY <1>2 DEF Sent, Op, Live
<1>3. ASSUME Taken(h, s, op), NEW o
      PROVE  ~Op(h, s, o)' /\ ~Live(h, s, o)'
  BY <1>3 DEF Taken, Op, Live
<1>4. ASSUME GaveUp(h, s, op), NEW o
      PROVE  /\ Op(h, s, o)' => Op(h, s, o) /\ o = op
             /\ ~Live(h, s, o)'
  BY <1>4 DEF GaveUp, Op, Live
<1>5. Sent(h, s, op) \/ Taken(h, s, op) \/ GaveUp(h, s, op) => Touched(h, s)
  BY DEF Sent, Taken, GaveUp
<1>6. QED
  BY <1>1, <1>2, <1>3, <1>4, <1>5

\* The same for a handler.
LEMMA RequestsHandled ==
  ASSUME Inv, NEW h \in Handle, NEW s \in Slot, HandlerStep(h, s)
  PROVE  \A k \in Handle, t \in Slot : \A o :
              /\ Op(k, t, o)' => Op(k, t, o)
              /\ Live(k, t, o)' => Live(k, t, o)
<1>1. /\ Touched(h, s) /\ req[h][s] # None
      /\ \/ req'[h][s] = None
         \/ /\ req'[h][s] # None /\ req'[h][s].op = req[h][s].op
            /\ req'[h][s].live = req[h][s].live
  BY HandlerRequests
<1>2. \A o : /\ Op(h, s, o)' => Op(h, s, o)
             /\ Live(h, s, o)' => Live(h, s, o)
  BY <1>1 DEF Op, Live
<1>3. QED
  BY <1>1, <1>2, OtherSlots

\* Only the step's own handle or stream moves.
LEMMA OthersStay ==
  ASSUME TypeOK
  PROVE  /\ \A h \in Handle : LockFile(h) =>
              \A u \in Handle \cup Replica : u # h => pc'[u] = pc[u]
         /\ \A h \in Handle : Writer(h) => UNCHANGED pc
         /\ \A r \in Replica : StreamStep(r) =>
              \A u \in Handle \cup Replica : u # r => pc'[u] = pc[u]
         /\ \A v \in Handle \cup Replica : UnsetStep(v) =>
              \A u \in Handle \cup Replica : u # v => pc'[u] = pc[u]
         /\ \A h \in Handle, s \in Slot : HandlerStep(h, s) => UNCHANGED rest
<1>1. \A h \in Handle : LockFile(h) =>
        \A u \in Handle \cup Replica : u # h => pc'[u] = pc[u]
  BY DEF TypeOK, LockFile, WaitPosExact, UnlockHalt, Interrupt, LockWait, LockGranted,
     LockRefused, WaitPosFails, DeleteHalt, HaltDeleted, Goto
<1>2. \A h \in Handle : Writer(h) => UNCHANGED pc
  BY DEF Writer, BeginTx, RollbackTx, CommitJournal, ForwardTx, TxAccepted, TxRejected
<1>3. \A r \in Replica : StreamStep(r) =>
        \A u \in Handle \cup Replica : u # r => pc'[u] = pc[u]
  BY DEF TypeOK, StreamStep, ReceiveFrame, LockFrame, SkipFrame, UnhaltForFrame, ApplyFrame,
     RejectFrame, FrameDone, Goto
<1>4. \A v \in Handle \cup Replica : UnsetStep(v) =>
        \A u \in Handle \cup Replica : u # v => pc'[u] = pc[u]
  BY DEF TypeOK, UnsetStep, Recover, ClearRemote, Goto
<1>5. \A h \in Handle, s \in Slot : HandlerStep(h, s) => UNCHANGED rest
  BY DEF HandlerStep, HaltAlreadyAcquired, AcquireHaltWriteLock, AcquireHaltFails,
     RecoveryFails, StoreHaltLock, ReleaseHaltLoad, ReleaseHaltSwap, ReleaseHaltUnlock,
     WriteLTXFileAt, ApplyForwarded
<1>6. QED
  BY <1>1, <1>2, <1>3, <1>4, <1>5

\* A step that sends no release and moves no handle that waits for one.
LEMMA ReleasesKept ==
  ASSUME Releases,
         \A k \in Handle, t \in Slot : Live(k, t, "unhalt")' => Live(k, t, "unhalt"),
         \A k \in Handle : pc'[k] = pc[k] \/ \A t \in Slot : ~Live(k, t, "unhalt")'
  PROVE  Releases'
BY DEF Releases

\* The steps of a handle.
LEMMA LockFileReleases ==
  ASSUME Inv, Releases, NEW h \in Handle, LockFile(h)
  PROVE  Releases'
<1>0. TypeOK /\ h \in Handle \cup Replica /\ pc \in [Handle \cup Replica -> HandlePC \cup StreamPC]
  BY DEF Inv, TypeOK
<1>1. \A k \in Handle : k # h => pc'[k] = pc[k]
  BY <1>0, OthersStay
<1>2. /\ pc[h] \notin {"deleting", "abort"} => \A t \in Slot : ~Live(h, t, "unhalt")
      /\ \A t, u \in Slot : Live(h, t, "unhalt") /\ Live(h, u, "unhalt") => t = u
  BY DEF Releases
<1>3. ASSUME NEW s \in Slot, NEW op \in {"halt", "unhalt"}, pc[h] \notin {"deleting", "abort"},
             \/ Sent(h, s, "halt") \/ Taken(h, s, op) \/ GaveUp(h, s, op)
      PROVE  Releases'
  <2>1. \A k \in Handle, t \in Slot : Live(k, t, "unhalt")' => Live(k, t, "unhalt")
    BY <1>3, RequestsAfter
  <2>2. QED
    BY <1>1, <1>2, <1>3, <2>1, ReleasesKept
<1>4. ASSUME UNCHANGED req, pc[h] \notin {"deleting", "abort"} PROVE Releases'
  <2>1. \A k \in Handle, t \in Slot : Live(k, t, "unhalt")' => Live(k, t, "unhalt")
    BY <1>4 DEF Op, Live
  <2>2. QED
    BY <1>1, <1>2, <1>4, <2>1, ReleasesKept
<1>5. ASSUME NEW s \in Slot, LockWait(h, s) \/ LockGranted(h, s) \/ LockRefused(h, s)
      PROVE  Releases'
  <2>1. /\ Sent(h, s, "halt") \/ Taken(h, s, "halt")
        /\ pc[h] \notin {"deleting", "abort"}
    BY <1>0, <1>5, ClientEffect DEF LockWait, LockGranted, LockRefused
  <2>2. QED
    BY <1>3, <2>1
<1>6. CASE WaitPosExact(h) \/ UnlockHalt(h)
  BY <1>4, <1>6 DEF WaitPosExact, UnlockHalt
<1>7. ASSUME NEW s \in Slot, WaitPosFails(h, s) \/ DeleteHalt(h, s) PROVE Releases'
  <2>1. /\ Sent(h, s, "unhalt") /\ pc[h] \in {"waitpos", "delete"}
        /\ pc'[h] \in {"abort", "deleting"}
    BY <1>0, <1>7, ClientEffect DEF WaitPosFails, DeleteHalt, Goto
  <2>2. \A k \in Handle, t \in Slot :
           Live(k, t, "unhalt")' => Live(k, t, "unhalt") \/ (k = h /\ t = s)
    BY <2>1, RequestsAfter
  <2>3. QED
    BY <1>1, <1>2, <2>1, <2>2 DEF Releases
<1>8. ASSUME NEW s \in Slot, Taken(h, s, "unhalt") \/ GaveUp(h, s, "unhalt") PROVE Releases'
  <2>1. \A k \in Handle, t \in Slot :
           Live(k, t, "unhalt")' => Live(k, t, "unhalt") /\ ~(k = h /\ t = s)
    BY <1>8, RequestsAfter
  <2>2. Live(h, s, "unhalt")
    BY <1>8 DEF Taken, GaveUp
  <2>3. \A t \in Slot : ~Live(h, t, "unhalt")'
    BY <1>2, <2>1, <2>2
  <2>4. QED
    BY <1>1, <2>1, <2>3, ReleasesKept
<1>9. ASSUME NEW s \in Slot, HaltDeleted(h, s) PROVE Releases'
  BY <1>0, <1>8, <1>9, ClientEffect
<1>10. CASE Interrupt(h)
  <2>1. \/ UNCHANGED req /\ pc[h] \notin {"deleting", "abort"}
        \/ \E s \in Slot : GiveUp(h, s, "halt") /\ pc[h] \notin {"deleting", "abort"}
        \/ \E s \in Slot : GiveUp(h, s, "unhalt")
    BY <1>10 DEF Interrupt
  <2>2. QED
    BY <1>0, <1>3, <1>4, <1>8, <2>1, ClientEffect
<1>11. QED
  BY <1>5, <1>6, <1>7, <1>9, <1>10 DEF LockFile

\* Every step keeps Releases.
LEMMA StepReleases ==
  ASSUME Inv, Releases, [Next]_vars
  PROVE  Releases'
<1>0. TypeOK
  BY DEF Inv
<1>1. ASSUME UNCHANGED <<req, pc>> PROVE Releases'
  <2>1. \A k \in Handle, t \in Slot : Live(k, t, "unhalt")' => Live(k, t, "unhalt")
    BY <1>1 DEF Op, Live
  <2>2. QED
    BY <1>1, <2>1, ReleasesKept
<1>2. CASE UNCHANGED vars \/ MonitorStep \/ BeginLocal \/ CommitLocal \/ RollbackLocal
  BY <1>1, <1>2 DEF vars, MonitorStep, ExpireLoad, ExpireSwap, ExpireUnlock, BeginLocal,
     CommitLocal, RollbackLocal
<1>3. ASSUME NEW h \in Handle, NEW s \in Slot, HandlerStep(h, s) PROVE Releases'
  <2>1. UNCHANGED pc
    BY <1>0, <1>3, OthersStay
  <2>2. QED
    BY <1>3, <2>1, RequestsHandled, ReleasesKept
<1>4. ASSUME NEW h \in Handle, LockFile(h) PROVE Releases'
  BY <1>4, LockFileReleases
<1>5. ASSUME NEW h \in Handle, Writer(h) PROVE Releases'
  <2>1. UNCHANGED pc
    BY <1>0, <1>5, OthersStay
  <2>2. CASE UNCHANGED req
    BY <1>1, <2>1, <2>2
  <2>3. ASSUME NEW s \in Slot, Sent(h, s, "tx") \/ Taken(h, s, "tx") \/ GaveUp(h, s, "tx")
        PROVE  Releases'
    BY <2>1, <2>3, RequestsAfter, ReleasesKept
  <2>4. CASE BeginTx(h) \/ RollbackTx(h) \/ CommitJournal(h)
    BY <2>2, <2>4 DEF BeginTx, RollbackTx, CommitJournal
  <2>5. ASSUME NEW s \in Slot, ForwardTx(h, s) \/ TxAccepted(h, s) \/ TxRejected(h, s)
        PROVE  Releases'
    BY <1>0, <2>2, <2>3, <2>5, ClientEffect
  <2>6. QED
    BY <1>5, <2>4, <2>5 DEF Writer
<1>6. CASE Streaming
  <2>1. UNCHANGED req
    BY <1>6, StreamingKeeps
  <2>2. \A k \in Handle, t \in Slot : Live(k, t, "unhalt")' => Live(k, t, "unhalt")
    BY <2>1 DEF Op, Live
  <2>3. \A k \in Handle : pc'[k] = pc[k] \/ pc[k] \in {"recover", "clear"}
    <3>1. ASSUME NEW r \in Replica, StreamStep(r), NEW k \in Handle PROVE pc'[k] = pc[k]
      BY <1>0, <3>1, OthersStay, NoneAssumption
    <3>2. ASSUME NEW u \in Handle \cup Replica, UnsetStep(u), NEW k \in Handle
          PROVE  pc'[k] = pc[k] \/ pc[k] \in {"recover", "clear"}
      <4>1. u # k => pc'[k] = pc[k]
        BY <1>0, <3>2, OthersStay
      <4>2. u = k => pc[k] \in {"recover", "clear"}
        BY <3>2 DEF UnsetStep, Recover, ClearRemote
      <4>3. QED
        BY <4>1, <4>2
    <3>3. QED
      BY <1>6, <3>1, <3>2 DEF Streaming
  <2>4. \A k \in Handle : pc[k] \in {"recover", "clear"} => \A t \in Slot : ~Live(k, t, "unhalt")
    BY DEF Releases
  <2>5. QED
    BY <2>2, <2>3, <2>4, ReleasesKept
<1>7. QED
  BY <1>2, <1>3, <1>4, <1>5, <1>6, NextIs

\* How the halt lock of the primary changes: it is stored where there is none, released by
\* a request of its own handle, or removed by the monitor that loaded it.
LEMMA HaltMoves ==
  ASSUME Inv, [Next]_vars
  PROVE  \/ UNCHANGED halt
         \/ halt = None
         \/ \E h \in Handle, s \in Slot :
              At(h, s, "unhalt", "cas") /\ HaltedFor(h) /\ req[h][s].g = halt.g
         \/ monitor # None /\ monitor.st = "cas" /\ monitor.g = halt.g
<1>1. ASSUME NEW h \in Handle, NEW s \in Slot, ReleaseHaltSwap(h, s)
      PROVE  \/ UNCHANGED halt
             \/ At(h, s, "unhalt", "cas") /\ HaltedFor(h) /\ req[h][s].g = halt.g
  <2>1. At(h, s, "unhalt", "cas") /\ halt' = Swapped(req[h][s].g) /\ ReadFrom(req[h][s].g, h)
    BY <1>1 DEF ReleaseHaltSwap, Inv, GuardSets
  <2>2. QED
    BY <2>1 DEF Swapped, ReadFrom, HaltedFor
<1>2. CASE ExpireSwap
  BY <1>2 DEF ExpireSwap, Swapped
<1>3. ASSUME NEW h \in Handle, NEW s \in Slot, StoreHaltLock(h, s) PROVE halt = None
  BY <1>3, StoreGuards
<1>4. ASSUME NEW h \in Handle, NEW s \in Slot, HandlerStep(h, s),
             ~ReleaseHaltSwap(h, s), ~StoreHaltLock(h, s)
      PROVE  UNCHANGED halt
  BY <1>4 DEF HandlerStep, HaltAlreadyAcquired, AcquireHaltWriteLock, AcquireHaltFails,
     RecoveryFails, ReleaseHaltLoad, ReleaseHaltUnlock, WriteLTXFileAt, ApplyForwarded
<1>5. ASSUME NEW h \in Handle, LockFile(h) \/ Writer(h) PROVE UNCHANGED halt
  BY <1>5, LockFileRequests DEF Inv
<1>6. Streaming => UNCHANGED halt
  BY StreamingKeeps
<1>7. CASE UNCHANGED vars \/ ExpireLoad \/ ExpireUnlock \/ BeginLocal \/ CommitLocal
           \/ RollbackLocal
  BY <1>7 DEF vars, ExpireLoad, ExpireUnlock, BeginLocal, CommitLocal, RollbackLocal
<1>8. QED
  BY <1>1, <1>2, <1>3, <1>4, <1>5, <1>6, <1>7, NextIs DEF MonitorStep

\* What a step may not do to the halt lock of a handle that works.
LEMMA StepTaken ==
  ASSUME Inv, Releases, [Next]_vars
  PROVE  OnlyExpiredOrGivenUp
<1>1. SUFFICES ASSUME NEW h \in Handle, pc[h] = "held", HaltedFor(h), halt' # halt,
                      ~(monitor # None /\ monitor.st = "cas" /\ monitor.g = halt.g)
               PROVE  \E s \in Slot : /\ At(h, s, "unhalt", "cas") /\ ~req[h][s].live
                                      /\ req[h][s].g = halt.g
  BY DEF OnlyExpiredOrGivenUp, HaltedFor
<1>2. PICK k \in Handle, s \in Slot :
        At(k, s, "unhalt", "cas") /\ HaltedFor(k) /\ req[k][s].g = halt.g
  BY <1>1, HaltMoves DEF HaltedFor
<1>3. k = h
  BY <1>1, <1>2 DEF HaltedFor
<1>4. ~req[h][s].live
  BY <1>1, <1>2, <1>3 DEF Releases, Live, Op, At
<1>5. QED
  BY <1>2, <1>3, <1>4

\* For every set of replicas and handles, with no condition on the network or the
\* applications: the halt lock under which a handle works is taken away only by the monitor
\* that loaded it, or by a release that the same handle gave up.
THEOREM HaltLockTaken == Spec => HaltTaken
<1> DEFINE I == Inv /\ Releases
<1>1. Init => I
  <2>1. Init => Releases
    BY DEF Init, Releases, Op, Live
  <2>2. QED
    BY <2>1, InitInv
<1>2. I /\ [Next]_vars => I'
  BY StepInv, StepReleases
<1>3. I /\ [Next]_vars => [OnlyExpiredOrGivenUp]_vars
  BY StepTaken
<1>4. QED
  BY <1>1, <1>2, <1>3, PTL DEF Spec, HaltTaken

-----------------------------------------------------------------------------
(* What the primary has had. *)

\* The process behind a handle changes the content of its own node, and no frame.
LEMMA WriterKeeps ==
  ASSUME TypeOK, NEW h \in Handle, Writer(h)
  PROVE  /\ \A r \in Replica : r # Home[h] => rpos'[r] = rpos[r]
         /\ UNCHANGED streams
<1>1. Home[h] \in Replica
  BY HomeAssumption
<1>2. \A r \in Replica : r # Home[h] => rpos'[r] = rpos[r]
  BY <1>1 DEF TypeOK, Writer, BeginTx, RollbackTx, CommitJournal, ForwardTx, TxAccepted, TxRejected
<1>3. UNCHANGED streams
  BY DEF Writer, BeginTx, RollbackTx, CommitJournal, ForwardTx, TxAccepted, TxRejected
<1>4. QED
  BY <1>2, <1>3

\* A lock file leaves the content of its node alone.
LEMMA LockFileKeeps ==
  ASSUME NEW h \in Handle, LockFile(h)
  PROVE  UNCHANGED <<primary, rpos, streams>>
BY DEF LockFile, WaitPosExact, UnlockHalt, Interrupt, LockWait, LockGranted, LockRefused,
   WaitPosFails, DeleteHalt, HaltDeleted

\* The primary's monitor and applications leave the replicas alone.
LEMMA PrimaryKeeps ==
  ASSUME MonitorStep \/ BeginLocal \/ CommitLocal \/ RollbackLocal
  PROVE  UNCHANGED <<req, pc, loaded, target, replica, streams, breaks>>
BY DEF MonitorStep, ExpireLoad, ExpireSwap, ExpireUnlock, BeginLocal, CommitLocal, RollbackLocal

\* How the position of the primary changes.
LEMMA PrimaryPosMoves ==
  ASSUME Inv, [Next]_vars
  PROVE  \/ UNCHANGED <<ppos, had>>
         \/ CommitLocal
         \/ \E h \in Handle, s \in Slot : ApplyForwarded(h, s)
<1>1. ASSUME NEW h \in Handle, NEW s \in Slot, HandlerStep(h, s), ~ApplyForwarded(h, s)
      PROVE  UNCHANGED <<ppos, had>>
  BY <1>1 DEF HandlerStep, HaltAlreadyAcquired, AcquireHaltWriteLock, AcquireHaltFails,
     RecoveryFails, StoreHaltLock, ReleaseHaltLoad, ReleaseHaltSwap, ReleaseHaltUnlock,
     WriteLTXFileAt
<1>2. ASSUME NEW h \in Handle, LockFile(h) \/ Writer(h) PROVE UNCHANGED <<ppos, had>>
  BY <1>2, LockFileRequests DEF Inv
<1>3. Streaming => UNCHANGED <<ppos, had>>
  BY StreamingKeeps
<1>4. CASE UNCHANGED vars \/ MonitorStep \/ BeginLocal \/ RollbackLocal
  BY <1>4 DEF vars, MonitorStep, ExpireLoad, ExpireSwap, ExpireUnlock, BeginLocal, RollbackLocal
<1>5. QED
  BY <1>1, <1>2, <1>3, <1>4, NextIs

\* A request that is to be applied, and was not just accepted, is as it was.
LEMMA ApplyMoves ==
  ASSUME Inv, [Next]_vars, NEW h \in Handle, NEW s \in Slot, At(h, s, "tx", "apply")'
  PROVE  \/ At(h, s, "tx", "apply") /\ req'[h][s].pos = req[h][s].pos
         \/ WriteLTXFileAt(h, s) /\ PreApply(req'[h][s].pos) = ppos
<1>0. req \in Requests /\ <<>> \in Content /\ ppos \in Content
  BY ContentFacts DEF Inv, TypeOK, Requests
<1>1. CASE UNCHANGED req
  BY <1>1 DEF At
<1>2. ASSUME NEW k \in Handle, NEW t \in Slot, NEW op,
             Sent(k, t, op) \/ Taken(k, t, op) \/ GaveUp(k, t, op)
      PROVE  At(h, s, "tx", "apply") /\ req'[h][s].pos = req[h][s].pos
  <2>1. CASE k # h \/ t # s
    <3>1. Touched(k, t)
      BY <1>2 DEF Sent, Taken, GaveUp
    <3>2. QED
      BY <2>1, <3>1, OtherSlots
  <2>2. CASE k = h /\ t = s
    BY <1>2, <2>2 DEF Sent, Taken, GaveUp, Live, Op, At
  <2>3. QED
    BY <2>1, <2>2
<1>3. ASSUME NEW k \in Handle, NEW t \in Slot, HandlerStep(k, t)
      PROVE  \/ At(h, s, "tx", "apply") /\ req'[h][s].pos = req[h][s].pos
             \/ WriteLTXFileAt(h, s) /\ PreApply(req'[h][s].pos) = ppos
  <2>1. CASE k # h \/ t # s
    <3>1. Touched(k, t)
      BY <1>3, HandlerRequests
    <3>2. QED
      BY <2>1, <3>1, OtherSlots
  <2>2. CASE k = h /\ t = s
    <3>1. req[h][s] # None /\ req[h][s].op = "tx"
      BY <1>3, <2>2, HandlerRequests DEF At
    <3>2. WriteLTXFileAt(h, s) \/ ApplyForwarded(h, s)
      BY <1>3, <2>2, <3>1 DEF HandlerStep, HaltAlreadyAcquired, AcquireHaltWriteLock,
         AcquireHaltFails, RecoveryFails, StoreHaltLock, ReleaseHaltLoad, ReleaseHaltSwap,
         ReleaseHaltUnlock, At
    <3>3. req[h][s].pos \in Content
      BY <1>0, <3>1 DEF Requests, Request
    <3>4. ASSUME NEW st \in {"ok", "fail"}, NEW p \in Content, Answer(h, s, st, p) PROVE FALSE
      BY <1>0, <3>1, <3>4, AnswerEffect DEF At
    <3>5. /\ WriteLTXFileAt(h, s) /\ PreApply(req[h][s].pos) = ppos
          /\ req' = Moved(h, s, "apply", 0)
      BY <1>0, <3>2, <3>3, <3>4 DEF WriteLTXFileAt, ApplyForwarded
    <3>6. req'[h][s].pos = req[h][s].pos
      BY <1>0, <3>1, <3>5, MovedEffect
    <3>7. QED
      BY <3>5, <3>6
  <2>3. QED
    BY <2>1, <2>2
<1>4. ASSUME NEW k \in Handle, LockFile(k) \/ Writer(k)
      PROVE  At(h, s, "tx", "apply") /\ req'[h][s].pos = req[h][s].pos
  <2>1. TypeOK
    BY DEF Inv
  <2>2. \/ UNCHANGED req
        \/ \E t \in Slot, op \in {"halt", "unhalt", "tx"} :
             Sent(k, t, op) \/ Taken(k, t, op) \/ GaveUp(k, t, op)
    BY <1>4, <2>1, LockFileRequests
  <2>3. QED
    BY <1>1, <1>2, <2>2 DEF At
<1>5. CASE UNCHANGED vars \/ MonitorStep \/ BeginLocal \/ CommitLocal \/ RollbackLocal \/ Streaming
  BY <1>1, <1>5, PrimaryKeeps, StreamingKeeps DEF vars
<1>6. QED
  BY <1>3, <1>4, <1>5, NextIs

\* A forwarded transaction is accepted when the primary has it.
LEMMA AcceptedMoves ==
  ASSUME Inv, [Next]_vars, NEW h \in Handle, NEW s \in Slot, At(h, s, "tx", "ok")'
  PROVE  \/ At(h, s, "tx", "ok") /\ req'[h][s].pos = req[h][s].pos
         \/ req'[h][s].pos = ppos'
<1>0. req \in Requests /\ <<>> \in Content /\ ppos \in Content
  BY ContentFacts DEF Inv, TypeOK, Requests
<1>1. CASE UNCHANGED req
  BY <1>1 DEF At
<1>2. ASSUME NEW k \in Handle, NEW t \in Slot, NEW op,
             Sent(k, t, op) \/ Taken(k, t, op) \/ GaveUp(k, t, op)
      PROVE  At(h, s, "tx", "ok") /\ req'[h][s].pos = req[h][s].pos
  <2>1. CASE k # h \/ t # s
    <3>1. Touched(k, t)
      BY <1>2 DEF Sent, Taken, GaveUp
    <3>2. QED
      BY <2>1, <3>1, OtherSlots
  <2>2. CASE k = h /\ t = s
    BY <1>2, <2>2 DEF Sent, Taken, GaveUp, Live, Op, At
  <2>3. QED
    BY <2>1, <2>2
<1>3. ASSUME NEW k \in Handle, NEW t \in Slot, HandlerStep(k, t)
      PROVE  \/ At(h, s, "tx", "ok") /\ req'[h][s].pos = req[h][s].pos
             \/ req'[h][s].pos = ppos'
  <2>1. CASE k # h \/ t # s
    <3>1. Touched(k, t)
      BY <1>3, HandlerRequests
    <3>2. QED
      BY <2>1, <3>1, OtherSlots
  <2>2. CASE k = h /\ t = s
    <3>1. req[h][s] # None /\ req[h][s].op = "tx"
      BY <1>3, <2>2, HandlerRequests DEF At
    <3>2. WriteLTXFileAt(h, s) \/ ApplyForwarded(h, s)
      BY <1>3, <2>2, <3>1 DEF HandlerStep, HaltAlreadyAcquired, AcquireHaltWriteLock,
         AcquireHaltFails, RecoveryFails, StoreHaltLock, ReleaseHaltLoad, ReleaseHaltSwap,
         ReleaseHaltUnlock, At
    <3>3. req[h][s] \in Request
      BY <1>0, <3>1 DEF Requests
    <3>4. req[h][s].pos \in Content
      BY <3>3 DEF Request
    <3>5. CASE WriteLTXFileAt(h, s)
      <4>1. req' = Moved(h, s, "apply", 0) \/ Answer(h, s, "fail", <<>>)
        BY <3>5 DEF WriteLTXFileAt
      <4>2. req' = Moved(h, s, "apply", 0) => req'[h][s].st = "apply"
        BY <1>0, <3>1, MovedEffect
      <4>3. Answer(h, s, "fail", <<>>) => req'[h][s] = None \/ req'[h][s].st = "fail"
        BY <1>0, <3>1, AnswerEffect
      <4>4. QED
        BY <4>1, <4>2, <4>3 DEF At
    <3>6. CASE ApplyForwarded(h, s)
      <4>1. Answer(h, s, "ok", req[h][s].pos) /\ ppos' = req[h][s].pos
        BY <3>6 DEF ApplyForwarded
      <4>2. req'[h][s] = None \/ req'[h][s].pos = req[h][s].pos
        BY <1>0, <3>1, <3>4, <4>1, AnswerEffect
      <4>3. QED
        BY <4>1, <4>2 DEF At
    <3>7. QED
      BY <3>2, <3>5, <3>6
  <2>3. QED
    BY <2>1, <2>2
<1>4. ASSUME NEW k \in Handle, LockFile(k) \/ Writer(k)
      PROVE  At(h, s, "tx", "ok") /\ req'[h][s].pos = req[h][s].pos
  <2>1. TypeOK
    BY DEF Inv
  <2>2. \/ UNCHANGED req
        \/ \E t \in Slot, op \in {"halt", "unhalt", "tx"} :
             Sent(k, t, op) \/ Taken(k, t, op) \/ GaveUp(k, t, op)
    BY <1>4, <2>1, LockFileRequests
  <2>3. QED
    BY <1>2, <2>2 DEF At
<1>5. CASE UNCHANGED vars \/ MonitorStep \/ BeginLocal \/ CommitLocal \/ RollbackLocal \/ Streaming
  BY <1>1, <1>5, PrimaryKeeps, StreamingKeeps DEF vars
<1>6. QED
  BY <1>3, <1>4, <1>5, NextIs

\* A frame is a part of what the primary has.
LEMMA FrameMoves ==
  ASSUME TypeOK, [Next]_vars, NEW r \in Replica
  PROVE  \/ frame'[r] = frame[r] \/ frame'[r] = <<>>
         \/ \E n \in Nat : n < Len(ppos) /\ frame'[r] = SubSeq(ppos, 1, n + 1)
<1>0. frame \in [Replica -> Content] /\ sent \in [Replica -> Nat]
  BY DEF TypeOK
<1>1. ASSUME NEW q \in Replica, StreamStep(q)
      PROVE  \/ frame'[r] = frame[r] \/ frame'[r] = <<>>
             \/ \E n \in Nat : n < Len(ppos) /\ frame'[r] = SubSeq(ppos, 1, n + 1)
  <2>1. CASE ReceiveFrame(q)
    BY <1>0, <2>1 DEF ReceiveFrame
  <2>2. CASE ~ReceiveFrame(q)
    BY <1>0, <1>1, <2>2 DEF StreamStep, LockFrame, SkipFrame, UnhaltForFrame, ApplyFrame,
       RejectFrame, FrameDone
  <2>3. QED
    BY <2>1, <2>2
<1>2. ASSUME NEW u \in Handle \cup Replica, UnsetStep(u) PROVE UNCHANGED frame
  BY <1>2 DEF UnsetStep, Recover, ClearRemote
<1>3. ASSUME NEW h \in Handle, LockFile(h) PROVE UNCHANGED frame
  BY <1>3, LockFileKeeps
<1>4. ASSUME NEW h \in Handle, Writer(h) PROVE UNCHANGED frame
  BY <1>4, WriterKeeps
<1>5. ASSUME NEW h \in Handle, NEW s \in Slot, HandlerStep(h, s) PROVE UNCHANGED frame
  BY <1>5, OthersStay
<1>6. CASE UNCHANGED vars \/ MonitorStep \/ BeginLocal \/ CommitLocal \/ RollbackLocal
  BY <1>6, PrimaryKeeps DEF vars
<1>7. QED
  BY <1>1, <1>2, <1>3, <1>4, <1>5, <1>6, NextIs DEF Streaming

\* A prefix is shorter and has the same elements.
LEMMA PrefixIs ==
  ASSUME NEW s \in Content, NEW t \in Content
  PROVE  IsPrefix(s, t) <=> Len(s) <= Len(t) /\ \A i \in 1..Len(s) : s[i] = t[i]
<1>0. s \in Seq(Tx) /\ t \in Seq(Tx) /\ Len(s) \in Nat /\ Len(t) \in Nat
  BY LenProperties DEF Content
<1>1. SUFFICES ASSUME Len(s) <= Len(t)
               PROVE  SubSeq(s, 1, Len(s)) = SubSeq(t, 1, Len(s)) <=>
                        \A i \in 1..Len(s) : s[i] = t[i]
  BY DEF IsPrefix
<1> DEFINE a == SubSeq(s, 1, Len(s))
           b == SubSeq(t, 1, Len(s))
<1>2. (\A i \in 1..Len(s) : s[i] \in Tx) /\ (\A i \in 1..Len(s) : t[i] \in Tx)
  BY <1>0, <1>1, ElementOfSeq
<1>3. /\ a \in Seq(Tx) /\ Len(a) = Len(s) /\ \A i \in 1..Len(s) : a[i] = s[i]
      /\ b \in Seq(Tx) /\ Len(b) = Len(s) /\ \A i \in 1..Len(s) : b[i] = t[i]
  <2>1. /\ a \in Seq(Tx) /\ Len(a) = IF 1 <= Len(s) THEN Len(s) - 1 + 1 ELSE 0
        /\ \A i \in 1..Len(s) - 1 + 1 : a[i] = s[1 + i - 1]
    BY <1>0, <1>2, SubSeqProperties
  <2>2. /\ b \in Seq(Tx) /\ Len(b) = IF 1 <= Len(s) THEN Len(s) - 1 + 1 ELSE 0
        /\ \A i \in 1..Len(s) - 1 + 1 : b[i] = t[1 + i - 1]
    BY <1>0, <1>2, SubSeqProperties
  <2>3. QED
    BY <1>0, <2>1, <2>2
<1> HIDE DEF a, b
<1>4. a = b <=> \A i \in 1..Len(s) : a[i] = b[i]
  BY <1>3, SeqEqual
<1>5. (\A i \in 1..Len(s) : a[i] = b[i]) <=> (\A i \in 1..Len(s) : s[i] = t[i])
  BY <1>3
<1>6. QED
  BY <1>4, <1>5 DEF a, b

\* The prefixes that steps make.
LEMMA PrefixFacts ==
  ASSUME NEW c \in Content
  PROVE  /\ IsPrefix(c, c) /\ IsPrefix(<<>>, c)
         /\ \A e \in Tx : IsPrefix(c, Append(c, e))
         /\ \A n \in Nat : n < Len(c) => IsPrefix(SubSeq(c, 1, n + 1), c)
         /\ Front(c) \in Content /\ IsPrefix(Front(c), c)
         /\ \A s, t \in Content : IsPrefix(s, t) /\ IsPrefix(t, c) => IsPrefix(s, c)
<1>0. c \in Seq(Tx) /\ Len(c) \in Nat /\ <<>> \in Content /\ Len(<<>>) = 0
  BY LenProperties, EmptySeq DEF Content
<1>1. IsPrefix(c, c) /\ IsPrefix(<<>>, c)
  <2>1. IsPrefix(c, c)
    BY <1>0, PrefixIs
  <2>2. PICK e : e = <<>>
    OBVIOUS
  <2>3. e \in Content /\ Len(e) = 0
    BY <1>0, <2>2
  <2>4. Len(e) <= Len(c) /\ \A i \in 1..Len(e) : e[i] = c[i]
    BY <1>0, <2>3
  <2>5. IsPrefix(e, c)
    BY <2>3, <2>4, PrefixIs
  <2>6. QED
    BY <2>1, <2>2, <2>5
<1>2. ASSUME NEW e \in Tx PROVE IsPrefix(c, Append(c, e))
  <2>1. PICK d : d = Append(c, e)
    OBVIOUS
  <2>2. /\ d \in Content /\ Len(d) = Len(c) + 1
        /\ \A i \in 1..Len(c) : d[i] = c[i]
    BY <1>0, <2>1, AppendProperties DEF Content
  <2>3. Len(c) <= Len(d)
    BY <1>0, <2>2
  <2>4. IsPrefix(c, d)
    BY <2>2, <2>3, PrefixIs
  <2>5. QED
    BY <2>1, <2>4
<1>3. ASSUME NEW m \in Int, m <= Len(c)
      PROVE  SubSeq(c, 1, m) \in Content /\ IsPrefix(SubSeq(c, 1, m), c)
  <2>1. \A i \in 1..m : c[i] \in Tx
    BY <1>0, <1>3, ElementOfSeq
  <2> DEFINE d == SubSeq(c, 1, m)
  <2>2. /\ d \in Seq(Tx) /\ Len(d) = IF 1 <= m THEN m - 1 + 1 ELSE 0
        /\ \A i \in 1..m - 1 + 1 : d[i] = c[1 + i - 1]
    BY <2>1, SubSeqProperties
  <2> HIDE DEF d
  <2>3. Len(d) <= Len(c) /\ \A i \in 1..Len(d) : d[i] = c[i]
    BY <1>0, <1>3, <2>2
  <2>4. IsPrefix(d, c)
    BY <2>2, <2>3, PrefixIs DEF Content
  <2>5. QED
    BY <2>2, <2>4 DEF d, Content
<1>4. \A n \in Nat : n < Len(c) => IsPrefix(SubSeq(c, 1, n + 1), c)
  BY <1>0, <1>3
<1>5. Front(c) \in Content /\ IsPrefix(Front(c), c)
  BY <1>0, <1>3 DEF Front
<1>6. ASSUME NEW s \in Content, NEW t \in Content, IsPrefix(s, t), IsPrefix(t, c)
      PROVE  IsPrefix(s, c)
  <2>1. Len(s) \in Nat /\ Len(t) \in Nat
    BY LenProperties DEF Content
  <2>2. /\ Len(s) <= Len(t) /\ \A i \in 1..Len(s) : s[i] = t[i]
        /\ Len(t) <= Len(c) /\ \A i \in 1..Len(t) : t[i] = c[i]
    BY <1>6, PrefixIs
  <2>3. Len(s) <= Len(c) /\ \A i \in 1..Len(s) : s[i] = c[i]
    BY <1>0, <2>1, <2>2
  <2>4. QED
    BY <2>3, PrefixIs
<1>7. QED
  BY <1>1, <1>2, <1>4, <1>5, <1>6

\* A content that extends a known one by a transaction adds only itself to what is known.
LEMMA FrontFacts ==
  ASSUME NEW c \in Content
  PROVE  /\ \A e \in Tx : Front(Append(c, e)) = c
         /\ \A p \in Content : IsPrefix(p, c) => p = c \/ IsPrefix(p, Front(c))
<1>0. c \in Seq(Tx) /\ Len(c) \in Nat /\ Front(c) \in Content
  BY LenProperties, PrefixFacts DEF Content
<1>1. ASSUME NEW m \in Nat, NEW d \in Content, m <= Len(d)
      PROVE  /\ SubSeq(d, 1, m) \in Seq(Tx) /\ Len(SubSeq(d, 1, m)) = m
             /\ \A i \in 1..m : SubSeq(d, 1, m)[i] = d[i]
  <2>0. d \in Seq(Tx) /\ Len(d) \in Nat
    BY LenProperties DEF Content
  <2>1. \A i \in 1..m : d[i] \in Tx
    BY <1>1, <2>0, ElementOfSeq
  <2> DEFINE b == SubSeq(d, 1, m)
  <2>2. /\ b \in Seq(Tx) /\ Len(b) = IF 1 <= m THEN m - 1 + 1 ELSE 0
        /\ \A i \in 1..m - 1 + 1 : b[i] = d[1 + i - 1]
    BY <2>1, SubSeqProperties
  <2> HIDE DEF b
  <2>3. QED
    BY <2>2 DEF b
<1>2. ASSUME NEW e \in Tx PROVE Front(Append(c, e)) = c
  <2>1. PICK d : d = Append(c, e)
    OBVIOUS
  <2>2. d \in Content /\ Len(d) = Len(c) + 1 /\ \A i \in 1..Len(c) : d[i] = c[i]
    BY <1>0, <2>1, AppendProperties DEF Content
  <2>3. PICK f : f = SubSeq(d, 1, Len(c))
    OBVIOUS
  <2>4. Len(c) <= Len(d) /\ Len(d) - 1 = Len(c)
    BY <1>0, <2>2
  <2>5. f \in Seq(Tx) /\ Len(f) = Len(c) /\ \A i \in 1..Len(c) : f[i] = c[i]
    BY <1>0, <1>1, <2>2, <2>3, <2>4
  <2>6. f = c
    BY <1>0, <2>5, SeqEqual
  <2>7. QED
    BY <2>1, <2>3, <2>4, <2>6 DEF Front
<1>3. ASSUME NEW p \in Content, IsPrefix(p, c) PROVE p = c \/ IsPrefix(p, Front(c))
  <2>0. p \in Seq(Tx) /\ Len(p) \in Nat
    BY LenProperties DEF Content
  <2>1. Len(p) <= Len(c) /\ \A i \in 1..Len(p) : p[i] = c[i]
    BY <1>3, PrefixIs
  <2>2. CASE Len(p) = Len(c)
    BY <1>0, <2>0, <2>1, <2>2, SeqEqual
  <2>3. CASE Len(p) < Len(c)
    <3>1. PICK f : f = Front(c)
      OBVIOUS
    <3>2. Len(c) - 1 \in Nat /\ Len(c) - 1 <= Len(c) /\ Len(p) <= Len(c) - 1
      BY <1>0, <2>0, <2>3
    <3>3. f \in Content /\ Len(f) = Len(c) - 1 /\ \A i \in 1..(Len(c) - 1) : f[i] = c[i]
      BY <1>1, <3>1, <3>2 DEF Front, Content
    <3>4. \A i \in 1..Len(p) : p[i] = f[i]
      BY <1>0, <2>0, <2>1, <3>2, <3>3
    <3>5. IsPrefix(p, f)
      BY <3>2, <3>3, <3>4, PrefixIs
    <3>6. QED
      BY <3>1, <3>5
  <2>4. QED
    BY <1>0, <2>0, <2>1, <2>2, <2>3
<1>4. QED
  BY <1>2, <1>3

\* A content that the primary gets extends one that it had.
LEMMA NewContent ==
  ASSUME Inv, Had, [Next]_vars, <<ppos, had>>' # <<ppos, had>>
  PROVE  ppos' \in Content /\ Front(ppos') \in had /\ had' = had \cup {ppos'}
<1>0. TypeOK /\ ppos \in Content /\ ppos \in had
  BY DEF Inv, TypeOK, Had
<1>1. CASE CommitLocal
  <2>1. txs' \in 1..MaxTx
    BY <1>0, <1>1, BoundAssumption DEF CommitLocal, TypeOK
  <2>2. [n |-> txs', by |-> "primary"] \in Tx
    BY <2>1 DEF Tx
  <2>3. ppos' = Append(ppos, [n |-> txs', by |-> "primary"]) /\ had' = had \cup {ppos'}
    BY <1>1 DEF CommitLocal
  <2>4. QED
    BY <1>0, <2>2, <2>3, FrontFacts, ContentFacts
<1>2. ASSUME NEW h \in Handle, NEW s \in Slot, ApplyForwarded(h, s)
      PROVE  ppos' \in Content /\ Front(ppos') \in had /\ had' = had \cup {ppos'}
  <2>1. At(h, s, "tx", "apply") /\ ppos' = req[h][s].pos /\ had' = had \cup {ppos'}
    BY <1>2 DEF ApplyForwarded
  <2>2. req[h][s] \in Request
    BY <1>0, <2>1 DEF At, TypeOK
  <2>3. req[h][s].pos \in Content
    BY <2>2 DEF Request
  <2>4. Front(req[h][s].pos) \in had
    BY <2>1 DEF Had, PreApply
  <2>5. QED
    BY <2>1, <2>3, <2>4
<1>3. QED
  BY <1>1, <1>2, PrimaryPosMoves

\* Every step keeps Had.
LEMMA StepHad ==
  ASSUME Inv, Had, [Next]_vars
  PROVE  Had'
<1>0. TypeOK /\ ppos \in Content /\ ppos \in had /\ <<>> \in Content
  BY ContentFacts DEF Inv, TypeOK, Had
<1>1. had \subseteq had' /\ ppos' \in had'
  BY <1>0, NewContent
<1>2. ASSUME NEW c \in had', NEW p \in Content, IsPrefix(p, c) PROVE p \in had'
  <2>1. CASE c \in had
    BY <1>1, <1>2, <2>1 DEF Had
  <2>2. CASE c \notin had
    <3>1. c = ppos' /\ ppos' \in Content /\ Front(ppos') \in had
      BY <2>2, NewContent
    <3>2. p = ppos' \/ IsPrefix(p, Front(ppos'))
      BY <1>2, <3>1, FrontFacts
    <3>3. QED
      BY <1>1, <3>1, <3>2 DEF Had
  <2>3. QED
    BY <2>1, <2>2
<1>3. ASSUME NEW r \in Replica PROVE frame'[r] \in had'
  <2>1. <<>> \in had
    BY <1>0, PrefixFacts DEF Had
  <2>2. ASSUME NEW n \in Nat, n < Len(ppos) PROVE SubSeq(ppos, 1, n + 1) \in had
    BY <1>0, <2>2, PrefixFacts, ContentFacts DEF Had
  <2>3. QED
    BY <1>0, <1>1, <2>1, <2>2, FrameMoves DEF Had
<1>4. ASSUME NEW h \in Handle, NEW s \in Slot, At(h, s, "tx", "apply")'
      PROVE  PreApply(req'[h][s].pos) \in had'
  BY <1>0, <1>1, <1>4, ApplyMoves DEF Had
<1>5. ASSUME NEW h \in Handle, NEW s \in Slot, At(h, s, "tx", "ok")'
      PROVE  req'[h][s].pos \in had'
  BY <1>1, <1>5, AcceptedMoves DEF Had
<1>6. QED
  BY <1>1, <1>2, <1>3, <1>4, <1>5 DEF Had, PreApply

\* At first the primary has had the empty content, and nothing is under way.
LEMMA InitHad == Init => Had
<1> SUFFICES ASSUME Init PROVE Had
  OBVIOUS
<1>1. <<>> \in Content
  BY EmptySeq DEF Content
<1>2. \A h \in Handle, s \in Slot : \A op, st : ~At(h, s, op, st)
  BY DEF Init, At
<1>3. ASSUME NEW p \in Content, IsPrefix(p, <<>>) PROVE p = <<>>
  <2>1. PICK e : e = <<>>
    OBVIOUS
  <2>2. e \in Content /\ e \in Seq(Tx) /\ p \in Seq(Tx) /\ Len(p) \in Nat /\ Len(e) = 0
    BY <1>1, <2>1, LenProperties, EmptySeq DEF Content
  <2>3. Len(p) <= Len(e)
    BY <1>3, <2>1, <2>2, PrefixIs
  <2>4. p = e
    BY <2>2, <2>3, SeqEqual
  <2>5. QED
    BY <2>1, <2>4
<1>4. had = {<<>>} /\ ppos = <<>> /\ \A r \in Replica : frame[r] = <<>>
  BY DEF Init
<1>5. QED
  BY <1>2, <1>3, <1>4 DEF Had

\* For every set of replicas and handles, even when updates are lost: a transaction that
\* the primary takes rests on a content that it has had.
THEOREM HaltBuildsOnWhatItHad == Spec => BuildsOnWhatItHad
<1> DEFINE I == Inv /\ Had
<1>1. Init => I
  BY InitInv, InitHad
<1>2. I /\ [Next]_vars => I'
  BY StepInv, StepHad
<1>3. I /\ [Next]_vars => [BaseWasHad]_vars
  BY NewContent DEF BaseWasHad, PreApply
<1>4. QED
  BY <1>1, <1>2, <1>3, PTL DEF Spec, BuildsOnWhatItHad

\* What a replica takes is one of them, or the commit that lost its remote lock.
LEMMA StepTakes ==
  ASSUME Inv, Had, [Next]_vars
  PROVE  OnlyWhatPrimaryHad
<1>0. TypeOK /\ rpos \in [Replica -> Content]
  BY DEF Inv, TypeOK
<1> SUFFICES ASSUME NEW r \in Replica, rpos'[r] # rpos[r]
             PROVE  rpos'[r] \in had \/ (rtx[r] = "built" /\ remote[r] = None)
  BY DEF OnlyWhatPrimaryHad
<1>1. ASSUME NEW h \in Handle, Writer(h)
      PROVE  rpos'[r] \in had \/ (rtx[r] = "built" /\ remote[r] = None)
  <2>1. r = Home[h]
    BY <1>0, <1>1, WriterKeeps
  <2>2. CASE BeginTx(h) \/ RollbackTx(h) \/ CommitJournal(h)
    BY <2>2 DEF BeginTx, RollbackTx, CommitJournal
  <2>3. ASSUME NEW s \in Slot, ForwardTx(h, s) PROVE rtx[r] = "built" /\ remote[r] = None
    BY <2>1, <2>3 DEF ForwardTx
  <2>4. ASSUME NEW s \in Slot, TxAccepted(h, s) PROVE rpos'[r] \in had
    BY <1>0, <2>1, <2>4 DEF TxAccepted, Done, Had
  <2>5. ASSUME NEW s \in Slot, TxRejected(h, s) PROVE FALSE
    BY <2>5 DEF TxRejected
  <2>6. QED
    BY <1>1, <2>2, <2>3, <2>4, <2>5 DEF Writer
<1>2. CASE Streaming
  <2>1. ASSUME NEW q \in Replica, StreamStep(q) PROVE rpos'[r] = frame[r]
    BY <1>0, <2>1 DEF StreamStep, ReceiveFrame, LockFrame, SkipFrame, UnhaltForFrame, ApplyFrame,
       RejectFrame, FrameDone
  <2>2. ASSUME NEW u \in Handle \cup Replica, UnsetStep(u) PROVE UNCHANGED rpos
    BY <2>2 DEF UnsetStep, Recover, ClearRemote
  <2>3. QED
    BY <1>2, <2>1, <2>2 DEF Streaming, Had
<1>3. ASSUME NEW h \in Handle, LockFile(h) PROVE UNCHANGED rpos
  BY <1>3, LockFileKeeps
<1>4. ASSUME NEW h \in Handle, NEW s \in Slot, HandlerStep(h, s) PROVE UNCHANGED rpos
  BY <1>0, <1>4, OthersStay
<1>5. CASE UNCHANGED vars \/ MonitorStep \/ BeginLocal \/ CommitLocal \/ RollbackLocal
  BY <1>5, PrimaryKeeps DEF vars
<1>6. QED
  BY <1>1, <1>2, <1>3, <1>4, <1>5, NextIs

\* For every set of replicas and handles, even when the primary loses updates: a replica
\* keeps a transaction only if its primary has had it, but for the commit that finds the
\* remote halt lock gone when it is about to forward.
THEOREM HaltKeptOnceForwarded == Spec => KeptOnceForwarded
<1> DEFINE I == Inv /\ Had
<1>1. Init => I
  BY InitInv, InitHad
<1>2. I /\ [Next]_vars => I'
  BY StepInv, StepHad
<1>3. I /\ [Next]_vars => [OnlyWhatPrimaryHad]_vars
  BY StepTakes
<1>4. QED
  BY <1>1, <1>2, <1>3, PTL DEF Spec, KeptOnceForwarded
=============================================================================
