------------------------------ MODULE DBLocks -------------------------------
(***************************************************************************)
(* The locks of one database: the twelve mutexes of a DB, the guard sets   *)
(* through which SQLite processes take them (one per FUSE lock owner), and *)
(* the two users inside LiteFS, AcquireWriteLock and Export.               *)
(*                                                                         *)
(* SQLite itself is external: Asks says which lock requests a process may  *)
(* issue next, given the locks it believes to hold and the journal mode it *)
(* has read in the header of the database file.  A mutex operation is one  *)
(* step; a request for a range of locks is one step per lock, as in the    *)
(* loops of TryLocks and TryRLocks.  The contents of the database are two  *)
(* positions: the last transaction of the LTX chain (pos) and the last one *)
(* that is in the database file (dbpos, behind pos while the log has it).  *)
(***************************************************************************)
EXTENDS RWMutexOps, Sequences

CONSTANTS
  Client,     \* lock owners: the SQLite processes that use the mount
  Writer,     \* calls of AcquireWriteLock: replication, HALT, import, recovery
  Exporter,   \* calls of Export
  NReads,     \* READ locks of the wal-index (5 in SQLite)
  MaxTx,      \* bound on the position
  Optional    \* "restart", SQLite tries to restart the log with one range request
              \* "leave", ApplyLTX meets a transaction that leaves the WAL mode

ASSUME LocksAssumption ==
  /\ Guard = Client \cup Writer \cup Exporter
  /\ Client \cap Writer = {} /\ Client \cap Exporter = {} /\ Writer \cap Exporter = {}
  /\ NReads \in 2..5 /\ MaxTx \in Nat
  /\ Optional \subseteq {"restart", "leave"}

ReadLocks == SubSeq(<<"READ0", "READ1", "READ2", "READ3", "READ4">>, 1, NReads)

DatabaseLock == {"PENDING", "RESERVED", "SHARED"}
ReadLock     == {ReadLocks[i] : i \in 1..NReads}
SHMLock      == {"WRITE", "CKPT", "RECOVER", "DMS"} \cup ReadLock
LockType     == DatabaseLock \cup SHMLock
DBMode       == {"rollback", "wal"}

VARIABLES
  lk,     \* the mutex of every lock
  mode,   \* db.mode
  file,   \* the journal mode in the header of the database file
  pos,    \* db.pos
  dbpos,  \* the last transaction that is in the database file
  got,    \* the locks a client believes to hold
  sees,   \* the journal mode a client has read in the header
  want,   \* a request for a range that is half way through its loop
  dirty,  \* a client has appended a transaction to the log
  dying,  \* a client has exited: the kernel flushes its files
  gs      \* the guard sets of the calls inside LiteFS: program counter, guards
          \* still to be taken and, for Export, the position of its snapshot

clientVars == <<got, sees, want, dirty, dying>>
dataVars   == <<mode, file, pos, dbpos>>
vars       == <<lk, dataVars, clientVars, gs>>

-----------------------------------------------------------------------------
(* Guards of one set *)

R(l) == [do |-> "rlock", lock |-> l]
X(l) == [do |-> "lock", lock |-> l]
U(l) == [do |-> "unlock", lock |-> l]

\* A request a guard grants at once.
Granted(op, g) ==
  CASE op.do = "rlock"  -> TryRLockOK(lk[op.lock], g)
    [] op.do = "lock"   -> TryLockOK(lk[op.lock], g)
    [] op.do = "unlock" -> TRUE

Do(op, g) ==
  lk' = [lk EXCEPT ![op.lock] = CASE op.do = "rlock"  -> RLocked(@, g)
                                  [] op.do = "lock"   -> Locked(@, g)
                                  [] op.do = "unlock" -> Unlock(@, g)]

\* GuardSet.UnlockDatabase, UnlockSHM and Unlock: releases need no order.
UnlockAll(g, locks) ==
  lk' = [l \in LockType |-> IF l \in locks THEN Unlock(lk[l], g) ELSE lk[l]]

Idle    == [pc |-> "idle", todo |-> <<>>, pos |-> 0]
Each(Op(_), locks) == [i \in 1..Len(locks) |-> Op(locks[i])]

\* Both callers begin as a SQLite reader does.
TakeShared == <<R("PENDING"), R("SHARED"), U("PENDING")>>

-----------------------------------------------------------------------------
(* SQLite: the requests of a process (external) *)

NoLocks == [l \in LockType |-> Unlocked]
NoWant  == [do |-> "none", locks |-> <<>>, todo |-> <<>>]

Free(v, locks) == \A l \in locks : v[l] = Unlocked

\* A reader of a rollback database, and its upgrades to a writer.
SharedAsks(v) ==
  {a \in {R("PENDING"), R("SHARED")} :
     /\ v["SHARED"] = Unlocked
     /\ a.lock = "SHARED" <=> v["PENDING"] = Shared}

UpgradeAsks(v) ==
  {a \in {X("RESERVED"), X("PENDING"), X("SHARED"), R("SHARED")} :
     CASE a = X("RESERVED") -> v["SHARED"] = Shared /\ v["RESERVED"] = Unlocked
       [] a = X("PENDING")  -> v["RESERVED"] = Exclusive /\ v["PENDING"] = Unlocked
       [] a = X("SHARED")   -> v["PENDING"] = Exclusive /\ v["SHARED"] = Shared
       [] a = R("SHARED")   -> v["SHARED"] = Exclusive}

\* The connection of a WAL database: it keeps SHARED and DMS.
WALAsks(v) ==
  {a \in {X("DMS"), R("DMS"), X("WRITE"), X("CKPT"), X("READ0")}
           \cup {X("PENDING"), X("SHARED"), R("SHARED")} \cup {R(l) : l \in ReadLock} :
     CASE a = X("DMS")    -> v["DMS"] = Unlocked /\ v["PENDING"] = Unlocked
       [] a = R("DMS")    -> v["DMS"] # Shared /\ v["PENDING"] = Unlocked
       [] a = X("WRITE")  -> (\E l \in ReadLock : v[l] = Shared) /\ v["WRITE"] = Unlocked
       [] a = X("CKPT")   -> /\ v["DMS"] = Shared /\ Free(v, SHMLock \ {"DMS"})
                             /\ v["PENDING"] = Unlocked
       [] a = X("READ0")  -> v["CKPT"] = Exclusive /\ v["READ0"] = Unlocked
       [] a = X("PENDING") -> /\ v["SHARED"] = Shared /\ Free(v, SHMLock \ {"DMS"})
                              /\ v["PENDING"] = Unlocked
       [] a = X("SHARED")  -> v["PENDING"] = Exclusive /\ v["SHARED"] = Shared
       [] a = R("SHARED")  -> v["SHARED"] = Exclusive
       [] OTHER            -> /\ v["DMS"] = Shared
                              /\ Free(v, (SHMLock \ {"DMS"}) \cup {"PENDING"})}

\* The locks a process asks for next, each with the list of locks of its range.
Asks(c) ==
  LET one == IF sees[c] = "none" THEN SharedAsks(got[c])
             ELSE IF sees[c] = "rollback"
             THEN {a \in UpgradeAsks(got[c]) : a = R("SHARED") => file = "rollback"}
             ELSE WALAsks(got[c])
  IN {[do |-> a.do, locks |-> <<a.lock>>, todo |-> <<a.lock>>] : a \in one}
       \cup {[do |-> "lock", locks |-> s, todo |-> s] :
               s \in {t \in {Tail(ReadLocks)} :
                        /\ "restart" \in Optional
                        /\ got[c]["WRITE"] = Exclusive
                        /\ got[c]["READ0"] = Shared}}

\* The ranges a process unlocks: it gives up what it holds, innermost first.
Ranges(c) ==
  LET v == got[c]
      Held(locks) == ~Free(v, locks)
  IN {s \in {{"PENDING"}, {"PENDING", "RESERVED"}, DatabaseLock, {"WRITE"}, {"CKPT"}}
              \cup {ReadLock \ {"READ0"}} \cup {{l} : l \in ReadLock} :
        /\ Held(s)
        /\ CASE s = {"PENDING"} -> v["PENDING"] = Shared
             [] s = {"PENDING", "RESERVED"} -> v["SHARED"] = Shared /\ v["PENDING"] = Exclusive
             [] s = DatabaseLock -> sees[c] # "wal" /\ v["PENDING"] # Shared
             [] s = {"WRITE"} -> Free(v, {l \in ReadLock : v[l] = Exclusive})
             [] s = {"CKPT"} -> v["READ0"] = Unlocked
             [] s = ReadLock \ {"READ0"} -> \A l \in s : v[l] = Exclusive
             [] OTHER -> v["WRITE"] = Unlocked}

-----------------------------------------------------------------------------
(* SQLite processes and the FUSE lock handlers *)

Alive(c) == ~dying[c] /\ want[c] = NoWant

\* TryLocks refuses CKPT while another owner holds WRITE.
CkptRefused(a, c) ==
  /\ a.do = "lock" /\ Head(a.todo) = "CKPT"
  /\ MutexState(lk["WRITE"]) # Unlocked
  /\ lk["WRITE"].state[c] # Exclusive

\* One turn of the loop of TryLocks or TryRLocks: the next lock of the range.
TakeNext(c, a) ==
  LET op == [do |-> a.do, lock |-> Head(a.todo)]
      rest == Tail(a.todo)
  IN /\ ~CkptRefused(a, c) /\ Granted(op, c)
     /\ Do(op, c)
     /\ IF rest = <<>>
        THEN /\ want' = [want EXCEPT ![c] = NoWant]
             /\ got' = [got EXCEPT ![c] = [l \in LockType |->
                          IF \E i \in 1..Len(a.locks) : a.locks[i] = l
                          THEN IF a.do = "lock" THEN Exclusive ELSE Shared
                          ELSE got[c][l]]]
        ELSE want' = [want EXCEPT ![c] = [a EXCEPT !.todo = rest]] /\ UNCHANGED got
     /\ UNCHANGED <<dataVars, sees, dirty, dying, gs>>

TryLocks(c) == Alive(c) /\ \E a \in Asks(c) : TakeNext(c, a)

TryLocksNext(c) == want[c] # NoWant /\ TakeNext(c, want[c])

\* A later lock of the range is refused: EAGAIN, the earlier ones stay locked.
TryLocksRefused(c) ==
  /\ want[c] # NoWant
  /\ CkptRefused(want[c], c) \/ ~Granted([do |-> want[c].do, lock |-> Head(want[c].todo)], c)
  /\ want' = [want EXCEPT ![c] = NoWant]
  /\ UNCHANGED <<lk, dataVars, got, sees, dirty, dying, gs>>

\* CommitWAL at the end of a write transaction.
CommitWAL(c) ==
  /\ pos' = IF dirty[c] THEN pos + 1 ELSE pos
  /\ dirty' = [dirty EXCEPT ![c] = FALSE]
  /\ UNCHANGED <<mode, file, dbpos>>

EndWrite(c, locks) ==
  IF "WRITE" \in locks /\ lk["WRITE"].state[c] = Exclusive
  THEN CommitWAL(c)
  ELSE UNCHANGED <<dataVars, dirty>>

Forget(c, locks) ==
  got' = [got EXCEPT ![c] = [l \in LockType |-> IF l \in locks THEN Unlocked ELSE @[l]]]

\* Mutant of Release: the locks the caller asks for are not all it is rid of.
ReleaseGuardSet(c, locks) ==
  EndWrite(c, locks) /\ UnlockAll(c, LockType) /\ Forget(c, locks)

\* Mutant of Release: only the locks that a request was granted are released.
ReleaseGranted(c, locks) ==
  EndWrite(c, locks) /\ UnlockAll(c, {l \in locks : got[c][l] # Unlocked}) /\ Forget(c, locks)

\* Unlock of a range, and UnlockDatabase and UnlockSHM when a file is closed.
Release(c, locks) ==
  EndWrite(c, locks) /\ UnlockAll(c, locks) /\ Forget(c, locks)

\* A process that gives up SHARED reads the header again.
UnlockRange(c) ==
  /\ Alive(c)
  /\ \E locks \in Ranges(c) :
       /\ Release(c, locks)
       /\ sees' = [sees EXCEPT ![c] = IF "SHARED" \in locks THEN "none" ELSE @]
  /\ UNCHANGED <<want, dying, gs>>

\* SQLite looks at the header under SHARED (external).
ReadHeader(c) ==
  /\ Alive(c) /\ sees[c] = "none"
  /\ got[c]["SHARED"] = Shared /\ got[c]["PENDING"] = Unlocked
  /\ sees' = [sees EXCEPT ![c] = file]
  /\ UNCHANGED <<lk, dataVars, got, want, dirty, dying, gs>>

\* A commit of a rollback transaction: CommitJournal takes the mode from page 1.
CommitJournal(c) ==
  /\ Alive(c) /\ sees[c] = "rollback" /\ got[c]["SHARED"] = Exclusive /\ pos < MaxTx
  /\ \E h \in DBMode :
       /\ file' = h /\ mode' = h
       /\ sees' = [sees EXCEPT ![c] = h]
  /\ pos' = pos + 1 /\ dbpos' = pos + 1
  /\ UNCHANGED <<lk, got, want, dirty, dying, gs>>

\* A write transaction appends its frames (external).
AppendFrames(c) ==
  /\ Alive(c) /\ got[c]["WRITE"] = Exclusive /\ ~dirty[c] /\ pos < MaxTx
  /\ dirty' = [dirty EXCEPT ![c] = TRUE]
  /\ UNCHANGED <<lk, dataVars, got, sees, want, dying, gs>>

\* A checkpoint copies frames to the database file, as far as readers let it (external).
Backfill(c) ==
  /\ Alive(c) /\ got[c]["CKPT"] = Exclusive /\ got[c]["READ0"] = Exclusive
  /\ dbpos' \in (dbpos + 1)..pos
  /\ UNCHANGED <<lk, mode, file, pos, clientVars, gs>>

\* journal_mode=DELETE: the last connection copies the log, closes the wal-index
\* and goes on as a rollback writer (external, but for UnlockSHM).
CloseLog(c) ==
  /\ Alive(c) /\ sees[c] = "wal" /\ got[c]["SHARED"] = Exclusive
  /\ dbpos' = pos
  /\ UnlockAll(c, SHMLock) /\ Forget(c, SHMLock)
  /\ sees' = [sees EXCEPT ![c] = "rollback"]
  /\ dirty' = [d \in Client |-> FALSE]
  /\ UNCHANGED <<mode, file, pos, want, dying, gs>>

\* A process exits, in or out of a transaction.
Die(c) ==
  /\ Alive(c) /\ got[c] # NoLocks
  /\ dying' = [dying EXCEPT ![c] = TRUE]
  /\ UNCHANGED <<lk, dataVars, got, sees, want, dirty, gs>>

FlushDatabase(c) ==
  /\ dying[c] /\ sees[c] # "closed"
  /\ Release(c, DatabaseLock)
  /\ sees' = [sees EXCEPT ![c] = "closed"]
  /\ UNCHANGED <<want, dying, gs>>

FlushSHM(c) ==
  /\ dying[c] /\ sees[c] = "closed"
  /\ Release(c, SHMLock)
  /\ dying' = [dying EXCEPT ![c] = FALSE]
  /\ sees' = [sees EXCEPT ![c] = "none"]
  /\ UNCHANGED <<want, gs>>

-----------------------------------------------------------------------------
(* Calls inside LiteFS *)

Fail(g) == UnlockAll(g, LockType) /\ gs' = [gs EXCEPT ![g] = Idle]

\* The next guard of a call, if it is granted.
Step(g, next) ==
  /\ gs[g].todo # <<>> /\ Granted(Head(gs[g].todo), g)
  /\ Do(Head(gs[g].todo), g)
  /\ gs' = [gs EXCEPT ![g].todo = Tail(@),
                      ![g].pc = IF Len(gs[g].todo) = 1 THEN next ELSE @]
  /\ UNCHANGED <<dataVars, clientVars>>

\* TryAcquireWriteLock: PENDING and SHARED first, to look at the mode.
AcquireWriteLock(w) ==
  /\ gs[w].pc = "idle"
  /\ gs' = [gs EXCEPT ![w].pc = "shared", ![w].todo = TakeShared]
  /\ UNCHANGED <<lk, dataVars, clientVars>>

\* Mutant of Upgrade: readers of the WAL mode are forgotten.
UpgradeWithoutReads ==
  IF mode = "rollback"
  THEN <<X("RESERVED"), X("PENDING"), X("SHARED")>>
  ELSE <<R("DMS"), X("WRITE"), X("CKPT"), X("RECOVER")>>

\* Mutant of Upgrade: the locks of a rollback database, whatever the mode.
UpgradeRollback == <<X("RESERVED"), X("PENDING"), X("SHARED")>>

\* The locks of each mode.
Upgrade ==
  IF mode = "rollback"
  THEN <<X("RESERVED"), X("PENDING"), X("SHARED")>>
  ELSE <<R("DMS"), X("WRITE"), X("CKPT"), X("RECOVER")>> \o Each(X, ReadLocks)

WriteMode(w) ==
  /\ gs[w].pc = "mode"
  /\ gs' = [gs EXCEPT ![w].pc = "upgrade", ![w].todo = Upgrade]
  /\ UNCHANGED <<lk, dataVars, clientVars>>

WriteStep(w) ==
  \/ gs[w].pc = "shared" /\ Step(w, "mode")
  \/ gs[w].pc = "upgrade" /\ Step(w, "held")

\* A lock is not granted: the attempt gives back what it has, and is retried later.
WriteBlocked(w) ==
  /\ gs[w].todo # <<>> /\ ~Granted(Head(gs[w].todo), w)
  /\ Fail(w)
  /\ UNCHANGED <<dataVars, clientVars>>

\* Mutant of ApplyLTX: the position is not set.
ApplyLTXNoPos(w) ==
  /\ gs[w].pc = "held" /\ pos < MaxTx
  /\ dbpos' = pos + 1
  /\ UNCHANGED <<lk, mode, file, pos, clientVars, gs>>

\* ApplyLTXNoLock: a header that names the WAL mode sets db.mode, no header clears it.
ApplyLTX(w) ==
  /\ gs[w].pc = "held" /\ pos < MaxTx
  /\ \E h \in {file, "wal"} \cup (IF "leave" \in Optional THEN {"rollback"} ELSE {}) :
       /\ file' = h
       /\ mode' = IF h = "wal" THEN "wal" ELSE mode
  /\ pos' = pos + 1 /\ dbpos' = pos + 1
  /\ UNCHANGED <<lk, clientVars, gs>>

\* CheckpointNoLock, in Recover and in Checkpoint.
CheckpointNoLock(w) ==
  /\ gs[w].pc = "held" /\ dbpos < pos
  /\ dbpos' = pos
  /\ UNCHANGED <<lk, mode, file, pos, clientVars, gs>>

ReleaseWriteLock(w) ==
  /\ gs[w].pc = "held"
  /\ Fail(w)
  /\ UNCHANGED <<dataVars, clientVars>>

\* Export waits for each lock; in the WAL mode it takes its snapshot under WRITE.
Export(x) ==
  /\ gs[x].pc = "idle"
  /\ gs' = [gs EXCEPT ![x].pc = "shared", ![x].todo = TakeShared]
  /\ UNCHANGED <<lk, dataVars, clientVars>>

ExportMode(x) ==
  /\ gs[x].pc = "mode"
  /\ gs' = [gs EXCEPT ![x].pc = IF mode = "wal" THEN "write" ELSE "snapshot",
                      ![x].todo = IF mode = "wal" THEN <<X("WRITE")>> ELSE <<>>]
  /\ UNCHANGED <<lk, dataVars, clientVars>>

\* Mutant of ExportSnapshot: it takes the locks of a reader, not CKPT and READ0.
ExportSnapshotAsReader(x) ==
  /\ gs[x].pc = "snapshot"
  /\ lk' = [lk EXCEPT !["WRITE"] = Unlock(@, x)]
  /\ gs' = [gs EXCEPT ![x] = [pc |-> "ckpt", pos |-> pos, todo |-> <<R("READ1")>>]]
  /\ UNCHANGED <<dataVars, clientVars>>

\* pos, the size and the offsets in the log are copied, then WRITE is released.
ExportSnapshot(x) ==
  /\ gs[x].pc = "snapshot"
  /\ lk' = [lk EXCEPT !["WRITE"] = Unlock(@, x)]
  /\ gs' = [gs EXCEPT ![x] = [pc |-> "ckpt", pos |-> pos,
                              todo |-> <<R("CKPT"), R("RECOVER")>> \o Each(R, ReadLocks)]]
  /\ UNCHANGED <<dataVars, clientVars>>

ExportStep(x) ==
  \/ gs[x].pc = "shared" /\ Step(x, "mode")
  \/ gs[x].pc = "write" /\ Step(x, "snapshot")
  \/ gs[x].pc = "ckpt" /\ Step(x, "copy")

\* The copy is done, or the request is cancelled.
ExportEnd(x) ==
  /\ gs[x].pc # "idle"
  /\ Fail(x)
  /\ UNCHANGED <<dataVars, clientVars>>

-----------------------------------------------------------------------------
Init ==
  /\ lk = [l \in LockType |-> NewMutex]
  /\ file \in DBMode /\ mode = file
  /\ pos = 0 /\ dbpos = 0
  /\ got = [c \in Client |-> NoLocks]
  /\ sees = [c \in Client |-> "none"]
  /\ want = [c \in Client |-> NoWant]
  /\ dirty = [c \in Client |-> FALSE] /\ dying = [c \in Client |-> FALSE]
  /\ gs = [g \in Writer \cup Exporter |-> Idle]

ClientNext(c) ==
  \/ TryLocks(c) \/ TryLocksNext(c) \/ TryLocksRefused(c) \/ UnlockRange(c)
  \/ ReadHeader(c) \/ CommitJournal(c) \/ AppendFrames(c) \/ Backfill(c) \/ CloseLog(c)
  \/ Die(c) \/ FlushDatabase(c) \/ FlushSHM(c)

WriterNext(w) ==
  \/ AcquireWriteLock(w) \/ WriteMode(w) \/ WriteStep(w) \/ WriteBlocked(w)
  \/ ApplyLTX(w) \/ CheckpointNoLock(w) \/ ReleaseWriteLock(w)

ExportNext(x) ==
  Export(x) \/ ExportMode(x) \/ ExportSnapshot(x) \/ ExportStep(x) \/ ExportEnd(x)

Next ==
  \/ \E c \in Client : ClientNext(c)
  \/ \E w \in Writer : WriterNext(w)
  \/ \E x \in Exporter : ExportNext(x)

Spec == Init /\ [][Next]_vars

-----------------------------------------------------------------------------
(* Properties *)

\* What a live process does, by the locks it believes to hold.
Reading(c) ==
  /\ ~dying[c]
  /\ \/ sees[c] = "rollback" /\ got[c]["SHARED"] # Unlocked
     \/ \E l \in ReadLock : got[c][l] = Shared

Writing(c) ==
  ~dying[c] /\ Exclusive \in {got[c]["SHARED"], got[c]["WRITE"]}

Checkpointing(c) == ~dying[c] /\ got[c]["READ0"] = Exclusive

\* The types of the variables; the database file is never ahead of the position.
TypeOK ==
  /\ lk \in [LockType -> Mutex]
  /\ mode \in DBMode /\ file \in DBMode
  /\ pos \in Nat /\ dbpos \in 0..pos
  /\ got \in [Client -> [LockType -> GuardState]]
  /\ sees \in [Client -> DBMode \cup {"none", "closed"}]
  /\ want \in [Client -> [do : {"none", "lock", "rlock"},
                         locks : Seq(LockType), todo : Seq(LockType)]]
  /\ dirty \in [Client -> BOOLEAN] /\ dying \in [Client -> BOOLEAN]
  /\ gs \in [Writer \cup Exporter ->
               [pc : {"idle", "shared", "mode", "upgrade", "held",
                      "write", "snapshot", "ckpt", "copy"},
                todo : Seq([do : {"rlock", "lock", "unlock"}, lock : LockType]),
                pos : Nat]]
  /\ \A g \in Writer \cup Exporter : gs[g].pos <= pos

\* While AcquireWriteLock holds its locks, in either journal mode, no process reads,
\* writes or checkpoints the database, no other caller has the write lock and no
\* export takes or copies its snapshot (TryAcquireWriteLock).
WriteLockExcludes ==
  \A w \in Writer : gs[w].pc = "held" =>
    /\ \A c \in Client : ~Reading(c) /\ ~Writing(c) /\ ~Checkpointing(c)
    /\ \A v \in Writer \ {w} : gs[v].pc # "held"
    /\ \A x \in Exporter : gs[x].pc \notin {"snapshot", "copy"}

\* AcquireWriteLock "acquires the appropriate locks for a write depending on if the
\* database uses a rollback journal or WAL" (db.go:2624).
AppropriateLocks ==
  [][\A w \in Writer : gs[w].pc # "held" /\ gs'[w].pc = "held" =>
       lk'[IF file = "rollback" THEN "SHARED" ELSE "WRITE"].excl = w]_vars

\* A process that has been told that it holds a lock does hold it, however requests
\* for ranges, refusals, upgrades and closes interleave (TryLocks, TryRLocks, Unlock,
\* UnlockDatabase, UnlockSHM).
BeliefHolds ==
  \A c \in Client, l \in LockType :
    /\ got[c][l] = Shared => lk[l].state[c] # Unlocked
    /\ got[c][l] = Exclusive => lk[l].state[c] = Exclusive

\* Nothing stays locked once every process has closed its files and no call is under
\* way: not the locks that a refused range request took, not those of an attempt at the
\* write lock that failed, not those of an export that was cancelled.
ClosedMeansFree ==
  /\ \A c \in Client : got[c] = NoLocks /\ want[c] = NoWant
  /\ \A g \in Writer \cup Exporter : gs[g].pc = "idle"
  => \A l \in LockType : MutexState(lk[l]) = Unlocked

\* The database file does not change under an export that copies it (Export).
ExportStable ==
  [][\A x \in Exporter : gs[x].pc = "copy" /\ gs'[x].pc = "copy" => dbpos' = dbpos]_vars

\* Export "returns the current replication position": what it copies is not newer
\* than that (db.go:2401).
ExportAtPos == \A x \in Exporter : gs[x].pc = "copy" => dbpos <= gs[x].pos
=============================================================================
