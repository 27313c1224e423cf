------------------------------ MODULE HaltLock ------------------------------
(***************************************************************************)
(* The halt lock of one database and the transactions that replicas        *)
(* forward to the primary: AcquireHaltLock, ReleaseHaltLock and expiry on  *)
(* the primary (db.go), the handlers of /halt and /tx (http/server.go),    *)
(* the lock file of the replica (fuse/lock_node.go), the remote halt lock  *)
(* and CommitJournal there, and the LTX files that a replica receives      *)
(* meanwhile (store.go).                                                   *)
(*                                                                         *)
(* The content of a database is the sequence of transactions that made it; *)
(* a position stands for that sequence.  The primary does not change here; *)
(* Replication models that.  The HTTP exchanges of a handle are its slots  *)
(* in req: a request is live while its client waits for the answer.        *)
(***************************************************************************)
EXTENDS Naturals, Sequences, SequencesExt, FiniteSets

CONSTANTS
  Replica,     \* the nodes that are not the primary
  Handle,      \* open handles of lock files; each has one lock ID
  Home,        \* the node of each handle
  None,        \* no lock, no request
  MaxTx,       \* how many transactions are started: a bound
  MaxGuard,    \* how many guard sets halt locks may use: a bound
  MaxReq,      \* the requests of one handle that may be under way at once: a bound
  MaxBreak     \* how many calls are interrupted and requests given up: a bound

ASSUME HomeAssumption == Home \in [Handle -> Replica]
ASSUME NoneAssumption ==
  /\ Handle \cap Replica = {}
  /\ None \notin Handle \cup Replica
  /\ {"stream", "primary"} \cap (Handle \cup Replica \cup {None}) = {}
ASSUME BoundAssumption == {MaxTx, MaxGuard, MaxReq, MaxBreak} \subseteq Nat

VARIABLES
  ppos,     \* primary: DB.pos
  had,      \* primary: the contents it has had (history: no action reads it)
  pbase,    \* primary: the position at which the local writer began
  wlock,    \* primary: who holds the write lock: None, App, or a guard set
  halt,     \* primary: DB.haltLockAndGuard
  guards,   \* primary: how many guard sets were made
  monitor,  \* primary: EnforceHaltLockExpiration
  req,      \* requests of the handles at the primary
  pc,       \* progress of each handle's call, and of each replica's stream
  loaded,   \* the remote lock that UnsetRemoteHaltLock loaded
  target,   \* the position that AcquireRemoteHaltLock waits for
  rpos,     \* replica: DB.pos
  remote,   \* replica: DB.remoteHaltLock
  rlock,    \* replica: who holds the write lock: None, "stream", or a handle's process
  rtx,      \* replica: progress of the local transaction
  built,    \* replica: the LTX file of the local transaction
  sent,     \* the TXID up to which the primary sent LTX files
  frame,    \* the LTX file that a replica processes
  txs,      \* how many transactions were started
  breaks    \* how many calls and requests were broken off

primary == <<ppos, had, pbase, wlock, halt, guards, monitor>>
replica == <<rpos, remote, rlock, rtx, built>>
streams == <<sent, frame>>
rest    == <<pc, loaded, target, replica, streams, txs, breaks>>
vars    == <<primary, req, rest>>

-----------------------------------------------------------------------------
Tx      == [n : 1 .. MaxTx, by : Replica \cup {"primary"}]
Content == Seq(Tx)
Guard   == 1 .. MaxGuard
Slot    == 1 .. MaxReq
App     == 0                  \* the guard set of the primary's own applications

HaltRecord == [id : Handle, g : Guard, pos : Content]

\* op is the handler; g the guard set it took or loaded; pos the position of the
\* lock in an answer to "halt", the forwarded LTX file (what it leads to) in a "tx".
Request == [op : {"halt", "unhalt", "tx"},
            st : {"try", "got", "load", "cas", "unlock", "check", "apply", "ok", "fail"},
            live : BOOLEAN, g : Guard \cup {0}, pos : Content]

\* The steps of lockWaitHalt and unlockHalt, and of processLTXStreamFrame.
HandlePC == {"idle", "post", "waitpos", "held", "stale", "abort",
             "recover", "clear", "delete", "deleting"}
StreamPC == {"idle", "lock", "frame", "recover", "clear"}

\* The lock that EnforceHaltLockExpiration has loaded, and what it does next.
Expiry == [id : Handle, g : Guard, st : {"cas", "unlock"}]

ASSUME NilAssumption == None \notin Nat \cup HaltRecord \cup Request \cup Expiry

NodeOf(u) == IF u \in Handle THEN Home[u] ELSE u

Init ==
  /\ ppos = <<>> /\ had = {<<>>} /\ pbase = None /\ wlock = None /\ halt = None
  /\ guards = 0 /\ monitor = None
  /\ req = [h \in Handle |-> [s \in Slot |-> None]]
  /\ pc = [u \in Handle \cup Replica |-> "idle"]
  /\ loaded = [u \in Handle \cup Replica |-> None]
  /\ target = [h \in Handle |-> <<>>]
  /\ rpos = [r \in Replica |-> <<>>]
  /\ remote = [r \in Replica |-> None]
  /\ rlock = [r \in Replica |-> None]
  /\ rtx = [r \in Replica |-> "none"]
  /\ built = [r \in Replica |-> <<>>]
  /\ sent = [r \in Replica |-> 0]
  /\ frame = [r \in Replica |-> <<>>]
  /\ txs = 0 /\ breaks = 0

-----------------------------------------------------------------------------
(* Requests: http/client.go on one side, the handlers' answers on the other *)

Send(h, s, op, st, pos) ==
  /\ req[h][s] = None /\ \A t \in Slot : t < s => req[h][t] # None
  /\ req' = [req EXCEPT ![h][s] =
       [op |-> op, st |-> st, live |-> TRUE, g |-> 0, pos |-> pos]]

Moved(h, s, st, g) == [req EXCEPT ![h][s].st = st, ![h][s].g = g]

\* A handler ends: its answer waits for the client, if it is still there.
Answer(h, s, st, pos) ==
  req' = [req EXCEPT ![h][s] =
    IF req[h][s].live THEN [req[h][s] EXCEPT !.st = st, !.g = 0, !.pos = pos] ELSE None]

At(h, s, op, st) == req[h][s] # None /\ req[h][s].op = op /\ req[h][s].st = st

Done(h, s, op, st) == At(h, s, op, st) /\ req[h][s].live

\* The client stops waiting: its context is canceled or the connection breaks.  An
\* answer that was ready is lost; a handler goes on.
GiveUp(h, s, op) ==
  /\ req[h][s] # None /\ req[h][s].op = op /\ req[h][s].live
  /\ req' = [req EXCEPT ![h][s] =
       IF @.st \in {"ok", "fail"} THEN None ELSE [@ EXCEPT !.live = FALSE]]

-----------------------------------------------------------------------------
(* The primary: write lock and halt lock                                   *)

\* Server.handlePostHalt, DB.AcquireHaltLock: a retry of a request that already got
\* the lock is answered with that lock.
HaltAlreadyAcquired(h, s) ==
  /\ At(h, s, "halt", "try")
  /\ halt # None /\ halt.id = h
  /\ Answer(h, s, "ok", halt.pos)
  /\ UNCHANGED <<primary, rest>>

AcquireHaltWriteLock(h, s) ==
  /\ At(h, s, "halt", "try")
  /\ ~(halt # None /\ halt.id = h)
  /\ wlock = None
  /\ guards < MaxGuard
  /\ guards' = guards + 1
  /\ wlock' = guards'
  /\ req' = Moved(h, s, "got", guards')
  /\ UNCHANGED <<ppos, had, pbase, halt, monitor, rest>>

\* HaltAcquireTimeout, or the client is gone.
AcquireHaltFails(h, s) ==
  /\ At(h, s, "halt", "try")
  /\ Answer(h, s, "fail", <<>>)
  /\ UNCHANGED <<primary, rest>>

\* Mutant of StoreHaltLock: the lock is stored without its guards.
StoreHaltLockNoGuard(h, s) ==
  /\ At(h, s, "halt", "got")
  /\ halt' = [id |-> h, g |-> 0, pos |-> ppos]
  /\ Answer(h, s, "ok", ppos)
  /\ UNCHANGED <<ppos, had, pbase, wlock, guards, monitor, rest>>

\* A halt lock that is still there is replaced and its guards are unlocked.
StoreHaltLock(h, s) ==
  /\ At(h, s, "halt", "got")
  /\ halt' = [id |-> h, g |-> req[h][s].g, pos |-> ppos]
  /\ wlock' = IF halt # None /\ wlock = halt.g THEN None ELSE wlock
  /\ Answer(h, s, "ok", ppos)
  /\ UNCHANGED <<ppos, had, pbase, guards, monitor, rest>>

Unlocked(g) == IF wlock = g THEN None ELSE wlock

\* The recovery under the write lock fails.  (The conflict that AcquireHaltLock reports
\* next does not happen: there is no halt lock here, see HaltHasGuards, and only the
\* holder of the write lock stores one.)
RecoveryFails(h, s) ==
  /\ At(h, s, "halt", "got")
  /\ wlock' = Unlocked(req[h][s].g)
  /\ Answer(h, s, "fail", <<>>)
  /\ UNCHANGED <<ppos, had, pbase, halt, guards, monitor, rest>>

\* Mutant of ReleaseHaltLoad: whatever lock there is is released.
ReleaseAnyHaltLoad(h, s) ==
  /\ At(h, s, "unhalt", "load")
  /\ IF halt # None
       THEN req' = Moved(h, s, "cas", halt.g)
       ELSE Answer(h, s, "ok", <<>>)
  /\ UNCHANGED <<primary, rest>>

\* Server.handleDeleteHalt, DB.ReleaseHaltLock: load, compare-and-swap, unlock.
ReleaseHaltLoad(h, s) ==
  /\ At(h, s, "unhalt", "load")
  /\ IF halt # None /\ halt.id = h
       THEN req' = Moved(h, s, "cas", halt.g)
       ELSE Answer(h, s, "ok", <<>>)
  /\ UNCHANGED <<primary, rest>>

\* halt without the lock whose guard set is g.
Swapped(g) == IF halt # None /\ halt.g = g THEN None ELSE halt

\* Mutant of ReleaseHaltSwap: the guards are unlocked before the halt lock is removed.
ReleaseHaltUnlockFirst(h, s) ==
  /\ At(h, s, "unhalt", "cas")
  /\ wlock' = Unlocked(req[h][s].g)
  /\ req' = Moved(h, s, "unlock", req[h][s].g)
  /\ UNCHANGED <<ppos, had, pbase, halt, guards, monitor, rest>>

ReleaseHaltSwap(h, s) ==
  /\ At(h, s, "unhalt", "cas")
  /\ halt' = Swapped(req[h][s].g)
  /\ req' = Moved(h, s, "unlock", req[h][s].g)
  /\ UNCHANGED <<ppos, had, pbase, wlock, guards, monitor, rest>>

ReleaseHaltUnlock(h, s) ==
  /\ At(h, s, "unhalt", "unlock")
  /\ wlock' = Unlocked(req[h][s].g)
  /\ Answer(h, s, "ok", <<>>)
  /\ UNCHANGED <<ppos, had, pbase, halt, guards, monitor, rest>>

\* DB.EnforceHaltLockExpiration, at each tick of Store.monitorHaltLock.
ExpireLoad ==
  /\ monitor = None /\ halt # None
  /\ monitor' = [id |-> halt.id, g |-> halt.g, st |-> "cas"]
  /\ UNCHANGED <<ppos, had, pbase, wlock, halt, guards, req, rest>>

ExpireSwap ==
  /\ monitor # None /\ monitor.st = "cas"
  /\ halt' = Swapped(monitor.g)
  /\ monitor' = [monitor EXCEPT !.st = "unlock"]
  /\ UNCHANGED <<ppos, had, pbase, wlock, guards, req, rest>>

ExpireUnlock ==
  /\ monitor # None /\ monitor.st = "unlock"
  /\ wlock' = Unlocked(monitor.g)
  /\ monitor' = None
  /\ UNCHANGED <<ppos, had, pbase, halt, guards, req, rest>>

\* A transaction of an application on the primary: DB.CommitJournal at its end.
BeginLocal ==
  /\ wlock = None /\ txs < MaxTx
  /\ wlock' = App /\ pbase' = ppos
  /\ UNCHANGED <<ppos, had, halt, guards, monitor, req, rest>>

CommitLocal ==
  /\ wlock = App /\ txs < MaxTx
  /\ txs' = txs + 1
  /\ ppos' = Append(ppos, [n |-> txs', by |-> "primary"])
  /\ had' = had \cup {ppos'}
  /\ wlock' = None /\ pbase' = None
  /\ UNCHANGED <<halt, guards, monitor, req, pc, loaded, target, replica, streams, breaks>>

RollbackLocal ==
  /\ wlock = App
  /\ wlock' = None /\ pbase' = None
  /\ UNCHANGED <<ppos, had, halt, guards, monitor, req, rest>>

\* The pre-apply position of an LTX file: TXID and checksum.
PreApply(f) == Front(f)

\* Mutant of WriteLTXFileAt: the file is taken whatever it follows.
WriteLTXFileUnchecked(h, s) ==
  /\ At(h, s, "tx", "check")
  /\ req' = Moved(h, s, "apply", 0)
  /\ UNCHANGED <<primary, rest>>

\* Server.handlePostTx: DB.WriteLTXFileAt, then DB.ApplyLTXNoLock.  Neither asks for
\* the halt lock or takes the write lock.
WriteLTXFileAt(h, s) ==
  /\ At(h, s, "tx", "check")
  /\ IF PreApply(req[h][s].pos) = ppos
       THEN req' = Moved(h, s, "apply", 0)
       ELSE Answer(h, s, "fail", <<>>)
  /\ UNCHANGED <<primary, rest>>

ApplyForwarded(h, s) ==
  /\ At(h, s, "tx", "apply")
  /\ ppos' = req[h][s].pos
  /\ had' = had \cup {ppos'}
  /\ Answer(h, s, "ok", req[h][s].pos)
  /\ UNCHANGED <<pbase, wlock, halt, guards, monitor, rest>>

-----------------------------------------------------------------------------
(* A handle of the lock file: LockHandle.lockWaitHalt and unlockHalt       *)

Goto(u, to) == pc' = [pc EXCEPT ![u] = to]

\* AcquireRemoteHaltLock asks the primary for the lock.
LockWait(h, s) ==
  /\ pc[h] = "idle"
  /\ Send(h, s, "halt", "try", <<>>)
  /\ Goto(h, "post")
  /\ UNCHANGED <<primary, loaded, target, replica, streams, txs, breaks>>

\* The remote lock is stored before the replica has caught up.
LockGranted(h, s) ==
  /\ pc[h] = "post" /\ Done(h, s, "halt", "ok")
  /\ remote' = [remote EXCEPT ![Home[h]] = h]
  /\ target' = [target EXCEPT ![h] = req[h][s].pos]
  /\ req' = [req EXCEPT ![h][s] = None]
  /\ Goto(h, "waitpos")
  /\ UNCHANGED <<primary, loaded, rpos, rlock, rtx, built, streams, txs, breaks>>

LockRefused(h, s) ==
  /\ pc[h] = "post" /\ Done(h, s, "halt", "fail")
  /\ req' = [req EXCEPT ![h][s] = None]
  /\ Goto(h, "idle")
  /\ UNCHANGED <<primary, loaded, target, replica, streams, txs, breaks>>

WaitPosExact(h) ==
  /\ pc[h] = "waitpos"
  /\ rpos[Home[h]] = target[h]
  /\ Goto(h, "held")
  /\ target' = [target EXCEPT ![h] = <<>>]
  /\ UNCHANGED <<primary, req, loaded, replica, streams, txs, breaks>>

\* The position was passed or has another checksum: the lock is given back, but not
\* the reference in remote.
WaitPosFails(h, s) ==
  /\ pc[h] = "waitpos"
  /\ Len(rpos[Home[h]]) >= Len(target[h]) /\ rpos[Home[h]] # target[h]
  /\ Send(h, s, "unhalt", "load", <<>>)
  /\ Goto(h, "abort")
  /\ target' = [target EXCEPT ![h] = <<>>]
  /\ UNCHANGED <<primary, loaded, replica, streams, txs, breaks>>

\* Unlock of the byte, or a closed file.
UnlockHalt(h) ==
  /\ pc[h] \in {"held", "stale"}
  /\ IF remote[Home[h]] = h
       THEN Goto(h, "recover") /\ loaded' = [loaded EXCEPT ![h] = h]
       ELSE Goto(h, "delete") /\ UNCHANGED loaded
  /\ UNCHANGED <<primary, req, target, replica, streams, txs, breaks>>

\* UnsetRemoteHaltLock, called for a handle or by processLTXStreamFrame: Recover
\* takes the write lock and releases it; then the reference is cleared.
Recover(u) ==
  /\ pc[u] = "recover"
  /\ rlock[NodeOf(u)] = None
  /\ Goto(u, "clear")
  /\ UNCHANGED <<primary, req, loaded, target, replica, streams, txs, breaks>>

ClearRemote(u) ==
  /\ pc[u] = "clear"
  /\ remote' = [remote EXCEPT ![NodeOf(u)] = IF @ = loaded[u] THEN None ELSE @]
  /\ loaded' = [loaded EXCEPT ![u] = None]
  /\ Goto(u, IF u \in Handle THEN "delete" ELSE "frame")
  /\ UNCHANGED <<primary, req, target, rpos, rlock, rtx, built, streams, txs, breaks>>

DeleteHalt(h, s) ==
  /\ pc[h] = "delete"
  /\ Send(h, s, "unhalt", "load", <<>>)
  /\ Goto(h, "deleting")
  /\ UNCHANGED <<primary, loaded, target, replica, streams, txs, breaks>>

HaltDeleted(h, s) ==
  /\ pc[h] \in {"deleting", "abort"} /\ Done(h, s, "unhalt", "ok")
  /\ req' = [req EXCEPT ![h][s] = None]
  /\ Goto(h, "idle")
  /\ UNCHANGED <<primary, loaded, target, replica, streams, txs, breaks>>

\* The FUSE call is interrupted, or its request fails.  After a wait for the position
\* the release is sent with the canceled context, so it is not sent.  An interrupted
\* unlock leaves LockHandle.haltLock set ("stale"); a failed one does not.
Interrupt(h) ==
  /\ \/ pc[h] = "post" /\ Goto(h, "idle") /\ \E s \in Slot : GiveUp(h, s, "halt")
     \/ pc[h] = "waitpos" /\ Goto(h, "idle") /\ UNCHANGED req
     \/ pc[h] = "abort" /\ Goto(h, "idle") /\ \E s \in Slot : GiveUp(h, s, "unhalt")
     \/ pc[h] = "recover" /\ Goto(h, "stale") /\ UNCHANGED req
     \/ /\ pc[h] = "deleting"
        /\ \E to \in {"idle", "stale"} : Goto(h, to)
        /\ \E s \in Slot : GiveUp(h, s, "unhalt")
  /\ breaks < MaxBreak /\ breaks' = breaks + 1
  /\ loaded' = [loaded EXCEPT ![h] = None]
  /\ target' = [target EXCEPT ![h] = <<>>]
  /\ UNCHANGED <<primary, replica, streams, txs>>

-----------------------------------------------------------------------------
(* A transaction on a replica                                              *)

Transaction(r, lock, tx) ==
  /\ rlock' = [rlock EXCEPT ![r] = lock]
  /\ rtx' = [rtx EXCEPT ![r] = tx]

\* DB.Writeable: the node holds a remote halt lock.
BeginTx(h) ==
  LET r == Home[h] IN
  /\ rlock[r] = None /\ remote[r] # None
  /\ txs < MaxTx
  /\ Transaction(r, h, "open")
  /\ UNCHANGED <<primary, req, pc, loaded, target, rpos, remote, built, streams, txs, breaks>>

RollbackTx(h) ==
  /\ rlock[Home[h]] = h /\ rtx[Home[h]] = "open"
  /\ Transaction(Home[h], None, "none")
  /\ UNCHANGED <<primary, req, pc, loaded, target, rpos, remote, built, streams, txs, breaks>>

\* DB.CommitJournal asks Writeable and writes the LTX file.
CommitJournal(h) ==
  LET r == Home[h] IN
  /\ rlock[r] = h /\ rtx[r] = "open"
  /\ txs < MaxTx /\ txs' = txs + 1
  /\ IF remote[r] # None
       THEN /\ Transaction(r, h, "built")
            /\ built' = [built EXCEPT ![r] = Append(rpos[r], [n |-> txs', by |-> r])]
       ELSE Transaction(r, None, "none") /\ UNCHANGED built
  /\ UNCHANGED <<primary, req, pc, loaded, target, rpos, remote, streams, breaks>>

\* Mutant of ForwardTx: the local commit comes before the forwarded one.
CommitThenForward(h, s) ==
  LET r == Home[h] IN
  /\ rlock[r] = h /\ rtx[r] = "built"
  /\ built' = [built EXCEPT ![r] = <<>>]
  /\ rpos' = [rpos EXCEPT ![r] = built[r]]
  /\ Send(h, s, "tx", "check", built[r])
  /\ Transaction(r, h, "sent")
  /\ UNCHANGED <<primary, pc, loaded, target, remote, streams, txs, breaks>>

\* If the remote lock is held the file goes to the primary first.
ForwardTx(h, s) ==
  LET r == Home[h] IN
  /\ rlock[r] = h /\ rtx[r] = "built"
  /\ built' = [built EXCEPT ![r] = <<>>]
  /\ IF remote[r] # None
       THEN Send(h, s, "tx", "check", built[r]) /\ Transaction(r, h, "sent") /\ UNCHANGED rpos
       ELSE UNCHANGED req /\ Transaction(r, None, "none")
            /\ rpos' = [rpos EXCEPT ![r] = built[r]]
  /\ UNCHANGED <<primary, pc, loaded, target, remote, streams, txs, breaks>>

TxAccepted(h, s) ==
  LET r == Home[h] IN
  /\ rlock[r] = h /\ rtx[r] = "sent" /\ Done(h, s, "tx", "ok")
  /\ rpos' = [rpos EXCEPT ![r] = req[h][s].pos]
  /\ req' = [req EXCEPT ![h][s] = None]
  /\ Transaction(r, None, "none")
  /\ UNCHANGED <<primary, pc, loaded, target, remote, built, streams, txs, breaks>>

\* The commit fails and SQLite rolls the transaction back.
TxRejected(h, s) ==
  LET r == Home[h] IN
  /\ rlock[r] = h /\ rtx[r] = "sent"
  /\ \/ Done(h, s, "tx", "fail") /\ req' = [req EXCEPT ![h][s] = None] /\ UNCHANGED breaks
     \/ GiveUp(h, s, "tx") /\ breaks < MaxBreak /\ breaks' = breaks + 1
  /\ Transaction(r, None, "none")
  /\ UNCHANGED <<primary, pc, loaded, target, rpos, remote, built, streams, txs>>

-----------------------------------------------------------------------------
(* The stream of a replica: Store.processLTXStreamFrame                    *)

ReceiveFrame(r) ==
  /\ pc[r] = "idle" /\ sent[r] < Len(ppos)
  /\ sent' = [sent EXCEPT ![r] = @ + 1]
  /\ frame' = [frame EXCEPT ![r] = SubSeq(ppos, 1, sent[r] + 1)]
  /\ Goto(r, "lock")
  /\ UNCHANGED <<primary, req, loaded, target, replica, txs, breaks>>

LockFrame(r) ==
  /\ pc[r] = "lock" /\ rlock[r] = None
  /\ rlock' = [rlock EXCEPT ![r] = "stream"]
  /\ Goto(r, "frame")
  /\ UNCHANGED <<primary, req, loaded, target, rpos, remote, rtx, built, streams, txs, breaks>>

Own(r) == Last(frame[r]).by = r

FrameDone(r) ==
  /\ pc[r] = "frame"
  /\ rlock' = [rlock EXCEPT ![r] = None]
  /\ frame' = [frame EXCEPT ![r] = <<>>]
  /\ Goto(r, "idle")
  /\ UNCHANGED <<primary, req, loaded, target, remote, rtx, built, txs, breaks>>

\* A transaction that this node created is taken for one that it has.
SkipFrame(r) ==
  /\ FrameDone(r)
  /\ Own(r)
  /\ UNCHANGED <<rpos, sent>>

\* A frame for a node with a remote halt lock: UnsetRemoteHaltLock is called with the
\* write lock held.
UnhaltForFrame(r) ==
  /\ pc[r] = "frame" /\ ~Own(r)
  /\ remote[r] # None
  /\ loaded' = [loaded EXCEPT ![r] = remote[r]]
  /\ Goto(r, "recover")
  /\ UNCHANGED <<primary, req, target, replica, streams, txs, breaks>>

ApplyFrame(r) ==
  /\ FrameDone(r)
  /\ ~Own(r) /\ remote[r] = None
  /\ PreApply(frame[r]) = rpos[r]
  /\ rpos' = [rpos EXCEPT ![r] = frame[r]]
  /\ UNCHANGED sent

\* Position mismatch: the stream ends, and the next one begins at the true position.
RejectFrame(r) ==
  /\ FrameDone(r)
  /\ ~Own(r) /\ remote[r] = None
  /\ PreApply(frame[r]) # rpos[r]
  /\ sent' = [sent EXCEPT ![r] = Len(rpos[r])]
  /\ UNCHANGED rpos

-----------------------------------------------------------------------------
MonitorStep == ExpireLoad \/ ExpireSwap \/ ExpireUnlock

HandlerStep(h, s) ==
  \/ HaltAlreadyAcquired(h, s) \/ AcquireHaltWriteLock(h, s)
  \/ AcquireHaltFails(h, s) \/ RecoveryFails(h, s) \/ StoreHaltLock(h, s)
  \/ ReleaseHaltLoad(h, s) \/ ReleaseHaltSwap(h, s) \/ ReleaseHaltUnlock(h, s)
  \/ WriteLTXFileAt(h, s) \/ ApplyForwarded(h, s)

Application ==
  \/ BeginLocal \/ CommitLocal \/ RollbackLocal
  \/ \E h \in Handle : BeginTx(h) \/ RollbackTx(h)

HandleStep(h) ==
  \/ WaitPosExact(h) \/ UnlockHalt(h) \/ CommitJournal(h)
  \/ \E s \in Slot :
       \/ LockGranted(h, s) \/ LockRefused(h, s) \/ WaitPosFails(h, s)
       \/ DeleteHalt(h, s) \/ HaltDeleted(h, s)
       \/ ForwardTx(h, s) \/ TxAccepted(h, s) \/ TxRejected(h, s)

StreamStep(r) ==
  \/ ReceiveFrame(r) \/ LockFrame(r) \/ SkipFrame(r) \/ UnhaltForFrame(r)
  \/ ApplyFrame(r) \/ RejectFrame(r)

UnsetStep(u) == Recover(u) \/ ClearRemote(u)

Next ==
  \/ MonitorStep
  \/ Application
  \/ \E h \in Handle :
       \/ HandleStep(h) \/ Interrupt(h)
       \/ \E s \in Slot : LockWait(h, s) \/ HandlerStep(h, s)
  \/ \E r \in Replica : StreamStep(r)
  \/ \E u \in Handle \cup Replica : UnsetStep(u)

Spec == Init /\ [][Next]_vars

\* Goroutines are scheduled, applications end their transactions, and the monitor of
\* halt locks keeps ticking.
Fairness ==
  /\ WF_vars(MonitorStep)
  /\ \A h \in Handle, s \in Slot : WF_vars(HandlerStep(h, s))
  /\ WF_vars(CommitLocal \/ RollbackLocal)
  /\ \A h \in Handle : WF_vars(HandleStep(h)) /\ WF_vars(RollbackTx(h))
  /\ \A r \in Replica : WF_vars(StreamStep(r))
  /\ \A u \in Handle \cup Replica : WF_vars(UnsetStep(u))

FairSpec == Spec /\ Fairness

-----------------------------------------------------------------------------
(* Properties                                                              *)

\* The types of the variables.
TypeOK ==
  /\ ppos \in Content /\ had \subseteq Content /\ pbase \in Content \cup {None}
  /\ wlock \in Guard \cup {None, App}
  /\ halt \in HaltRecord \cup {None}
  /\ guards \in 0 .. MaxGuard /\ txs \in 0 .. MaxTx /\ breaks \in 0 .. MaxBreak
  /\ monitor \in Expiry \cup {None}
  /\ req \in [Handle -> [Slot -> Request \cup {None}]]
  /\ pc \in [Handle \cup Replica -> HandlePC \cup StreamPC]
  /\ \A h \in Handle : pc[h] \in HandlePC
  /\ \A r \in Replica : pc[r] \in StreamPC
  /\ loaded \in [Handle \cup Replica -> Handle \cup {None}]
  /\ target \in [Handle -> Content]
  /\ rpos \in [Replica -> Content] /\ remote \in [Replica -> Handle \cup {None}]
  /\ rlock \in [Replica -> Handle \cup {None, "stream"}]
  /\ rtx \in [Replica -> {"none", "open", "built", "sent"}]
  /\ built \in [Replica -> Content]
  /\ sent \in [Replica -> Nat] /\ frame \in [Replica -> Content]

\* Nobody commits on top of a content it did not read: the position of the primary
\* does not move under a local transaction, nor under a forwarded one between its
\* check and its application.  A commit that needs the halt lock (Client.Commit) keeps
\* this; handlePostTx does not ask for the lock.
NoLostUpdate ==
  /\ wlock = App => pbase = ppos
  /\ \A h \in Handle, s \in Slot : At(h, s, "tx", "apply") => PreApply(req[h][s].pos) = ppos

\* While a handle works under its halt lock, the primary takes that lock away for two
\* reasons only: the monitor finds that very lock expired, or a release that the handle
\* itself gave up earlier runs late.  Retries, locks and releases of other handles and a
\* monitor that loaded an earlier lock all leave it.
OnlyExpiredOrGivenUp ==
  \A h \in Handle :
    pc[h] = "held" /\ halt # None /\ halt.id = h /\ halt' # halt =>
      \/ monitor # None /\ monitor.st = "cas" /\ monitor.g = halt.g
      \/ \E s \in Slot : At(h, s, "unhalt", "cas") /\ ~req[h][s].live /\ req[h][s].g = halt.g

HaltTaken == [][OnlyExpiredOrGivenUp]_vars

\* A replica that changes its content takes one that its primary has had, whatever
\* became of locks, requests and updates: a forwarded transaction is kept only after the
\* primary applied it, a frame may come late but is never of the primary's future.  The
\* exception is the commit that finds the remote lock gone when it is about to forward.
OnlyWhatPrimaryHad ==
  \A r \in Replica :
    rpos'[r] # rpos[r] => rpos'[r] \in had \/ (rtx[r] = "built" /\ remote[r] = None)

KeptOnceForwarded == [][OnlyWhatPrimaryHad]_vars

\* What the primary takes rests on a content that it has had: a transaction that a replica
\* committed for itself never comes along with the next one that it forwards, although
\* locks are granted again and nobody asks for them.
BaseWasHad == ppos' # ppos => PreApply(ppos') \in had

BuildsOnWhatItHad == [][BaseWasHad]_vars

\* Locks of the database and halt locks go together: a halt lock never lacks its
\* guards; who gets the write lock for a new halt lock finds no old one ("There
\* shouldn't be an existing halt lock"); and a guard set that locks the database is that
\* of the halt lock or on its way to be stored or unlocked, so that the primary cannot
\* stay halted by a lock that neither a release nor the monitor finds.
HaltHasGuards ==
  /\ halt # None => wlock = halt.g
  /\ \A h \in Handle, s \in Slot : At(h, s, "halt", "got") => halt = None
  /\ wlock \in Guard =>
       \/ halt # None
       \/ monitor # None /\ monitor.st = "unlock" /\ monitor.g = wlock
       \/ \E h \in Handle, s \in Slot :
            /\ At(h, s, "halt", "got") \/ At(h, s, "unhalt", "unlock")
            /\ req[h][s].g = wlock

\* processLTXStreamFrame gets past the remote halt lock that it clears.
FrameUnhalts == \A r \in Replica : (pc[r] = "recover") ~> (pc[r] # "recover")
=============================================================================
