# LiteFS: TLA+ specifications and proofs

LiteFS is a FUSE file system that replicates SQLite databases. One node of a
cluster holds a lease and is the *primary*; applications write there. Every
transaction becomes an LTX file (the pages it changed, the checksum of the
database before and after). Replicas stream LTX files from the primary and apply
them. This directory models the parts of the program that carry that promise,
checks them with TLC on small instances and proves the central invariants with
TLAPS for every instance.

## The system and its parts

| Part | Source | State | Operations | What is hard |
|---|---|---|---|---|
| RWMutex | `rwmutex.go` | reader count, exclusive guard, state of each guard | TryLock, TryRLock, Lock, RLock (polling), Unlock, CanLock, CanRLock | upgrades and downgrades; a query must answer what the call would |
| Lease and store | `store.go`, `lease.go`, `consul/` | isPrimary, primaryInfo, ready, the databases, subscribers | monitorLease and its two loops, Demote, CreateDB, DropDB, retention, MarkDirty | leases lost unnoticed, demotion at any moment, notifications that coalesce |
| Stream server | `http/server.go` | per stream: posMap, dirty set, notification, context | handlePostStream, streamDB, streamLTX, snapshots | bookkeeping of a remote position, databases dropped and created under a handler |
| Replica | `store.go` (processLTXStreamFrame), `db.go` (ApplyLTX) | position, LTX files, database file | check position, store file, remove others after a snapshot, apply, verify | crashes between the steps; histories that diverged |
| Rollback-journal transactions | `db.go`, `fuse/journal_node.go`, `fuse/database_node.go` | database file, journal, dirty pages, page checksums, page count, position | file operations of SQLite, CommitJournal, rollbackJournal, Open | power loss at every step, hot journals after a demotion, growing and shrinking files |
| WAL transactions | `db.go`, `litefs.go`, `fuse/wal_node.go`, `fuse/shm_node.go` | WAL position, salts, frame offsets, WAL checksums | WriteWALAt, CommitWAL, checkpoint, syncWALToLTX | WAL ahead of or behind the LTX files after a crash; commits after a demotion |
| SQLite locks | `db.go`, `litefs.go`, `fuse/*_node.go` | twelve mutexes and one guard set per owner | TryLocks, TryRLocks, Unlock, TryAcquireWriteLock | several locks taken one by one; journal and WAL modes at once |
| Halt lock | `db.go`, `http/`, `fuse/lock_node.go` | halt lock and guards on the primary, remote halt lock on the replica | acquire, release, expire, forwarded commits | expiry against a late commit; a lock waiting for itself |
| Proxy | `http/proxy_server.go` | none of its own (a cookie with a TXID) | serveGet, serveNonGet | waiting for a position with a timeout |
| Adapters | `fuse/file_system.go`, `fuse/root_node.go`, `internal/`, `cmd/` | caches of nodes | FUSE calls, start-up, chunked encoding | none of the protocol's own |

How they interact: SQLite calls the file operations of a `DB` through FUSE, holding
locks that are `RWMutex` guards. A commit writes an LTX file, sets the position and
calls `Store.MarkDirty`, which notifies the subscribers, one per stream handler. A
handler compares the position of the database with the one it keeps for its replica
and sends files or a snapshot. The replica's loop takes the write lock of the database
and applies them. The lease loop starts and ends both roles; `Store.Recover` runs
between two rounds.

## Modules

| Module | Models | Notes |
|---|---|---|
| `RWMutexOps` | the methods of `RWMutex` as operators on a mutex value | reused by every later module that locks |
| `PosixLock` | abstract specification: owners of one POSIX byte lock | what SQLite expects of a lock |
| `RWMutex` | guards calling the methods; Lock and RLock poll | refines `PosixLock` |
| `RWMutexOpsProofs` | what each method does to a consistent mutex | lemmas for `RWMutexProofs` and `DBLocksProofs` |
| `RWMutexProofs` | proofs about `RWMutex` | |
| `Replication` | lease loop, stream server, replica, LTX files of one database on all nodes | one action per step of the code between which another actor, a crash or a broken connection can come |
| `ReplicationProofs` | proofs about `Replication` | |
| `MCReplication` | instances and starting states of `Replication` | |
| `Pages` | a database as a file of pages, and what an LTX file does to it | shared by `Journal` and `WAL` |
| `Journal` | rollback-journal transactions and recovery on one node, page by page | power losses; composes commit, demotion, recovery and received files |
| `JournalProofs` | proofs about `Journal` | |
| `MCJournal` | instances of `Journal` | |
| `WAL` | write-ahead-log transactions, checkpoints and recovery on one node | power losses; a writer and a checkpointing client beside each other |
| `WALProofs` | proofs about `WAL` | |
| `MCWAL` | instances of `WAL` | |
| `HaltLock` | the halt lock of one database on the primary and on its replicas, forwarded transactions, the stream of a replica meanwhile | every HTTP exchange in its steps, with interrupted calls and lost answers |
| `HaltLockProofs` | proofs about `HaltLock` | |
| `MCHaltLock` | instances of `HaltLock` | |
| `DBLocks` | the twelve locks of a database, SQLite processes, the write lock and Export | composes one `RWMutexOps` mutex per lock; both journal modes |
| `DBLocksProofs` | proofs about `DBLocks` | |
| `MCDBLocks` | instances of `DBLocks` | |
| `Proxy` | the HTTP proxies of all nodes and the TXID cookie | |
| `ProxyProofs` | proofs about `Proxy` | |
| `MCProxy` | instances of `Proxy` | |

### Replication

The content of a database is the sequence of transactions that made it; a position
(`Pos`: TXID and checksum) is that sequence, its TXID the length. Two databases with
equal TXID and different content therefore have different checksums, which is what
the checksum is for. `pages` is the set of contents the database file has pages of; it
has more than one element only while a received file is being applied. An LTX file
has its name (MinTXID, and MaxTXID as a length), the content after it and the node that
created it; a file that starts at TXID 1 is a snapshot.

`step[n]` is the holder of the database's write lock on node n: a commit
(`CommitLTX`, `CommitDone`, `Notify`) or a received file (`RenameLTX`, `RemoveFile` per
file, `WritePages`, `VerifyPages`, `Notify`). `conn[n]` is the stream by which n
replicates, with both ends: the handler's `phase` runs through `Lookup`, `Check`,
`SendLTX`/`SendSnapshot`/`SendDrop`, `SendReady`, `Wake`, `TakeDirtySet`, `SendEnd`; the frames
under way are `q`. A handler that holds a DB object that DropDB removed keeps its old
position in `gone`. `LeaseExpire` is Consul dropping a session; the holder learns of it
in `StepDown`, so two nodes can act as primary for a while. `Crash` loses everything in
memory; `Restart` is DB.Open: it applies the file maxLTXFile chooses and does not
happen when the checksum would not match.

Abstractions: one database; frames in flight bounded by `QueueCap`; DropDB removes the
files in one step; a local commit changes the pages in one step (Journal shows that it
recovers to the old or the new content from any point); writes are those of a
rollback-journal transaction, which checks Writeable.

### Journal

A page holds the number of the transaction that wrote it and the database size that
transaction chose, which is all the program reads of it; checksums are the pages
themselves. `disk` and `jdisk` are the values a power loss may leave: a write adds one, an
fsync leaves one. A process crash is the power loss that happens to keep the newest.
SQLite is external: it journals a page before it writes it, syncs in between (more
than once when its cache spills), writes every page it adds to the file, and rolls
back by playing the journal. `ClientEnds` is a client that dies, or that is refused
because the node was demoted: the journal stays hot. `CommitLTX`, `CommitSync`, `CommitInvalidate`,
`CommitPos` are CommitJournal; `RollbackPages`, `RollbackTruncate`, `RollbackRemove` are
rollbackJournal, in Store.Recover or in Open; then `InitDatabaseFile`, `ApplyPages`, `ApplyVerify`.
A rollback whose journal has a valid header is committed as a transaction without
change, as the code does.

`OrderedMetadata` says whether the file system below keeps directory operations in
order with file syncs (ext4, xfs) or only gives what POSIX promises.

Abstractions: page size known (a database that exists); no forwarding of commits; LTX
files are not removed here (Replication has retention).

### WAL

The log is its salt, the frames that a reader takes for valid since the header, and the
length of the file; the chained checksums of the frames make the valid ones a prefix, so
a power loss leaves one of the logs written since the last fsync (`wdisk`). `index` is the
wal-index of SQLite: the end of the log, how much of it is in the database, the page
count, the salts. `dbw` is `DB.wal`: what LiteFS keeps for itself about the same log. A writer
goes through `BeginWrite`, `WriteWALHeader` (when the log is empty or restarted), `WriteWALFrame`
per page, `WriteSHM`; releasing the WRITE lock is CommitWAL (`CommitSync`, `CommitWAL`), also for a
writer that ended without a transaction (`ClientEnds`). A checkpointing client goes through
`LockCkpt`, `BeginCheckpoint`, `CopyPage` per page, `EndCheckpoint`, possibly stopping short of the
end for a reader, and may truncate or remove the log (`TruncateWAL`). `CheckpointPages`,
`CheckpointResize`, `CheckpointReset` are CheckpointNoLock, in Store.Recover or in Open; `Open`
includes syncWALToLTX.

Import (`ImportStart`, `ImportToLTX`, then `ApplyPages` and `ApplyVerify` as for a received file) holds
the write lock: it truncates the log first, reads the upload into an LTX file and applies that.

`Clients` says what clients may do, or meet, besides working one by one on a machine with
room: `"passive"`, a checkpoint that already has its lock goes on while another connection
writes; `"salts"`, a connection that has restarted a log before (SQLite then has a
checkpoint counter above zero) writes the header of an empty log with the salts it finds in
the wal-index; `"unpublished"`, a client dies between its last frame and the wal-index;
`"nospace"`, CommitWAL may fail when it writes the LTX file; `"torn"`, an upload breaks off, or the
power fails during an import.

Abstractions: the database is in WAL mode; a transaction writes each of its pages once,
all pages it adds among them; an import uploads a database in WAL mode; removing the log is the
same as truncating it; the file system keeps metadata in order, as in run `journal`.

### HaltLock

A handle of the lock file of a replica asks the primary for its halt lock (`LockWait`; at the
primary `AcquireHaltWriteLock` and `StoreHaltLock`, or `HaltAlreadyAcquired` for a retry), stores it
(`LockGranted`), waits until the replica is where the primary stood (`WaitPosExact`) and then
writes: `BeginTx`, `CommitJournal`, `ForwardTx`; at the primary `WriteLTXFileAt` compares the position
and `ApplyForwarded` applies the file; `TxAccepted` commits on the replica. `UnlockHalt`, `Recover`,
`ClearRemote`, `DeleteHalt` give the lock back, `ReleaseHaltLoad`, `ReleaseHaltSwap`, `ReleaseHaltUnlock` are
that release at the primary and `ExpireLoad`, `ExpireSwap`, `ExpireUnlock` the monitor's: the halt
lock is an atomic value and its guards are unlocked after it is cleared, so these are steps of
their own. `req` has the requests of each handle; a client may give one up (`Interrupt`, `TxRejected`) and
the handler goes on with it. `ReceiveFrame` to `RejectFrame` are processLTXStreamFrame, which meets
transactions of its own node and the remote halt lock.

Nothing keeps processes, requests and locks in step beyond what the code does: a lock may
expire at any time after it was loaded by the monitor, under a process that works with it too
(EnforceHaltLockExpiration goes by time alone); a request that was given up is handled at any later time,
beside the next ones of its handle; any process of a node with a remote lock may write there (`Writeable` is
node-wide); WaitPosExact does not ask whether the lock is still there. `RecoveryFails` is the
error return of AcquireHaltLock after it has the write lock; the compare-and-swap that
follows cannot conflict, by `HaltHasGuards`. `had` is a history variable: the contents the primary has had.

Abstractions: the primary does not change; the write lock is one lock (DBLocks has its
parts); a frame is one transaction; transactions are those of a rollback journal; the
application that gets the lock on the primary itself (ErrNoHaltPrimary) takes no part.

### DBLocks

`lk` has a `RWMutexOps` mutex for each lock, and every request is a step on one of them. `got` is
what a SQLite process believes to hold: SQLite is external, and `Asks` and `Ranges` are the
requests its locking protocol may issue next in each journal mode. A request for a range takes its
locks one by one (`TakeNext`), as TryLocks and TryRLocks do, and leaves the ones it took when a
later one is refused (`TryLocksRefused`). A write lock is `AcquireWriteLock`, `WriteMode`, `WriteStep` per lock,
then `ApplyLTX` or `CheckpointNoLock` and `ReleaseWriteLock`; `WriteBlocked` gives everything back. Export takes
its position under WRITE (`ExportSnapshot`) and then the locks under which it copies. `mode` is the
mode in memory and `file` the one in the header.

`Optional`: `"restart"`, SQLite asks for READ1 and above in one exclusive request to restart the
log; `"leave"`, a received transaction leaves the WAL mode.

Abstractions: the content is the last transaction known and the last one in the
database file; three READ locks stand for five (they are treated alike, READ0 excepted);
RECOVER is taken by LiteFS only; FUSE flushes the database file before the wal-index.

### Proxy

A request goes from its client to the proxy of some node. A GET waits there (`ServeGetWait`, `PollReady`,
`PollTimeout`) until the node has the transaction of the client's cookie; another method goes
to the primary by way of `fly-replay` (`ServeNonGetReplay`) and its answer carries the position of the
node that served it (`SetCookie`). `acked` is a history variable: the transactions a client
was told of since its cookie last went back. It goes back when two answers arrive in the
other order, or when a node that knows of no primary answers a POST with its own, lower
position; the code does not prevent either.

Abstractions: the application, the router and replication are external; a failover loses no
transaction (Replication has those that do: a TXID then no longer names one
transaction, and the cookie has no checksum).

## Runs

| Run | Instance | Checks | Result |
|---|---|---|---|
| `rwmutex` | 3 guards | assertions, queries, refinement of `PosixLock`, polling returns | passes |
| `replication` | 3 nodes started again in `RegressedInit` or `BrokenInit`, 1 to 3 more transactions, 1 or 2 leases, a crash, an unnoticed expiry, a drop, a cut or a retention run | `TypeOK`, `PosMatchesContent`, `ServerTracksReplica`, `NoLostWakeup`, `Converges` | passes |
| `replication_retention` | 2 nodes, 3 transactions, 2 leases, 1 crash, 1 retention run | `Recoverable` | violated |
| `journal` | 2 pages, 3 transactions, 1 demotion, 2 power losses | `TypeOK`, `OpenSucceeds`, `LTXChain`, `ReadersSeePos`, `CommitNeverRefused` | passes |
| `wal` | 2 pages, 3 transactions (imports among them), 1 demotion, 2 power losses, no `Clients` | `TypeOK`, `OpenSucceeds`, `LTXChain`, `ReadersSeePos`, `CommitNeverRefused`, `SameEnd` | passes |
| `wal_passive` | 2 pages, 2 transactions, 1 power loss, `"passive"` | `OpenSucceeds` | violated |
| `halt` | 1 replica, 2 handles, 2 requests per handle, 1 interruption; 1 lock and 2 transactions, 2 locks and 1 transaction, or 3 locks | `TypeOK`, `HaltHasGuards`, `HaltTaken`, `KeptOnceForwarded`, `BuildsOnWhatItHad` | passes |
| `halt_commit` | 1 replica, 1 handle, 1 lock, 2 transactions | `NoLostUpdate` | violated |
| `halt_frame` | 1 replica, 1 handle, 1 transaction | `FrameUnhalts` | violated |
| `dblocks` | 2 processes, 1 write lock, 1 export, 1 transaction, `"restart"` | `TypeOK`, `WriteLockExcludes`, `BeliefHolds`, `ClosedMeansFree`, `AppropriateLocks`, `ExportStable` | passes |
| `dblocks_mode` | 1 process, 1 write lock, 1 transaction, `"leave"` | `AppropriateLocks` | violated |
| `proxy` | 2 nodes, 1 client with 2 requests at once, 2 transactions, 1 outage or failover | `TypeOK`, `ReadYourWrites`, `Answered` | passes |

Bounds. The environment's events (transactions, leases granted, unnoticed expiries,
crashes, cut connections, drops, retention runs) are budgets, so every run is finite
and ends when they are spent; that is why deadlock is not checked in `Replication`, `Journal`, `WAL` and
`HaltLock`. In `DBLocks` and `Proxy` processes, calls and requests start over, so it is checked: no
order of lock requests leaves everyone waiting.

Run `replication` starts from the two states in which a node does not converge, because
they take three leases and many steps to reach (`Spec` reaches both). In `RegressedInit` the primary and one
replica lack a transaction that the other has, and its author is the replica that lost it: it follows the
wrong history, is sent its own transaction, skips it, and rejects the next one. In
`BrokenInit` one node cannot open, and the other two start from nothing: what happens there is what two nodes
do under two leases, with three transactions, or two with an expiry or retention, or one with a drop and a cut or a
crash and an expiry. That is enough for histories that diverge, a snapshot over one of them and a
transaction after. `Converges` says which nodes end
with the primary's database; the two it excepts are in the run, so it is
not the bounds that keep them out.

Two pages are enough for a database that grows, shrinks, is
journalled in two segments and is torn by a power loss; the third transaction lets a
journal of the first outlive two others. (With three pages, three transactions and
one power loss, 5.6 million states, `journal` passes as well.) The same bounds in `wal` give a log that is
restarted twice, cut, and outlived by a checkpoint; all its properties but `OpenSucceeds` hold with `"passive"` and
`"salts"` too (proved, see "Proofs"). Two handles, two requests
each and one interruption are enough for a request that was given up and its retry at the
primary at once, beside another handle that waits, and for an expiry between them; the third lock
lets a handle meet two locks that were taken away from it, and two transactions under one lock are
what it takes for one to be lost to the other. All of these at once are too many states, so `halt` starts
after some locks and transactions were used up and given back (`UsedInit`, whose states `Spec` reaches). In
`dblocks` one transaction is enough, since the locks depend on the journal mode and not on the
content; with two (1.4 million states) it passes as well. Two requests of one client are what
it takes for answers out of order.

Fairness (`FairSpec` of Replication): handlers, replicas and commits go on while they can
(goroutines are scheduled); the loop of monitorLease retries; a crashed process is
started again; Consul drops a session nobody renews; a primary whose lease is gone
learns it at its next renewal. Nothing is assumed of applications, and `Converges` only
speaks of executions where one node ends up keeping the lease. `RWMutex`: the ticker of a
polling goroutine keeps firing. `HaltLock`: goroutines and the halt-lock monitor run, and applications end their
transactions; nobody has to ask for a lock. `Proxy`: the proxies, their timers and the target run;
nothing is assumed of replication, so a read may have to time out. A step that may fail (a
timeout, a refused lock) is in the same fair action as the one that succeeds.

### What the violated runs show

* `wal_passive`: "This ensures that no checkpoint can occur while a WAL write is
  in-progress" (`db.go:2800`). CKPT is refused while another connection holds WRITE, but WRITE
  is not refused while another holds CKPT. The checkpoint then copies pages that the
  writer has published and that no LTX file has; after a power loss syncWALToLTX cuts
  them from the log, they stay in the database, and Open fails its checksum.
* `replication_retention`: "Ensure the latest LTX file is not removed" (`db.go:3110`). `EnforceRetention` keeps
  the last file by name. A crash after the rename of a
  snapshot `1-2` and before `removeFilesExcept` finishes leaves a stale `2-2`, which sorts last.
  Restart chooses the snapshot, rightly; retention then removes it, and the next Open
  applies the stale file and fails, as does every later one.
* `halt_commit`: "Must be holding the halt lock to be successful" (`litefs.go:179`, of Client.Commit), and of a
  dead lock, "then the next commit will simply be rejected" (`db.go:339`). handlePostTx asks for no lock
  ("TODO(fwd): Ensure halt lock is held by caller", `http/server.go:326`); WriteLTXFileAt compares the position,
  but nothing holds that position until ApplyLTXNoLock. The lock expires under its holder, an application on the primary
  begins to write, the forwarded file passes the comparison, the application commits, and the file
  is about to be applied over its transaction (14 states). A commit that was given up and is handled after
  the lock was released does the same.
* `halt_frame`: "If we receive an LTX file while holding the remote HALT lock then the remote
  lock must have expired or been released so we can clear it locally" (`store.go:868`).
  processLTXStreamFrame holds the write lock there; UnsetRemoteHaltLock calls Recover, which waits for it
  with another guard set. The lock need not even have expired: AcquireRemoteHaltLock stores it
  before it waits for the position, so a replica that lags behind receives the files it
  waits for while it has the lock, and stops at the first one.
* `dblocks_mode`: "AcquireWriteLock acquires the appropriate locks for a write depending on if the
  database uses a rollback journal or WAL" (`db.go:2624`). ApplyLTXNoLock sets `db.mode` to WAL but
  never back; after a transaction that leaves the WAL mode the replica writes under WAL locks and a
  shared SHARED, beside readers that hold SHARED only. `WriteLockExcludes` is violated as well.

### Further results

Instances that are not among the runs; each is one of the cfg files with the constants
named here.

* Snapshots without retention (`ReplicationRetention.cfg` with Tx = 4, Drops = 1, Reaps = 0): `Recoverable` is violated
  in 28 steps. The same crash leaves `1-2` and the stale
  `2-2`; after a drop on the primary the node receives a snapshot `1-1`, whose removal of the other
  files goes through the directory by name and takes `1-2` before `2-2`. Stopped
  there, Open finds `1-1` and `2-2` and applies the stale file. The proof of `StoppedNodesOpen` failed at this
  step before TLC was given four transactions.
* Skipped frames (run `replication`, from `RegressedInit`): "Skip frame if it already occurred on this node" (`store.go:855`) is decided by the author
  of the transaction. A node that lost its own transaction to the snapshot of a primary without
  it, and then follows a primary with it, skips it. The server counts it as applied; the
  next transaction is rejected, the replica reconnects with its true position and is sent
  the same file again. The properties of the run allow for it (`Skipped`); `Converges` without that exception
  is violated.
* POSIX directories (`Journal.cfg` with OrderedMetadata = FALSE, Tx = 2, Losses = 1): `OpenSucceeds` is violated. "Fsync is a no-op as
  directory sync is handled by the file" (`fuse/root_node.go:249`), but `SyncJournal` syncs the journal
  file only. Where the file system does not order metadata, a power loss can leave a
  torn database and no journal.
* Salts (`WAL.cfg` with `"salts"`, Losses = 1): `OpenSucceeds` is violated. "If WAL salt doesn't match the LTX
  WAL salt then the WAL has been restarted" (`db.go:838`), and matching salts are taken for the
  opposite. updateSHM keeps the salts of a log that CheckpointNoLock truncated; a client that
  continues with them after a demotion and a promotion starts a log that looks like the one
  of the last LTX file and is shorter than its offset.
* `WAL.cfg` with `"unpublished"` violates `SameEnd` and `ReadersSeePos` in 8 steps: UnlockSHM commits frames that the
  wal-index does not have, and the next writer, who does not see them, writes over them.
  With `"nospace"` the same happens from the other side: SQLite has committed and LiteFS has
  not. With `"torn"` an import that stops after TruncateWAL has taken away transactions
  that were only in the log: readers with the old wal-index look for frames that are gone, and
  after a power loss Open fails its checksum.
* A handle that works under its halt lock while the primary has it no more (`HaltLockCommit.cfg` with the invariant
  `pc[h] = "held" => halt # None /\ halt.id = h`): 8 states are enough, since the lock may expire before the replica has
  stored it. `HaltTaken` says by what it can be lost.
* A transaction that the primary never had (`HaltLockCommit.cfg` with `KeptOnceForwarded` without its exception): 12 states.
  UnsetRemoteHaltLock releases the write lock that Recover took before it clears the
  remote lock (`db.go:391`); a transaction that begins in between finds the lock gone when it is about to forward, and commits on the
  replica alone. `BuildsOnWhatItHad` says that the primary never takes it along with a later one.
* `DBLocks.cfg` with `ExportAtPos`: violated (25 steps). Between the release of WRITE and the locks on
  CKPT and READ a commit and a checkpoint may come, so the pages that Export copies may be
  newer than the position it returns. A range request that was refused keeps the READ
  locks it took until the process closes the wal-index (16 steps): SQLite does not
  know of them, other processes meet them.

## Proofs

Every theorem holds for all values of the constants under the assumptions named in the modules
(finite sets of guards, a budget of natural numbers, `None` outside the sets it is told apart
from). TLC evaluates those assumptions in the runs, and each inductive invariant was checked by TLC
before it was proved. In all proofs one lemma per action or group of actions says that a part of the
invariant is kept, and the theorem puts them together.

`RWMutexOpsProofs` and `RWMutexProofs`, for every finite set of guards. The inductive invariant is that the
reader count is the number of shared guards and the owner pointer is the exclusive
guard, if any (`Consistent`); one lemma per method says that it keeps this and that its
assertions hold; two lemmas about cardinalities carry the counting. From it: no
assertion fails, queries agree with calls, and each step is a step of `PosixLock` or
leaves the locks alone.

`ReplicationProofs`, for every set of nodes, every budget and every queue bound.
* `TypeCorrect` goes action by action.
* `PosIsContent`: `PosMatchesContent` is not inductive, for that the
  pages are those of the position after a file was verified depends on what the earlier
  steps of the writer established. `WriterConsistent` adds it: the file of a writer is in the
  directory; at "trim" it is a snapshot; at "apply" it is one or its pre-apply state is the
  position; at "verify" the pages are covered; a node without LTX files has an empty database.
* `NoWakeupIsLost`: `NoLostWakeup` speaks of a handler that waits, and what it waits for was settled up to
  six steps earlier. `StreamsAwake` says for each phase of a handler what has to be pending: a dirty
  name has its notification until the handler is woken; within streamDB the object exists or the name is
  dirty again; after it everything was sent, or the name is dirty, or a writer has still to notify.
* `StoppedNodesOpen`: `Recoverable` for every execution in which no process dies within removeFilesExcept
  (`CrashOutsideTrim`), with retention, drops and lost leases. `Directories` says which files a node
  may have: each is one transaction or a snapshot, they have the same order by name and by TXID, and the
  newest is that of the position or of the transaction being written; while a snapshot replaces the
  others, those that are left end at the position. `FramesNamed` says of frames under way that they are such files, and
  `SendsSomething` that a handler never sends an empty database. Without the hypothesis the statement is
  false (see "Further results").
* `ReplicasAreTracked`: `ServerTracksReplica` for every execution; the property itself is about the streams in which
  the replica has skipped no frame. `Tracks` follows the queue: `cpos` is the
  position after all of its frames, and each file in it is a snapshot of the server or follows the position after
  the frames before it; `Tracked` adds that a node with a connection is a replica of another node, which no commit,
  promotion or crash moves while the connection lasts.

`ProxyProofs`, for any number of nodes, clients and requests. `ReadYourWrites` needs that all databases are prefixes of
one history, none longer than the primary's (`OneHistory`), that a cookie covers what its client was told
of since it last went back (`CookieCovers`), and what a request has found out at each place on its way
(`RequestOK`): what a read sees is decided when it leaves the poll loop, by the TXID of an earlier answer.

`DBLocksProofs`, for any number of processes, write locks and exports.
* `LocksBelieved` and `LocksNothingLeft`: every mutex is consistent (the lemmas of `RWMutexOpsProofs`), and the guards
  of an owner are locked only as far as its place in the code says; what a process holds beyond what it believes,
  it got from a refused range, and it still has the wal-index open (`Beliefs`).
* `LocksExclude` and `LocksAppropriate`: each lock of the mode that a write lock has found is held or still to be taken
  (`WriterInv`), the mode cannot change under it, and the mode in memory is that of the file. They assume that no received transaction leaves the WAL mode
  (`"leave"`), where run `dblocks_mode` shows `AppropriateLocks` to fail.
* `LocksExportStable` is an action property: an export that copies has CKPT or SHARED, which exclude whoever changes the file.

`JournalProofs`, for databases of any size and any number of transactions, demotions and power losses.
* `JournalTypeCorrect`, `JournalLTXChain`, `JournalReadersSeePos` and `JournalCommitNeverRefused` hold on any disk: what a power loss leaves may be wrong, but
  then Open finds another checksum and the node does not run. Their invariant `Inv` relates the position to
  everything else at each place in the code. `Position`: it is a whole database, that of the newest LTX file unless that is being
  committed or applied. `JournalUndoes`: the journal has pages of the position, and the pages it
  does not have are in the file. `Transaction`: the pages a client writes were in no file before, so a page that has the
  new content was written under this transaction, and is dirty; this is why the types count the transactions begun. `Memory` and `Applying`: where checksums,
  dirty pages and file agree. That an LTX file is the whole change follows at CommitLTX: a page that is not dirty is
  the position's, and every page past the old end is dirty.
* `JournalOpenSucceeds` adds `OrderedMetadata`, without which it is false (see "Further results"). Its invariant `DiskInv` is about all states that a power loss may
  leave: each journal that may be found leads, from each value that each page may have, to the database of the newest
  LTX file, up to the pages which that file writes itself (`AllLead`). To keep this, a page is on the disk unless the journal holds it
  (`Durable`), and while pages are overwritten every journal that may be left holds the same ones (`Journaled`). The two places
  where the order of directory changes is used are SyncJournal, after which no state without the journal is left, and the fsync of
  a received file, after which the journal that a recovery removed cannot come back.

`WALProofs`, for databases of any size and any number of transactions, demotions and power losses. The lemmas at the start
say what the searches of the log find (the last frame of a page, the first and the last frame that ends a transaction).
* `WALTypeCorrect`, `WALLTXChain`, `WALReadersSeePos`, `WALSameEnd` and `WALCommitNeverRefused` hold of `Regular` clients: those that at most checkpoint
  beside a writer (`"passive"`) and keep the salts of the wal-index (`"salts"`). With each of the other `Clients` one of the five is false (see "Further
  results"). Their invariant `Inv` says where the database at the position is. `Ends`: SQLite and LiteFS have read the log to the same
  frame and no transaction ends after it (`Unpublished`), or there is one that SQLite has published and CommitWAL has not read (`Published`); this is the
  strengthening of `SameEnd`, which says nothing of the steps within CommitWAL. `Held`: the last frame of each page before
  that end is the page of the position, as are the pages of the file that are not in the log, and the checksums that CommitWAL takes from the log
  and from the file are those. A checkpoint may be under way: the file has the last version of every page but those
  it has yet to copy (`Behind`). `SaltsSeen` bounds all salts by the number of transactions, so that a new header does not revive old frames; with the
  salts of the wal-index it may, and `Unpublished` says that none of the revived frames ends a transaction.
* `WALOpenSucceeds` is about clients that work one by one (`Clients = {}`): `"passive"`, `"salts"` and `"torn"` each violate it (run `wal_passive` and "Further
  results"). Its invariant `DiskInv` is about every state of the log and of each page that a power loss may leave. `AllLead`: each
  log, copied to each file as far as the newest LTX file vouches for it, leads to the database of that LTX file, up to the pages that the
  file writes itself, and the header hides none of them. To keep this, every log that may be left has the last transaction (`Visible`) and agrees with the one in use up
  to its end (`Linked`); pages that are not in the log are synced, and before the log is restarted or truncated all are (`Durable`). `Opening` and
  `Checked` carry it through CheckpointNoLock and ApplyLTXNoLock in DB.Open, which the power may interrupt again.

`HaltLockProofs`, for any number of replicas, handles, requests and locks.
* `HaltTypeCorrect` and `HaltGuarded`. `GuardSets` adds where a guard set that a release or the
  monitor has read comes from: a swap succeeds only on the lock that was read, and once a lock is gone
  its guard set is never stored again.
* `HaltLockTaken`: a swap takes the lock of the handle that sent the release, so it has to be shown that the handle does
  not wait for one while it works under its lock (`Releases`).
* `HaltKeptOnceForwarded` and `HaltBuildsOnWhatItHad`: `Had` says that `had` holds the primary's position and is closed
  under prefixes, and that the frames on their way, the bases of the files that passed WriteLTXFileAt and the files that
  were accepted are in it. A replica's own content need not be.
* `NoLostUpdate` is false (run `halt_commit`), so no theorem has it.

Only model-checked:
* `Converges`, `PollReturns` and `Answered`: liveness, out of reach of the prover.

## Plan

Done: `RWMutex`, `Replication`, `Journal`, `WAL` with Import and its failures, `HaltLock`, `DBLocks`, `Proxy`,
and proofs about all of them: every invariant and every action property of a passing run is a theorem, under the
hypotheses named above, and `Recoverable`, which a run violates, is one under its hypothesis. What would come next: WAL commits that are
forwarded under a halt lock, a primary that changes under one, and the framing of streams.

## Not modelled

Adapters (FUSE nodes beyond the calls above, command line, metrics, tracing), the wire format of
frames, chunks and LTX files (messages and records here), the hash tables of the SHM file,
clocks (a lease or a halt lock may be lost at any time instead), the static leaser, which
has no state, the identity file of a store, a directory that DropDB has removed in part, and
halt locks across a change of the primary.
