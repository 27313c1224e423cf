---------------------------- MODULE Replication -----------------------------
(***************************************************************************)
(* Replication of one database between LiteFS nodes: the lease and replica *)
(* loops of store.go, the stream handler of http/server.go and the part of *)
(* db.go that keeps the position of a database and its LTX files.          *)
(*                                                                         *)
(* Data.  The content of a database is the history of transactions that    *)
(* made it, a sequence of transaction numbers.  A position (TXID and       *)
(* checksum) is that history: TXID is its length, and checksums differ     *)
(* where histories differ.  The pages of a database file that is being     *)
(* rewritten come from several histories, so `pages' is a set of them.     *)
(*                                                                         *)
(* Failures.  A node loses its lease without noticing, is demoted, crashes *)
(* between any two steps and restarts; connections break at any time.      *)
(***************************************************************************)
EXTENDS Integers, FiniteSets, Sequences, SequencesExt, FiniteSetsExt

CONSTANTS
  Node,       \* the nodes of the cluster, all candidates
  None,       \* no node, no connection, no object
  Budget,     \* how often each event of the environment happens: a bound
  QueueCap    \* frames in flight on one connection: a bound

Event == {"tx", "grant", "expire", "crash", "cut", "drop", "reap"}

ASSUME BudgetAssumption == Budget \in [Event -> Nat]
ASSUME NoneAssumption == None \notin Node /\ None \notin Seq(1 .. Budget["tx"])
ASSUME QueueAssumption == QueueCap \in Nat \ {0}

VARIABLES
  lease,      \* the node that holds the lease in Consul, or None
  up,         \* the nodes whose process runs
  isPrimary,  \* Store.isPrimary
  ready,      \* Store.readyCh is closed
  db,         \* Store.dbs[name] with the files of the database
  step,       \* the holder of the write lock of the database and its progress
  conn,       \* conn[n]: the stream by which n replicates, both of its ends
  left        \* what is left of Budget

vars == <<lease, up, isPrimary, ready, db, step, conn, left>>

-----------------------------------------------------------------------------
(* LTX files, stream frames and the other values of the variables. *)

TxNumber == 1 .. Budget["tx"]
History  == Seq(TxNumber)

\* An LTX file: its name is (MinTXID, MaxTXID), MaxTXID is the length of the
\* history after it, PreApplyChecksum is that history without its last
\* transaction.  A file that starts at TXID 1 holds every page.
LTX == [min : Nat \ {0}, post : History, node : Node]

MaxTXID(f) == Len(f.post)
IsSnapshot(f) == f.min = 1
PreApply(f) == Front(f.post)
SameName(f, g) == f.min = g.min /\ MaxTXID(f) = MaxTXID(g)

\* The order of os.ReadDir: by name.
Before(f, g) ==
  \/ f.min < g.min
  \/ f.min = g.min /\ MaxTXID(f) < MaxTXID(g)

IsFirst(f, F) == \A g \in F \ {f} : Before(f, g)
IsLast(f, F) == \A g \in F \ {f} : Before(g, f)

\* maxLTXFile: the first file by name among those with the highest TXID.
IsMaxLTXFile(f, F) ==
  /\ \A g \in F : MaxTXID(f) >= MaxTXID(g)
  /\ IsFirst(f, {g \in F : MaxTXID(g) = MaxTXID(f)})

\* ApplyLTXNoLock ends with the checksum of the file's trailer: the file holds
\* every page, or the pages it does not hold are those of its pre-apply state.
Applies(f, pages) == IsSnapshot(f) \/ pages \subseteq {PreApply(f), f.post}

DB == [exists : BOOLEAN, pages : SUBSET History, ltx : SUBSET LTX, pos : History]

NoDB    == [exists |-> FALSE, pages |-> {<<>>}, ltx |-> {}, pos |-> <<>>]
EmptyDB == [NoDB EXCEPT !.exists = TRUE]

\* The write lock: free, a local commit, or a received file being applied.
Free == [op |-> "free"]

Writer == [op : {"commit", "trim", "apply", "verify", "notify"}, ltx : LTX]

Frame == [kind : {"ltx"}, ltx : LTX] \cup [kind : {"ready", "end", "drop", "broken"}]

\* The server end of a stream (handlePostStream) and the frames under way.
\*   phase      where the handler is; cpos  posMap[name]; from  the position
\*   streamLTX starts from; gone  the pos of a DB object dropped under the
\*   handler; notify, dirty  the Subscriber; cancelled  the primary context;
\*   skipped  whether the replica skipped a frame: no step depends on it.
Phase == {"lookup", "check", "send", "flushed", "wait", "woken", "ended"}

Conn == [server : Node, phase : Phase, cpos : History, from : History,
         gone : History \cup {None}, notify : BOOLEAN, dirty : BOOLEAN,
         readySent : BOOLEAN, cancelled : BOOLEAN, skipped : BOOLEAN, q : Seq(Frame)]

TypeOK ==
  /\ lease \in Node \cup {None}
  /\ up \subseteq Node
  /\ isPrimary \in [Node -> BOOLEAN]
  /\ ready \in [Node -> BOOLEAN]
  /\ db \in [Node -> DB]
  /\ step \in [Node -> Writer \cup {Free}]
  /\ conn \in [Node -> Conn \cup {None}]
  /\ left \in [Event -> Nat] /\ \A e \in Event : left[e] <= Budget[e]

Init ==
  /\ lease = None
  /\ up = Node
  /\ isPrimary = [n \in Node |-> FALSE]
  /\ ready = [n \in Node |-> FALSE]
  /\ db = [n \in Node |-> NoDB]
  /\ step = [n \in Node |-> Free]
  /\ conn = [n \in Node |-> None]
  /\ left = Budget

Spend(e) == left[e] > 0 /\ left' = [left EXCEPT ![e] = @ - 1]

-----------------------------------------------------------------------------
(* Effects on the streams that node s serves. *)

Serves(s, c) == c # None /\ c.server = s /\ c.phase # "ended"

\* Store.markDirty: every subscriber of s gets the name and a notification; the
\* channel holds one, a second is dropped.
MarkDirty(s, cs) ==
  [n \in Node |-> IF Serves(s, cs[n])
                  THEN [cs[n] EXCEPT !.dirty = TRUE, !.notify = TRUE]
                  ELSE cs[n]]

\* setIsPrimary(FALSE) closes primaryCh, which ends the context of every stream.
Cancel(s, cs) ==
  [n \in Node |-> IF Serves(s, cs[n]) THEN [cs[n] EXCEPT !.cancelled = TRUE] ELSE cs[n]]

\* The process of s is gone: its connections end without another frame.
Sever(s, cs) ==
  [n \in Node |-> IF Serves(s, cs[n]) THEN [cs[n] EXCEPT !.phase = "ended"] ELSE cs[n]]

\* DropDB removes the object from Store.dbs; a handler inside streamDB keeps it.
Orphan(s, cs) ==
  [n \in Node |-> IF Serves(s, cs[n]) /\ cs[n].phase \in {"check", "send"} /\ cs[n].gone = None
                  THEN [cs[n] EXCEPT !.gone = db[s].pos] ELSE cs[n]]

-----------------------------------------------------------------------------
(* The lease: Consul (external), and the loop of monitorLease. *)

\* Between two rounds of monitorLease: the node runs, is neither primary nor
\* connected, and the Recover that ends a round has had the write lock.
Seeking(n) == n \in up /\ ~isPrimary[n] /\ conn[n] = None /\ step[n] = Free

\* acquireLeaseOrPrimaryInfo obtains the lease; monitorLeaseAsPrimary begins.
AcquireLease(n) ==
  /\ Seeking(n)
  /\ lease = None
  /\ Spend("grant")
  /\ lease' = n
  /\ isPrimary' = [isPrimary EXCEPT ![n] = TRUE]
  /\ ready' = [ready EXCEPT ![n] = TRUE]
  /\ UNCHANGED <<up, db, step, conn>>

\* The session of the holder runs out in Consul.  The holder does not know yet.
LeaseExpire ==
  /\ lease # None
  /\ IF isPrimary[lease] THEN Spend("expire") ELSE UNCHANGED left
  /\ lease' = None
  /\ UNCHANGED <<up, isPrimary, ready, db, step, conn>>

\* monitorLeaseAsPrimary returns: the lease is lost, or the node is demoted.
StepDown(n) ==
  /\ isPrimary[n]
  /\ lease = n => left["grant"] > 0    \* bound: somebody can still take over
  /\ isPrimary' = [isPrimary EXCEPT ![n] = FALSE]
  /\ conn' = Cancel(n, conn)
  /\ lease' = IF lease = n THEN None ELSE lease
  /\ UNCHANGED <<up, ready, db, step, left>>

-----------------------------------------------------------------------------
(* The database on its own node. *)

\* CreateDB, by an application.
CreateDB(n) ==
  /\ n \in up /\ ~db[n].exists
  /\ db' = [db EXCEPT ![n] = EmptyDB]
  /\ conn' = MarkDirty(n, conn)
  /\ UNCHANGED <<lease, up, isPrimary, ready, step, left>>

\* DropDB, by an application (RootNode.Remove) on the primary.  It takes s.mu
\* only: a commit under way is left with files that have no name any more.
DropDB(n) ==
  /\ n \in up /\ isPrimary[n] /\ db[n].exists
  /\ Spend("drop")
  /\ db' = [db EXCEPT ![n] = NoDB]
  /\ step' = [step EXCEPT ![n] = Free]
  /\ conn' = MarkDirty(n, Orphan(n, conn))
  /\ UNCHANGED <<lease, up, isPrimary, ready>>

\* The name of a file is overwritten by a rename.
AddFile(F, f) == {g \in F : ~SameName(f, g)} \cup {f}

\* Mutant of CommitLTX: the TXID of the transaction before.
CommitLTXSameTXID(n) ==
  /\ n \in up /\ isPrimary[n] /\ db[n].exists /\ step[n] = Free
  /\ Spend("tx")
  /\ LET post == Append(db[n].pos, Budget["tx"] - left["tx"] + 1)
         f    == [min |-> Len(db[n].pos), post |-> post, node |-> n]
     IN  /\ db' = [db EXCEPT ![n].ltx = AddFile(@, f)]
         /\ step' = [step EXCEPT ![n] = [op |-> "commit", ltx |-> f]]
  /\ UNCHANGED <<lease, up, isPrimary, ready, conn>>

\* CommitJournal or CommitWAL on a writeable database, up to the rename that
\* puts the LTX file of the transaction in place.
CommitLTX(n) ==
  /\ n \in up /\ isPrimary[n] /\ db[n].exists /\ step[n] = Free
  /\ Spend("tx")
  /\ LET post == Append(db[n].pos, Budget["tx"] - left["tx"] + 1)
         f    == [min |-> Len(post), post |-> post, node |-> n]
     IN  /\ db' = [db EXCEPT ![n].ltx = AddFile(@, f)]
         /\ step' = [step EXCEPT ![n] = [op |-> "commit", ltx |-> f]]
  /\ UNCHANGED <<lease, up, isPrimary, ready, conn>>

\* The rest of the commit: the journal is finalised and the position set.
CommitDone(n) ==
  /\ step[n].op = "commit"
  /\ db' = [db EXCEPT ![n].pages = {step[n].ltx.post}, ![n].pos = step[n].ltx.post]
  /\ step' = [step EXCEPT ![n].op = "notify"]
  /\ UNCHANGED <<lease, up, isPrimary, ready, conn, left>>

\* MarkDirty, and the write lock is released.
Notify(n) ==
  /\ step[n].op = "notify"
  /\ conn' = MarkDirty(n, conn)
  /\ step' = [step EXCEPT ![n] = Free]
  /\ UNCHANGED <<lease, up, isPrimary, ready, db, left>>

\* EnforceRetention removes files older than the retention period, never the
\* last one by name.  A file being applied is younger than that.
EnforceRetention(n) ==
  /\ n \in up
  /\ Spend("reap")
  /\ \E latest \in db[n].ltx : \E old \in SUBSET (db[n].ltx \ {latest}) :
       /\ IsLast(latest, db[n].ltx)
       /\ old # {}
       /\ step[n] # Free => step[n].ltx \notin old
       /\ db' = [db EXCEPT ![n].ltx = @ \ old]
  /\ UNCHANGED <<lease, up, isPrimary, ready, step, conn>>

\* The process dies; the lease is left to expire.
Crash(n) ==
  /\ n \in up
  /\ Spend("crash")
  /\ up' = up \ {n}
  /\ isPrimary' = [isPrimary EXCEPT ![n] = FALSE]
  /\ ready' = [ready EXCEPT ![n] = FALSE]
  /\ db' = [db EXCEPT ![n].pos = <<>>]
  /\ step' = [step EXCEPT ![n] = Free]
  /\ conn' = [Sever(n, conn) EXCEPT ![n] = None]
  /\ UNCHANGED lease

\* A database after DB.Open has applied its last LTX file f.
Opened(d, f) == [d EXCEPT !.pages = {f.post}, !.pos = f.post]

\* DB.Open: the journal is rolled back, then the highest LTX file is applied.  A
\* node whose Open fails does not start.
Restart(n) ==
  /\ n \notin up
  /\ up' = up \cup {n}
  /\ \/ db[n].ltx = {} /\ UNCHANGED db
     \/ \E f \in db[n].ltx :
          /\ IsMaxLTXFile(f, db[n].ltx)
          /\ Applies(f, db[n].pages)
          /\ db' = [db EXCEPT ![n] = Opened(@, f)]
  /\ UNCHANGED <<lease, isPrimary, ready, step, conn, left>>

-----------------------------------------------------------------------------
(* The server end of a stream: handlePostStream, streamDB, streamLTX.  The  *)
(* actions are indexed by the replica n at the other end.                   *)

Server(n) == conn[n].server
Room(n)   == Len(conn[n].q) < QueueCap
Serving(n, p) == conn[n] # None /\ conn[n].phase = p

\* The position db.Pos() returns to a handler, which may hold a dropped object.
ServerPos(n) == IF conn[n].gone = None THEN db[Server(n)].pos ELSE conn[n].gone

\* A replica connects to a primary (any node it may have read from Consul) and
\* posts its positions; the server subscribes before it lists its databases.
Connect(n, s) ==
  /\ Seeking(n) /\ s # n /\ s \in up /\ isPrimary[s]
  /\ conn' = [conn EXCEPT ![n] =
       [server |-> s, cpos |-> db[n].pos, from |-> <<>>, gone |-> None,
        phase |-> IF db[n].exists \/ db[s].exists THEN "lookup" ELSE "flushed",
        notify |-> FALSE, dirty |-> FALSE, readySent |-> FALSE,
        cancelled |-> FALSE, skipped |-> FALSE, q |-> <<>>]]
  /\ UNCHANGED <<lease, up, isPrimary, ready, db, step, left>>

\* streamDB looks the database up ...
Lookup(n) ==
  /\ Serving(n, "lookup") /\ db[Server(n)].exists
  /\ conn' = [conn EXCEPT ![n].phase = "check", ![n].gone = None]
  /\ UNCHANGED <<lease, up, isPrimary, ready, db, step, left>>

\* ... and if there is none the replica has to drop its own.
SendDrop(n) ==
  /\ Serving(n, "lookup") /\ ~db[Server(n)].exists /\ Room(n)
  /\ conn' = [conn EXCEPT ![n].phase = "flushed", ![n].cpos = <<>>,
                          ![n].q = Append(@, [kind |-> "drop"])]
  /\ UNCHANGED <<lease, up, isPrimary, ready, db, step, left>>

\* Mutant of ClientPos: a replica ahead of the primary keeps its position.
ClientPosNotCleared(cpos, pos) ==
  IF Len(cpos) = Len(pos) /\ cpos # pos THEN <<>> ELSE cpos

\* The client's position, cleared when the replica is ahead of the primary or
\* has diverged at the same TXID.
ClientPos(cpos, pos) ==
  IF Len(cpos) > Len(pos) \/ (Len(cpos) = Len(pos) /\ cpos # pos) THEN <<>> ELSE cpos

\* One round of the loop of streamDB: done, or start streamLTX.
Check(n) ==
  /\ Serving(n, "check")
  /\ LET pos == ServerPos(n)
         c   == ClientPos(conn[n].cpos, pos)
     IN  conn' = [conn EXCEPT ![n] =
           IF Len(c) >= Len(pos) THEN [@ EXCEPT !.phase = "flushed", !.gone = None]
                                 ELSE [@ EXCEPT !.phase = "send", !.from = c]]
  /\ UNCHANGED <<lease, up, isPrimary, ready, db, step, left>>

\* Mutant of Streamable: the pre-apply checksum is not compared.
StreamableUnchecked(n) ==
  {f \in db[Server(n)].ltx :
     /\ conn[n].from # <<>>
     /\ f.min = Len(conn[n].from) + 1 /\ MaxTXID(f) = f.min}

\* The LTX file streamLTX sends; if there is none it sends a snapshot.
Streamable(n) ==
  {f \in db[Server(n)].ltx :
     /\ conn[n].from # <<>>
     /\ f.min = Len(conn[n].from) + 1 /\ MaxTXID(f) = f.min
     /\ PreApply(f) = conn[n].from}

SendFrame(n, f) ==
  conn' = [conn EXCEPT ![n].q = Append(@, [kind |-> "ltx", ltx |-> f]),
                       ![n].cpos = f.post, ![n].phase = "check", ![n].from = <<>>]

\* streamLTX sends the file of the next transaction.
SendLTX(n) ==
  /\ Serving(n, "send") /\ Room(n)
  /\ \E f \in Streamable(n) : SendFrame(n, f)
  /\ UNCHANGED <<lease, up, isPrimary, ready, db, step, left>>

\* WriteSnapshotTo holds SHARED while it reads, so it waits for a writer.
SnapshotLocked(s) == step[s] = Free

\* streamLTXSnapshot.  The checksum of the pages read is compared with the
\* position; a mismatch, a file that is gone or a context that is done before the
\* lock is free ends the stream inside a frame.
SendSnapshot(n) ==
  /\ Serving(n, "send") /\ Room(n) /\ Streamable(n) = {}
  /\ LET s  == Server(n)
         ok == /\ db[s].exists /\ conn[n].gone = None
               /\ SnapshotLocked(s) /\ db[s].pages = {db[s].pos}
     IN  /\ SnapshotLocked(s) \/ conn[n].gone # None \/ conn[n].cancelled
         /\ IF ok THEN SendFrame(n, [min |-> 1, post |-> db[s].pos, node |-> s])
            ELSE conn' = [conn EXCEPT ![n].q = Append(@, [kind |-> "broken"]),
                                      ![n].phase = "ended"]
  /\ UNCHANGED <<lease, up, isPrimary, ready, db, step, left>>

\* Mutant of SendReady: the subscriber is reset before the handler waits.
SendReadyReset(n) ==
  /\ Serving(n, "flushed") /\ Room(n)
  /\ conn' = [conn EXCEPT ![n].phase = "wait", ![n].readySent = TRUE,
                          ![n].notify = FALSE, ![n].dirty = FALSE,
                          ![n].q = IF conn[n].readySent THEN @
                                   ELSE Append(@, [kind |-> "ready"])]
  /\ UNCHANGED <<lease, up, isPrimary, ready, db, step, left>>

\* After the first round of streamDB the server sends a ready frame.
SendReady(n) ==
  /\ Serving(n, "flushed")
  /\ IF conn[n].readySent
     THEN conn' = [conn EXCEPT ![n].phase = "wait"]
     ELSE /\ Room(n)
          /\ conn' = [conn EXCEPT ![n].phase = "wait", ![n].readySent = TRUE,
                                  ![n].q = Append(@, [kind |-> "ready"])]
  /\ UNCHANGED <<lease, up, isPrimary, ready, db, step, left>>

\* The select of the handler receives from NotifyCh ...
Wake(n) ==
  /\ Serving(n, "wait") /\ conn[n].notify
  /\ conn' = [conn EXCEPT ![n].phase = "woken", ![n].notify = FALSE]
  /\ UNCHANGED <<lease, up, isPrimary, ready, db, step, left>>

\* ... and takes the dirty set: another step, the subscriber is not locked.
TakeDirtySet(n) ==
  /\ Serving(n, "woken")
  /\ conn' = [conn EXCEPT ![n].dirty = FALSE,
                          ![n].phase = IF conn[n].dirty THEN "lookup" ELSE "wait"]
  /\ UNCHANGED <<lease, up, isPrimary, ready, db, step, left>>

\* Or the context is done: the deferred function writes an "end" frame.
SendEnd(n) ==
  /\ Serving(n, "wait") /\ conn[n].cancelled /\ Room(n)
  /\ conn' = [conn EXCEPT ![n].phase = "ended", ![n].q = Append(@, [kind |-> "end"])]
  /\ UNCHANGED <<lease, up, isPrimary, ready, db, step, left>>

-----------------------------------------------------------------------------
(* The replica end: monitorLeaseAsReplica and processLTXStreamFrame. *)

\* The next frame of node n's stream is of kind k, and n is free to read it.
Receives(n, k) ==
  /\ n \in up /\ conn[n] # None /\ conn[n].q # <<>> /\ step[n] = Free
  /\ Head(conn[n].q).kind = k

\* Mutant of PositionMatches: the position is not compared.
AnyPosition(d, f) == TRUE

PositionMatches(d, f) == d.pos = PreApply(f)

\* The database after CreateDBIfNotExists, and the streams it notifies.
Existing(d) == IF d.exists THEN d ELSE EmptyDB
Created(n, cs) == IF db[n].exists THEN cs ELSE MarkDirty(n, cs)

Rest(n) == [conn EXCEPT ![n].q = Tail(@)]
Closed(n) == [conn EXCEPT ![n] = None]
Passed(n) == [Rest(n) EXCEPT ![n].skipped = TRUE]

\* The transaction was created by this node: the frame is skipped.
SkipLTX(n) ==
  /\ Receives(n, "ltx") /\ Head(conn[n].q).ltx.node = n
  /\ db' = [db EXCEPT ![n] = Existing(@)]
  /\ conn' = Created(n, Passed(n))
  /\ UNCHANGED <<lease, up, isPrimary, ready, step, left>>

\* The position does not match: an error, which closes the stream.
RejectLTX(n) ==
  /\ Receives(n, "ltx")
  /\ LET f == Head(conn[n].q).ltx
     IN  /\ f.node # n /\ ~IsSnapshot(f)
         /\ ~PositionMatches(Existing(db[n]), f)
  /\ db' = [db EXCEPT ![n] = Existing(@)]
  /\ conn' = Created(n, Closed(n))
  /\ UNCHANGED <<lease, up, isPrimary, ready, step, left>>

\* The file is written aside, synced and renamed.
RenameLTX(n) ==
  /\ Receives(n, "ltx")
  /\ LET f == Head(conn[n].q).ltx
         d == Existing(db[n])
     IN  /\ f.node # n
         /\ IsSnapshot(f) \/ PositionMatches(d, f)
         /\ db' = [db EXCEPT ![n] = [d EXCEPT !.ltx = AddFile(@, f)]]
         /\ step' = [step EXCEPT ![n] =
              [op |-> IF IsSnapshot(f) THEN "trim" ELSE "apply", ltx |-> f]]
  /\ conn' = Created(n, Rest(n))
  /\ UNCHANGED <<lease, up, isPrimary, ready, left>>

\* removeFilesExcept, after a snapshot: file by file, in the order of the names.
RemoveFile(n) ==
  /\ step[n].op = "trim"
  /\ LET others == db[n].ltx \ {step[n].ltx}
     IN  \/ others = {} /\ step' = [step EXCEPT ![n].op = "apply"] /\ UNCHANGED db
         \/ \E f \in others :
              /\ IsFirst(f, others)
              /\ db' = [db EXCEPT ![n].ltx = @ \ {f}] /\ UNCHANGED step
  /\ UNCHANGED <<lease, up, isPrimary, ready, conn, left>>

\* ApplyLTXNoLock writes the pages of the file ...
WritePages(n) ==
  /\ step[n].op = "apply"
  /\ db' = [db EXCEPT ![n].pages = @ \cup {step[n].ltx.post}]
  /\ step' = [step EXCEPT ![n].op = "verify"]
  /\ UNCHANGED <<lease, up, isPrimary, ready, conn, left>>

\* ... and compares the checksum; if it matches the position is set.
VerifyPages(n) ==
  /\ step[n].op = "verify"
  /\ LET f == step[n].ltx
     IN  IF Applies(f, db[n].pages)
         THEN /\ db' = [db EXCEPT ![n].pages = {f.post}, ![n].pos = f.post]
              /\ step' = [step EXCEPT ![n].op = "notify"]
              /\ UNCHANGED conn
         ELSE /\ step' = [step EXCEPT ![n] = Free]
              /\ conn' = Closed(n)
              /\ UNCHANGED db
  /\ UNCHANGED <<lease, up, isPrimary, ready, left>>

\* A ready frame.  EndStreamFrame.Type() is that of a ready frame, so the end
\* frame of a server that stops is decoded as one too.
ReceiveReady(n) ==
  /\ Receives(n, "ready") \/ Receives(n, "end")
  /\ ready' = [ready EXCEPT ![n] = TRUE]
  /\ conn' = Rest(n)
  /\ UNCHANGED <<lease, up, isPrimary, db, step, left>>

\* processDropDBStreamFrame.
ReceiveDrop(n) ==
  /\ Receives(n, "drop")
  /\ db' = [db EXCEPT ![n] = NoDB]
  /\ conn' = IF db[n].exists
             THEN MarkDirty(n, Orphan(n, Rest(n)))
             ELSE Rest(n)
  /\ UNCHANGED <<lease, up, isPrimary, ready, step, left>>

\* An LTX frame that breaks off: the database is created, then decoding fails.
ReceiveBroken(n) ==
  /\ Receives(n, "broken")
  /\ db' = [db EXCEPT ![n] = Existing(@)]
  /\ conn' = Created(n, Closed(n))
  /\ UNCHANGED <<lease, up, isPrimary, ready, step, left>>

\* The replica reads the end of the stream.
Disconnect(n) ==
  /\ n \in up /\ conn[n] # None /\ step[n] = Free
  /\ conn[n].phase = "ended" /\ conn[n].q = <<>>
  /\ conn' = Closed(n)
  /\ UNCHANGED <<lease, up, isPrimary, ready, db, step, left>>

\* The connection breaks; frames under way are lost.
Cut(n) ==
  /\ n \in up /\ conn[n] # None /\ step[n] = Free
  /\ Spend("cut")
  /\ conn' = Closed(n)
  /\ UNCHANGED <<lease, up, isPrimary, ready, db, step>>

-----------------------------------------------------------------------------
\* The steps that the program takes by itself.
ServerStep(n) ==
  \/ Lookup(n) \/ SendDrop(n) \/ Check(n) \/ SendLTX(n) \/ SendSnapshot(n) \/ SendReady(n)
  \/ Wake(n) \/ TakeDirtySet(n) \/ SendEnd(n)

ReplicaStep(n) ==
  \/ SkipLTX(n) \/ RejectLTX(n) \/ RenameLTX(n) \/ RemoveFile(n)
  \/ WritePages(n) \/ VerifyPages(n) \/ ReceiveReady(n) \/ ReceiveDrop(n)
  \/ ReceiveBroken(n) \/ Disconnect(n)

CommitStep(n) == CommitDone(n) \/ Notify(n)

LeaseStep(n) == AcquireLease(n) \/ \E s \in Node : Connect(n, s)

\* The steps of applications and of the environment.
EnvStep(n) ==
  \/ StepDown(n) \/ CreateDB(n) \/ DropDB(n) \/ CommitLTX(n)
  \/ EnforceRetention(n) \/ Crash(n) \/ Restart(n) \/ Cut(n)

Next ==
  \/ LeaseExpire
  \/ \E n \in Node :
       ServerStep(n) \/ ReplicaStep(n) \/ CommitStep(n) \/ LeaseStep(n) \/ EnvStep(n)

Spec == Init /\ [][Next]_vars

\* What goes on by itself: handlers and replicas that have something to do do it,
\* the loop of monitorLease retries, a crashed process is started again, Consul
\* drops a session nobody renews, and a primary learns that its lease is gone
\* from its next renewal.  Nothing is assumed of applications.
Fairness ==
  /\ \A n \in Node :
       /\ WF_vars(ServerStep(n)) /\ WF_vars(ReplicaStep(n)) /\ WF_vars(CommitStep(n))
       /\ WF_vars(LeaseStep(n)) /\ WF_vars(Restart(n))
       /\ WF_vars(lease # n /\ StepDown(n))
  /\ WF_vars(LeaseExpire /\ ~isPrimary[lease])

FairSpec == Spec /\ Fairness

-----------------------------------------------------------------------------
\* Whenever no received file is being applied, the pages of the database are
\* those of its position: the position a node reports, streams from and checks
\* received files against is what its database really holds (db.go: setPos
\* after the pages are written and verified, under the write lock).
PosMatchesContent ==
  \A n \in up : step[n].op # "verify" => db[n].pages = {db[n].pos}

\* PosMatchesContent with what makes it inductive: what the holder of the write
\* lock has established at each of its steps, the file it works for being in
\* place, and that pages without an LTX file are those of an empty database.
WriterConsistent(n) ==
  /\ n \notin up => step[n] = Free /\ db[n].pos = <<>>
  /\ n \in up /\ step[n].op # "verify" => db[n].pages = {db[n].pos}
  /\ step[n] # Free => db[n].exists /\ step[n].ltx \in db[n].ltx
  /\ step[n].op = "trim" => IsSnapshot(step[n].ltx)
  /\ step[n].op = "apply" => IsSnapshot(step[n].ltx) \/ db[n].pos = PreApply(step[n].ltx)
  /\ step[n].op = "verify" => Applies(step[n].ltx, db[n].pages)
  /\ db[n].ltx = {} => db[n].pages = {<<>>}

\* Every node keeps it: in particular a file that passed the position check never
\* fails the checksum of ApplyLTXNoLock, which would leave a half-written database.
WritersConsistent == \A n \in Node : WriterConsistent(n)

\* Wherever a node is stopped, DB.Open succeeds and ends at the position the node
\* had, or at that of the transaction that was being written: EnforceRetention, which
\* keeps the last file by name ("Ensure the latest LTX file is not removed"), keeps
\* the one that Open needs.  A crash inside removeFilesExcept breaks this.
Recoverable ==
  \A n \in Node : \A f \in db[n].ltx :
    IsMaxLTXFile(f, db[n].ltx) =>
      /\ Applies(f, db[n].pages)
      /\ n \in up /\ step[n] = Free => f.post = db[n].pos
      /\ n \in up /\ step[n] # Free => f.post \in {db[n].pos, step[n].ltx.post}

\* The frames that change the position of a replica, and the position they end in.
Moves(fr) == fr.kind \in {"ltx", "drop"}
EndPos(fr) == IF fr.kind = "drop" THEN <<>> ELSE fr.ltx.post

\* x is the position of a replica at position p once it has handled the first k
\* frames of q.
PosAfter(q, k, p, x) ==
  \E i \in 0 .. k :
    /\ \A j \in i + 1 .. k : ~Moves(q[j])
    /\ IF i = 0 THEN x = p ELSE Moves(q[i]) /\ x = EndPos(q[i])

\* The position of n when it has applied the file it works on.
SettledPos(n) == IF step[n] = Free THEN db[n].pos ELSE step[n].ltx.post

\* The stream of n has skipped a frame.
Skipped(n) == conn[n] # None /\ conn[n].skipped

\* The position a server keeps for a replica (posMap in handlePostStream) is the
\* one the replica has after the frames under way, and the replica rejects none
\* of them for its position, until the replica skips a frame: processLTXStreamFrame
\* takes a transaction with its node ID for one that it has, which it may have lost.
ServerTracksReplica ==
  \A n \in Node : ~Skipped(n) =>
    /\ conn[n] # None /\ conn[n].phase # "ended" =>
         PosAfter(conn[n].q, Len(conn[n].q), SettledPos(n), conn[n].cpos)
    /\ Receives(n, "ltx") => LET f == Head(conn[n].q).ltx
                             IN  IsSnapshot(f) \/ PreApply(f) = db[n].pos

\* Under a primary that keeps its lease a node becomes ready and ends with the
\* primary's database, whatever it had: unreplicated transactions of an old primary,
\* a database the primary dropped, a file that retention removed.  Only two kinds of
\* nodes do not: one whose DB.Open fails (see Recoverable), and one that is sent a
\* transaction it once wrote and lost, which it skips in stream after stream.  (A
\* primary with an empty database sends nothing: streamDB compares TXIDs only.)
Converges ==
  \A s, n \in Node :
    <>[](isPrimary[s] /\ lease = s /\ (db[s].exists => db[s].pos # <<>>))
    => \/ <>[](ready[n] /\ db[n].pos = db[s].pos)
       \/ []<>(n \notin up \/ Skipped(n))

\* A handler that waits without a pending notification has sent everything: no
\* change of the database between DirtySet, Pos and the select is missed.
NoLostWakeup ==
  \A n \in Node :
    LET s == Server(n)
    IN  Serving(n, "wait") /\ ~conn[n].notify /\ ~conn[n].cancelled /\ step[s].op # "notify"
        => db[s].pos = conn[n].cpos \/ (db[s].exists /\ db[s].pos = <<>>)
=============================================================================
