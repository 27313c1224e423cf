------------------------- MODULE ReplicationProofs --------------------------
(***************************************************************************)
(* Proofs about Replication, for any number of nodes and any bounds.       *)
(***************************************************************************)
EXTENDS Replication, SequenceTheorems, TLAPS

-----------------------------------------------------------------------------
(* Types of the values the actions build. *)

\* The history after a commit: the new transaction number is in range, and the
\* history is not empty.
LEMMA AppendHistory ==
  ASSUME NEW h \in History, NEW t \in TxNumber
  PROVE  Append(h, t) \in History /\ Len(Append(h, t)) \in Nat \ {0}
BY DEF History

\* A new transaction number is in range as long as the budget is not spent.
LEMMA NewTxNumber ==
  ASSUME TypeOK, left["tx"] > 0
  PROVE  Budget["tx"] - left["tx"] + 1 \in TxNumber
BY BudgetAssumption DEF TypeOK, Event, TxNumber

\* Spending keeps what is left within the budget.
LEMMA SpendType ==
  ASSUME TypeOK, NEW e \in Event, Spend(e)
  PROVE  left' \in [Event -> Nat] /\ \A i \in Event : left'[i] <= Budget[i]
<1>1. left[e] - 1 \in Nat /\ left[e] - 1 <= left[e] /\ left[e] <= Budget[e]
  BY BudgetAssumption DEF TypeOK, Spend
<1>2. left' = [left EXCEPT ![e] = left[e] - 1]
  BY DEF Spend
<1>3. left \in [Event -> Nat] /\ Budget \in [Event -> Nat]
  BY BudgetAssumption DEF TypeOK
<1>4. left' \in [Event -> Nat]
  BY <1>1, <1>2, <1>3
<1>5. ASSUME NEW i \in Event
      PROVE  left'[i] <= Budget[i]
  <2>1. left'[i] = IF i = e THEN left[e] - 1 ELSE left[i]
    BY <1>2, <1>3
  <2>2. left[i] <= Budget[i]
    BY DEF TypeOK
  <2> QED BY <1>1, <1>3, <2>1, <2>2
<1> QED BY <1>4, <1>5

\* A database that does not exist, or has just been created.
LEMMA EmptyTypes == NoDB \in DB /\ EmptyDB \in DB
<1>1. <<>> \in History
  BY DEF History
<1> QED BY <1>1 DEF NoDB, EmptyDB, DB

\* A frame of kind "ltx" carries an LTX file.
LEMMA FrameLTX ==
  ASSUME NEW fr \in Frame, fr.kind = "ltx"
  PROVE  fr.ltx \in LTX
BY DEF Frame

\* A writer at work is not the free lock.
LEMMA WriterType ==
  ASSUME TypeOK, NEW n \in Node, step[n] # Free
  PROVE  step[n] \in Writer /\ step[n].ltx \in LTX
BY DEF TypeOK, Writer

\* Whoever holds the write lock has a writer with its file.
LEMMA BusyType ==
  ASSUME TypeOK, NEW n \in Node,
         step[n].op \in {"commit", "trim", "apply", "verify", "notify"}
  PROVE  step[n] # Free /\ step[n] \in Writer /\ step[n].ltx \in LTX
<1>1. step[n] # Free
  BY DEF Free
<1> QED BY <1>1, WriterType

Conns == [Node -> Conn \cup {None}]

\* The effects of store operations on the streams keep their type.
LEMMA EffectTypes ==
  ASSUME NEW cs \in Conns, NEW s \in Node
  PROVE  /\ MarkDirty(s, cs) \in Conns
         /\ Cancel(s, cs) \in Conns
         /\ Sever(s, cs) \in Conns
<1>1. ASSUME NEW n \in Node, Serves(s, cs[n])
      PROVE  /\ [cs[n] EXCEPT !.dirty = TRUE, !.notify = TRUE] \in Conn
             /\ [cs[n] EXCEPT !.cancelled = TRUE] \in Conn
             /\ [cs[n] EXCEPT !.phase = "ended"] \in Conn
  <2>1. cs[n] \in Conn
    BY <1>1 DEF Conns, Serves
  <2> QED BY <2>1 DEF Conn, Phase
<1> QED BY <1>1 DEF Conns, MarkDirty, Cancel, Sever

\* Orphan, the handlers that lose their DB object, yields connections.
LEMMA OrphanType ==
  ASSUME TypeOK, NEW cs \in Conns, NEW s \in Node
  PROVE  Orphan(s, cs) \in Conns
<1>1. ASSUME NEW n \in Node, Serves(s, cs[n])
      PROVE  [cs[n] EXCEPT !.gone = db[s].pos] \in Conn
  <2>1. cs[n] \in Conn
    BY <1>1 DEF Conns, Serves
  <2>2. db[s].pos \in History
    BY DEF TypeOK, DB
  <2> QED BY <2>1, <2>2 DEF Conn
<1> QED BY <1>1 DEF Conns, Orphan

\* One stream is replaced, or closed.
LEMMA ConnUpdate ==
  ASSUME NEW cs \in Conns, NEW n \in Node, NEW c \in Conn \cup {None}
  PROVE  [cs EXCEPT ![n] = c] \in Conns
BY DEF Conns

\* Frames under way.
LEMMA QueueTypes ==
  ASSUME NEW c \in Conn, NEW fr \in Frame
  PROVE  /\ Append(c.q, fr) \in Seq(Frame)
         /\ c.q # <<>> => Head(c.q) \in Frame /\ Tail(c.q) \in Seq(Frame)
BY DEF Conn

\* The frames that carry no file.
LEMMA PlainFrames ==
  \A k \in {"ready", "end", "drop", "broken"} : [kind |-> k] \in Frame
BY DEF Frame

\* A step that touches the streams only.
LEMMA TypeConn ==
  ASSUME TypeOK, conn' \in Conns,
         UNCHANGED <<lease, up, isPrimary, ready, db, step, left>>
  PROVE  TypeOK'
BY DEF TypeOK, Conns

\* Sending a file keeps the type of the stream.
LEMMA SendType ==
  ASSUME TypeOK, NEW n \in Node, conn[n] \in Conn, NEW f \in LTX, SendFrame(n, f)
  PROVE  conn' \in Conns
<1> DEFINE fr == [kind |-> "ltx", ltx |-> f]
           c  == [conn[n] EXCEPT !.q = Append(@, fr), !.cpos = f.post,
                                 !.phase = "check", !.from = <<>>]
<1>1. fr \in Frame
  BY DEF Frame
<1>2. Append(conn[n].q, fr) \in Seq(Frame)
  BY <1>1, QueueTypes
<1>3. f.post \in History /\ <<>> \in History
  BY DEF LTX, History
<1>4. c \in Conn
  BY <1>2, <1>3 DEF Conn, Phase
<1>5. conn' = [conn EXCEPT ![n] = c]
  BY DEF SendFrame
<1>6. conn \in Conns
  BY DEF TypeOK, Conns
<1> QED BY <1>4, <1>5, <1>6, ConnUpdate

\* The handler of a stream keeps the types.
LEMMA ServerTypes ==
  ASSUME TypeOK, NEW n \in Node, ServerStep(n)
  PROVE  TypeOK'
<1>1. UNCHANGED <<lease, up, isPrimary, ready, db, step, left>>
  BY DEF ServerStep, Lookup, SendDrop, Check, SendLTX, SendSnapshot, SendReady, Wake,
         TakeDirtySet, SendEnd
<1>2. conn[n] # None
  BY DEF ServerStep, Lookup, SendDrop, Check, SendLTX, SendSnapshot, SendReady, Wake,
         TakeDirtySet, SendEnd, Serving
<1>3. conn \in Conns /\ conn[n] \in Conn
  BY <1>2 DEF TypeOK, Conns
<1>4. Server(n) \in Node
  BY <1>3 DEF Server, Conn
<1>5. \A k \in {"ready", "end", "drop", "broken"} :
        Append(conn[n].q, [kind |-> k]) \in Seq(Frame)
  BY <1>3, PlainFrames, QueueTypes
<1>6. <<>> \in History
  BY DEF History
<1> SUFFICES conn' \in Conns
  BY <1>1, TypeConn
<1>7. CASE Lookup(n)
  <2> DEFINE c == [conn[n] EXCEPT !.phase = "check", !.gone = None]
  <2>1. c \in Conn
    BY <1>3 DEF Conn, Phase
  <2>2. conn' = [conn EXCEPT ![n] = c]
    BY <1>7 DEF Lookup
  <2> QED BY <1>3, <2>1, <2>2, ConnUpdate
<1>15. CASE SendDrop(n)
  <2> DEFINE c == [conn[n] EXCEPT !.phase = "flushed", !.cpos = <<>>,
                                  !.q = Append(@, [kind |-> "drop"])]
  <2>1. Append(conn[n].q, [kind |-> "drop"]) \in Seq(Frame)
    BY <1>5
  <2>2. c \in Conn
    BY <1>3, <1>6, <2>1 DEF Conn, Phase
  <2>3. conn' = [conn EXCEPT ![n] = c]
    BY <1>15 DEF SendDrop
  <2> HIDE DEF c
  <2> QED BY <1>3, <2>2, <2>3, ConnUpdate
<1>8. CASE Check(n)
  <2> DEFINE cp == ClientPos(conn[n].cpos, ServerPos(n))
  <2>1. cp \in History
    BY <1>3, <1>6 DEF ClientPos, Conn
  <2>2. [conn[n] EXCEPT !.phase = "flushed", !.gone = None] \in Conn
    BY <1>3 DEF Conn, Phase
  <2>3. [conn[n] EXCEPT !.phase = "send", !.from = cp] \in Conn
    BY <1>3, <2>1 DEF Conn, Phase
  <2>4. conn' = [conn EXCEPT ![n] =
          IF Len(cp) >= Len(ServerPos(n))
          THEN [conn[n] EXCEPT !.phase = "flushed", !.gone = None]
          ELSE [conn[n] EXCEPT !.phase = "send", !.from = cp]]
    BY <1>8 DEF Check
  <2> QED BY <1>3, <2>2, <2>3, <2>4, ConnUpdate
<1>9. CASE SendLTX(n)
  <2>1. PICK f \in Streamable(n) : SendFrame(n, f)
    BY <1>9 DEF SendLTX
  <2>2. f \in LTX
    BY <1>4 DEF Streamable, TypeOK, DB
  <2> QED BY <1>3, <2>1, <2>2, SendType
<1>10. CASE SendSnapshot(n)
  <2> DEFINE f == [min |-> 1, post |-> db[Server(n)].pos, node |-> Server(n)]
             c == [conn[n] EXCEPT !.q = Append(@, [kind |-> "broken"]), !.phase = "ended"]
  <2>1. f \in LTX
    BY <1>4 DEF LTX, TypeOK, DB
  <2>2. c \in Conn
    BY <1>3, <1>5 DEF Conn, Phase
  <2>3. SendFrame(n, f) \/ conn' = [conn EXCEPT ![n] = c]
    BY <1>10 DEF SendSnapshot
  <2> QED BY <1>3, <2>1, <2>2, <2>3, SendType, ConnUpdate
<1>11. CASE SendReady(n)
  <2> DEFINE c == [conn[n] EXCEPT !.phase = "wait"]
             d == [conn[n] EXCEPT !.phase = "wait", !.readySent = TRUE,
                                  !.q = Append(@, [kind |-> "ready"])]
  <2>1. c \in Conn /\ d \in Conn
    BY <1>3, <1>5 DEF Conn, Phase
  <2>2. conn' = [conn EXCEPT ![n] = c] \/ conn' = [conn EXCEPT ![n] = d]
    BY <1>11 DEF SendReady
  <2> QED BY <1>3, <2>1, <2>2, ConnUpdate
<1>12. CASE Wake(n)
  <2> DEFINE c == [conn[n] EXCEPT !.phase = "woken", !.notify = FALSE]
  <2>1. c \in Conn
    BY <1>3 DEF Conn, Phase
  <2>2. conn' = [conn EXCEPT ![n] = c]
    BY <1>12 DEF Wake
  <2> QED BY <1>3, <2>1, <2>2, ConnUpdate
<1>13. CASE TakeDirtySet(n)
  <2> DEFINE c == [conn[n] EXCEPT !.dirty = FALSE,
                                  !.phase = IF conn[n].dirty THEN "lookup" ELSE "wait"]
  <2>1. c \in Conn
    BY <1>3 DEF Conn, Phase
  <2>2. conn' = [conn EXCEPT ![n] = c]
    BY <1>13 DEF TakeDirtySet
  <2> QED BY <1>3, <2>1, <2>2, ConnUpdate
<1>14. CASE SendEnd(n)
  <2> DEFINE c == [conn[n] EXCEPT !.phase = "ended", !.q = Append(@, [kind |-> "end"])]
  <2>1. c \in Conn
    BY <1>3, <1>5 DEF Conn, Phase
  <2>2. conn' = [conn EXCEPT ![n] = c]
    BY <1>14 DEF SendEnd
  <2> QED BY <1>3, <2>1, <2>2, ConnUpdate
<1> QED BY <1>7, <1>8, <1>9, <1>10, <1>11, <1>12, <1>13, <1>14, <1>15 DEF ServerStep

\* The file at the head of the queue, and the rest of the queue.
LEMMA ReceiveTypes ==
  ASSUME TypeOK, NEW n \in Node, NEW k, Receives(n, k)
  PROVE  /\ conn[n] \in Conn
         /\ Rest(n) \in Conns /\ Closed(n) \in Conns /\ Passed(n) \in Conns
         /\ Existing(db[n]) \in DB
         /\ k = "ltx" => Head(conn[n].q).ltx \in LTX
<1>1. conn \in Conns /\ conn[n] \in Conn
  BY DEF TypeOK, Conns, Receives
<1>9. conn[n].q # <<>>
  BY DEF Receives
<1>2. Head(conn[n].q) \in Frame /\ Tail(conn[n].q) \in Seq(Frame)
  BY <1>1, <1>9 DEF Conn
<1> DEFINE c == [conn[n] EXCEPT !.q = Tail(@)]
<1>3. c \in Conn
  BY <1>1, <1>2 DEF Conn
<1>4. Rest(n) = [conn EXCEPT ![n] = c]
  BY DEF Rest
<1> HIDE DEF c
<1>5. Rest(n) \in Conns
  <2>1. conn \in Conns /\ c \in Conn \cup {None}
    BY <1>1, <1>3
  <2>2. [conn EXCEPT ![n] = c] \in Conns
    BY <2>1, ConnUpdate
  <2> QED BY <1>4, <2>2
<1>6. Closed(n) \in Conns
  BY <1>1, ConnUpdate DEF Closed
<1>10. Passed(n) \in Conns
  <2> DEFINE e == [c EXCEPT !.skipped = TRUE]
  <2>1. e \in Conn
    BY <1>3 DEF Conn
  <2>2. Passed(n) = [Rest(n) EXCEPT ![n] = e]
    BY <1>1, <1>4 DEF Passed, Conns
  <2> HIDE DEF e
  <2>3. [Rest(n) EXCEPT ![n] = e] \in Conns
    BY <1>5, <2>1, ConnUpdate
  <2> QED BY <2>2, <2>3
<1>7. Existing(db[n]) \in DB
  BY EmptyTypes DEF TypeOK, Existing
<1>8. k = "ltx" => Head(conn[n].q).ltx \in LTX
  BY <1>2, FrameLTX DEF Receives
<1> QED BY <1>1, <1>5, <1>6, <1>7, <1>8, <1>10

\* A step of the database of n that leaves the rest of the cluster alone.
LEMMA TypeDB ==
  ASSUME TypeOK, NEW n \in Node, NEW d \in DB, NEW w \in Writer \cup {Free},
         db' = [db EXCEPT ![n] = d], step' = [step EXCEPT ![n] = w], conn' \in Conns,
         UNCHANGED <<lease, up, isPrimary, ready, left>>
  PROVE  TypeOK'
BY DEF TypeOK, Conns

\* Created, the notification of a new database, yields connections.
LEMMA CreatedType ==
  ASSUME NEW n \in Node, NEW cs \in Conns
  PROVE  Created(n, cs) \in Conns
BY EffectTypes DEF Created

\* Adding a file, and moving a database to the state after one.
LEMMA FileTypes ==
  ASSUME NEW d \in DB, NEW f \in LTX
  PROVE  /\ [d EXCEPT !.ltx = AddFile(@, f)] \in DB
         /\ [d EXCEPT !.ltx = @ \ {f}] \in DB
         /\ [d EXCEPT !.pages = @ \cup {f.post}] \in DB
         /\ [d EXCEPT !.pages = {f.post}, !.pos = f.post] \in DB
<1>1. f.post \in History
  BY DEF LTX
<1>2. AddFile(d.ltx, f) \in SUBSET LTX
  BY DEF AddFile, DB
<1> QED BY <1>1, <1>2 DEF DB

\* The replica loop keeps the types.
LEMMA ReplicaTypes ==
  ASSUME TypeOK, NEW n \in Node, ReplicaStep(n)
  PROVE  TypeOK'
<1>1. db[n] \in DB /\ db = [db EXCEPT ![n] = db[n]] /\ step = [step EXCEPT ![n] = step[n]]
      /\ step[n] \in Writer \cup {Free} /\ conn \in Conns
  BY DEF TypeOK, Conns
<1>2. CASE SkipLTX(n)
  <2>1. Existing(db[n]) \in DB /\ Passed(n) \in Conns
    BY <1>2, ReceiveTypes DEF SkipLTX
  <2>2. conn' \in Conns
    BY <1>2, <2>1, CreatedType DEF SkipLTX
  <2>3. db' = [db EXCEPT ![n] = Existing(db[n])] /\ step' = step
        /\ UNCHANGED <<lease, up, isPrimary, ready, left>>
    BY <1>2 DEF SkipLTX
  <2> QED BY <1>1, <2>1, <2>2, <2>3, TypeDB
<1>3. CASE RejectLTX(n)
  <2>1. Existing(db[n]) \in DB /\ Closed(n) \in Conns
    BY <1>3, ReceiveTypes DEF RejectLTX
  <2>2. conn' \in Conns
    BY <1>3, <2>1, CreatedType DEF RejectLTX
  <2>3. db' = [db EXCEPT ![n] = Existing(db[n])] /\ step' = step
        /\ UNCHANGED <<lease, up, isPrimary, ready, left>>
    BY <1>3 DEF RejectLTX
  <2> QED BY <1>1, <2>1, <2>2, <2>3, TypeDB
<1>4. CASE RenameLTX(n)
  <2> DEFINE f == Head(conn[n].q).ltx
             d == [Existing(db[n]) EXCEPT !.ltx = AddFile(@, f)]
             w == [op |-> IF IsSnapshot(f) THEN "trim" ELSE "apply", ltx |-> f]
  <2>1. Existing(db[n]) \in DB /\ Rest(n) \in Conns /\ f \in LTX
    BY <1>4, ReceiveTypes DEF RenameLTX
  <2>2. d \in DB
    BY <2>1, FileTypes
  <2>3. w \in Writer
    BY <2>1 DEF Writer
  <2>4. conn' \in Conns
    BY <1>4, <2>1, CreatedType DEF RenameLTX
  <2>5. db' = [db EXCEPT ![n] = d] /\ step' = [step EXCEPT ![n] = w]
        /\ UNCHANGED <<lease, up, isPrimary, ready, left>>
    BY <1>4 DEF RenameLTX
  <2> HIDE DEF d, w
  <2> QED BY <2>2, <2>3, <2>4, <2>5, TypeDB
<1>5. CASE RemoveFile(n)
  <2>1. step[n] \in Writer
    BY <1>5, BusyType DEF RemoveFile
  <2> DEFINE w == [step[n] EXCEPT !.op = "apply"]
             d(f) == [db[n] EXCEPT !.ltx = @ \ {f}]
  <2>2. w \in Writer
    BY <2>1 DEF Writer
  <2>3. UNCHANGED <<lease, up, isPrimary, ready, conn, left>>
    BY <1>5 DEF RemoveFile
  <2>4. \/ db' = db /\ step' = [step EXCEPT ![n] = w]
        \/ \E f \in db[n].ltx : db' = [db EXCEPT ![n] = d(f)] /\ step' = step
    BY <1>5 DEF RemoveFile
  <2>5. \A f \in db[n].ltx : d(f) \in DB
    BY <1>1, FileTypes DEF DB
  <2> HIDE DEF d, w
  <2> QED BY <1>1, <2>2, <2>3, <2>4, <2>5, TypeDB
<1>6. CASE WritePages(n)
  <2>1. step[n] \in Writer /\ step[n].ltx \in LTX
    BY <1>6, BusyType DEF WritePages
  <2> DEFINE w == [step[n] EXCEPT !.op = "verify"]
             d == [db[n] EXCEPT !.pages = @ \cup {step[n].ltx.post}]
  <2>2. w \in Writer
    BY <2>1 DEF Writer
  <2>3. d \in DB
    BY <1>1, <2>1, FileTypes
  <2>4. db' = [db EXCEPT ![n] = d] /\ step' = [step EXCEPT ![n] = w]
        /\ UNCHANGED <<lease, up, isPrimary, ready, conn, left>>
    BY <1>6 DEF WritePages
  <2> HIDE DEF d, w
  <2> QED BY <1>1, <2>2, <2>3, <2>4, TypeDB
<1>7. CASE VerifyPages(n)
  <2>1. step[n] \in Writer /\ step[n].ltx \in LTX
    BY <1>7, BusyType DEF VerifyPages
  <2> DEFINE w == [step[n] EXCEPT !.op = "notify"]
             d == [db[n] EXCEPT !.pages = {step[n].ltx.post}, !.pos = step[n].ltx.post]
  <2>2. w \in Writer
    BY <2>1 DEF Writer
  <2>3. d \in DB
    BY <1>1, <2>1, FileTypes
  <2>4. Closed(n) \in Conns
    BY <1>1, ConnUpdate DEF Closed
  <2>5. UNCHANGED <<lease, up, isPrimary, ready, left>>
    BY <1>7 DEF VerifyPages
  <2>6. \/ db' = [db EXCEPT ![n] = d] /\ step' = [step EXCEPT ![n] = w] /\ conn' = conn
        \/ db' = db /\ step' = [step EXCEPT ![n] = Free] /\ conn' = Closed(n)
    BY <1>7 DEF VerifyPages
  <2> HIDE DEF d, w
  <2> QED BY <1>1, <2>2, <2>3, <2>4, <2>5, <2>6, TypeDB
<1>8. CASE ReceiveReady(n)
  <2>1. conn' \in Conns
    BY <1>8, ReceiveTypes DEF ReceiveReady
  <2> QED BY <1>8, <2>1 DEF ReceiveReady, TypeOK, Conns
<1>9. CASE ReceiveDrop(n)
  <2>1. Rest(n) \in Conns
    BY <1>9, ReceiveTypes DEF ReceiveDrop
  <2>2. conn' \in Conns
    BY <1>9, <2>1, OrphanType, EffectTypes DEF ReceiveDrop
  <2>3. db' = [db EXCEPT ![n] = NoDB] /\ step' = step
        /\ UNCHANGED <<lease, up, isPrimary, ready, left>>
    BY <1>9 DEF ReceiveDrop
  <2> QED BY <1>1, <2>2, <2>3, EmptyTypes, TypeDB
<1>10. CASE ReceiveBroken(n)
  <2>1. Existing(db[n]) \in DB /\ Closed(n) \in Conns
    BY <1>10, ReceiveTypes DEF ReceiveBroken
  <2>2. conn' \in Conns
    BY <1>10, <2>1, CreatedType DEF ReceiveBroken
  <2>3. db' = [db EXCEPT ![n] = Existing(db[n])] /\ step' = step
        /\ UNCHANGED <<lease, up, isPrimary, ready, left>>
    BY <1>10 DEF ReceiveBroken
  <2> QED BY <1>1, <2>1, <2>2, <2>3, TypeDB
<1>11. CASE Disconnect(n)
  BY <1>1, <1>11, ConnUpdate, TypeConn DEF Disconnect, Closed
<1> QED BY <1>2, <1>3, <1>4, <1>5, <1>6, <1>7, <1>8, <1>9, <1>10, <1>11 DEF ReplicaStep

\* The lease, the applications, crashes and restarts keep the types.
LEMMA StoreTypes ==
  ASSUME TypeOK, NEW n \in Node, CommitStep(n) \/ LeaseStep(n) \/ EnvStep(n)
  PROVE  TypeOK'
<1>1. db[n] \in DB /\ db = [db EXCEPT ![n] = db[n]] /\ step = [step EXCEPT ![n] = step[n]]
      /\ step[n] \in Writer \cup {Free} /\ conn \in Conns
  BY DEF TypeOK, Conns
<1>2. <<>> \in History
  BY DEF History
<1>3. CASE CommitDone(n)
  <2>1. step[n] \in Writer /\ step[n].ltx \in LTX
    BY <1>3, BusyType DEF CommitDone
  <2> DEFINE w == [step[n] EXCEPT !.op = "notify"]
             d == [db[n] EXCEPT !.pages = {step[n].ltx.post}, !.pos = step[n].ltx.post]
  <2>2. w \in Writer
    BY <2>1 DEF Writer
  <2>3. d \in DB
    BY <1>1, <2>1, FileTypes
  <2>4. db' = [db EXCEPT ![n] = d] /\ step' = [step EXCEPT ![n] = w]
        /\ UNCHANGED <<lease, up, isPrimary, ready, conn, left>>
    BY <1>3 DEF CommitDone
  <2> HIDE DEF d, w
  <2> QED BY <1>1, <2>2, <2>3, <2>4, TypeDB
<1>4. CASE Notify(n)
  <2>1. conn' \in Conns
    BY <1>1, <1>4, EffectTypes DEF Notify
  <2> QED BY <1>1, <1>4, <2>1, TypeDB DEF Notify
<1>5. CASE AcquireLease(n)
  <2>1. left' \in [Event -> Nat] /\ \A e \in Event : left'[e] <= Budget[e]
    BY <1>5, SpendType DEF AcquireLease, Event
  <2> QED BY <1>5, <2>1 DEF AcquireLease, TypeOK
<1>6. CASE \E s \in Node : Connect(n, s)
  <2>1. PICK s \in Node : Connect(n, s)
    BY <1>6
  <2> DEFINE c == [server |-> s, cpos |-> db[n].pos, from |-> <<>>, gone |-> None,
        phase |-> IF db[n].exists \/ db[s].exists THEN "lookup" ELSE "flushed",
        notify |-> FALSE, dirty |-> FALSE, readySent |-> FALSE,
        cancelled |-> FALSE, skipped |-> FALSE, q |-> <<>>]
  <2>2. c \in Conn
    BY <1>1, <1>2 DEF Conn, Phase, DB
  <2>3. conn' = [conn EXCEPT ![n] = c]
        /\ UNCHANGED <<lease, up, isPrimary, ready, db, step, left>>
    BY <2>1 DEF Connect
  <2> HIDE DEF c
  <2> QED BY <1>1, <2>2, <2>3, ConnUpdate, TypeConn
<1>7. CASE StepDown(n)
  <2>1. conn' \in Conns
    BY <1>1, <1>7, EffectTypes DEF StepDown
  <2> QED BY <1>7, <2>1 DEF StepDown, TypeOK, Conns
<1>8. CASE CreateDB(n)
  <2>1. conn' \in Conns
    BY <1>1, <1>8, EffectTypes DEF CreateDB
  <2> QED BY <1>1, <1>8, <2>1, EmptyTypes, TypeDB DEF CreateDB
<1>9. CASE DropDB(n)
  <2>1. conn' \in Conns
    BY <1>1, <1>9, OrphanType, EffectTypes DEF DropDB
  <2>2. left' \in [Event -> Nat] /\ \A e \in Event : left'[e] <= Budget[e]
    BY <1>9, SpendType DEF DropDB, Event
  <2> QED BY <1>9, <2>1, <2>2, EmptyTypes DEF DropDB, TypeOK, Conns
<1>10. CASE CommitLTX(n)
  <2> DEFINE post == Append(db[n].pos, Budget["tx"] - left["tx"] + 1)
             f    == [min |-> Len(post), post |-> post, node |-> n]
             d    == [db[n] EXCEPT !.ltx = AddFile(@, f)]
             w    == [op |-> "commit", ltx |-> f]
  <2>1. left' \in [Event -> Nat] /\ \A e \in Event : left'[e] <= Budget[e]
    BY <1>10, SpendType DEF CommitLTX, Event
  <2>2. Budget["tx"] - left["tx"] + 1 \in TxNumber
    BY <1>10, NewTxNumber DEF CommitLTX, Spend
  <2>3. post \in History /\ Len(post) \in Nat \ {0}
    BY <1>1, <2>2, AppendHistory DEF DB
  <2> HIDE DEF post
  <2>4. f \in LTX
    BY <2>3 DEF LTX
  <2>5. d \in DB
    BY <1>1, <2>4, FileTypes
  <2>6. w \in Writer
    BY <2>4 DEF Writer
  <2>7. db' = [db EXCEPT ![n] = d] /\ step' = [step EXCEPT ![n] = w]
        /\ UNCHANGED <<lease, up, isPrimary, ready, conn>>
    BY <1>10 DEF CommitLTX, post
  <2> HIDE DEF d, w
  <2> QED BY <2>1, <2>5, <2>6, <2>7 DEF TypeOK
<1>11. CASE EnforceRetention(n)
  <2>1. left' \in [Event -> Nat] /\ \A e \in Event : left'[e] <= Budget[e]
    BY <1>11, SpendType DEF EnforceRetention, Event
  <2>2. PICK old \in SUBSET db[n].ltx : db' = [db EXCEPT ![n].ltx = @ \ old]
    BY <1>11 DEF EnforceRetention
  <2>3. [db[n] EXCEPT !.ltx = @ \ old] \in DB
    BY <1>1 DEF DB
  <2>4. db' \in [Node -> DB]
    BY <2>2, <2>3 DEF TypeOK
  <2> QED BY <1>11, <2>1, <2>4 DEF EnforceRetention, TypeOK
<1>12. CASE Crash(n)
  <2>1. left' \in [Event -> Nat] /\ \A e \in Event : left'[e] <= Budget[e]
    BY <1>12, SpendType DEF Crash, Event
  <2>2. conn' \in Conns
    BY <1>1, <1>12, EffectTypes, ConnUpdate DEF Crash
  <2>3. [db[n] EXCEPT !.pos = <<>>] \in DB
    BY <1>1, <1>2 DEF DB
  <2>4. db' \in [Node -> DB]
    BY <1>12, <2>3 DEF TypeOK, Crash
  <2> QED BY <1>12, <2>1, <2>2, <2>4 DEF Crash, TypeOK, Conns
<1>13. CASE Restart(n)
  <2>1. \A f \in db[n].ltx : Opened(db[n], f) \in DB
    BY <1>1, FileTypes DEF Opened, DB
  <2>2. db' \in [Node -> DB]
    BY <1>13, <2>1 DEF Restart, TypeOK
  <2> QED BY <1>13, <2>2 DEF Restart, TypeOK
<1>14. CASE Cut(n)
  <2>1. left' \in [Event -> Nat] /\ \A e \in Event : left'[e] <= Budget[e]
    BY <1>14, SpendType DEF Cut, Event
  <2>2. conn' \in Conns
    BY <1>1, <1>14, ConnUpdate DEF Cut, Closed
  <2> QED BY <1>14, <2>1, <2>2 DEF Cut, TypeOK, Conns
<1> QED BY <1>3, <1>4, <1>5, <1>6, <1>7, <1>8, <1>9, <1>10, <1>11, <1>12, <1>13, <1>14
        DEF CommitStep, LeaseStep, EnvStep

\* The initial state has the types.
LEMMA TypeInit == Init => TypeOK
BY BudgetAssumption, EmptyTypes DEF Init, TypeOK, Event

\* Every step keeps the types.
LEMMA TypeNext == TypeOK /\ [Next]_vars => TypeOK'
<1> SUFFICES ASSUME TypeOK, [Next]_vars
             PROVE  TypeOK'
  OBVIOUS
<1>1. CASE LeaseExpire
  <2>1. left' \in [Event -> Nat] /\ \A e \in Event : left'[e] <= Budget[e]
    BY <1>1, SpendType DEF LeaseExpire, TypeOK, Event
  <2> QED BY <1>1, <2>1 DEF LeaseExpire, TypeOK
<1>2. ASSUME NEW n \in Node,
             ServerStep(n) \/ ReplicaStep(n) \/ CommitStep(n) \/ LeaseStep(n) \/ EnvStep(n)
      PROVE  TypeOK'
  BY <1>2, ServerTypes, ReplicaTypes, StoreTypes
<1>3. CASE UNCHANGED vars
  BY <1>3 DEF vars, TypeOK
<1> QED BY <1>1, <1>2, <1>3 DEF Next

\* Type correctness of the replication protocol (store.go, http/server.go): in
\* particular TXIDs stay positive, every frame under way is one the replica
\* understands, and a writer always has the LTX file it works for.
THEOREM TypeCorrect == Spec => []TypeOK
<1> QED BY TypeInit, TypeNext, PTL DEF Spec

-----------------------------------------------------------------------------
(* The pages of a database are those of its position. *)

\* Only node n has changed.
LEMMA OneNode ==
  ASSUME WritersConsistent, NEW n \in Node, WriterConsistent(n)',
         \A m \in Node \ {n} : /\ db'[m] = db[m] /\ step'[m] = step[m]
                               /\ m \in up' <=> m \in up
  PROVE  WritersConsistent'
BY DEF WritersConsistent, WriterConsistent

\* Nothing that matters has changed.
LEMMA NoNode ==
  ASSUME WritersConsistent, UNCHANGED <<db, step, up>>
  PROVE  WritersConsistent'
BY DEF WritersConsistent, WriterConsistent

\* The file that is added is in the directory afterwards.
LEMMA Added == ASSUME NEW F, NEW f PROVE f \in AddFile(F, f)
BY DEF AddFile

\* Each step of a replica keeps what the writers have established.
LEMMA ConsistentReplica ==
  ASSUME TypeOK, WritersConsistent, NEW n \in Node, ReplicaStep(n)
  PROVE  WritersConsistent'
<1>1. db \in [Node -> DB] /\ step \in [Node -> Writer \cup {Free}] /\ WriterConsistent(n)
  BY DEF TypeOK, WritersConsistent
<1>2. ASSUME Receives(n, "ltx") \/ Receives(n, "broken"), UNCHANGED <<step, up>>,
             db' = [db EXCEPT ![n] = Existing(@)]
      PROVE  WritersConsistent'
  <2>1. n \in up /\ step[n] = Free
    BY <1>2 DEF Receives
  <2>2. WriterConsistent(n)'
    BY <1>1, <1>2, <2>1 DEF WriterConsistent, Existing, EmptyDB, NoDB, Free
  <2> QED BY <1>1, <1>2, <2>2, OneNode
<1>3. CASE SkipLTX(n) \/ RejectLTX(n) \/ ReceiveBroken(n)
  BY <1>2, <1>3 DEF SkipLTX, RejectLTX, ReceiveBroken
<1>4. CASE RenameLTX(n)
  <2> DEFINE f == Head(conn[n].q).ltx
             e == Existing(db[n])
             d == [e EXCEPT !.ltx = AddFile(@, f)]
             w == [op |-> IF IsSnapshot(f) THEN "trim" ELSE "apply", ltx |-> f]
  <2>1. n \in up /\ step[n] = Free /\ up' = up
    BY <1>4 DEF RenameLTX, Receives
  <2>2. e \in DB /\ e.pages = {e.pos} /\ e.exists
    BY <1>1, <2>1, EmptyTypes DEF WriterConsistent, Existing, EmptyDB, NoDB, Free
  <2>3. IsSnapshot(f) \/ e.pos = PreApply(f)
    BY <1>4 DEF RenameLTX, PositionMatches
  <2>4. db' = [db EXCEPT ![n] = d] /\ step' = [step EXCEPT ![n] = w]
    BY <1>4 DEF RenameLTX
  <2> HIDE DEF e, f
  <2>5. db'[n] = d /\ step'[n] = w
    BY <1>1, <2>4
  <2>6. d.pages = e.pages /\ d.pos = e.pos /\ d.exists = e.exists /\ d.ltx = AddFile(e.ltx, f)
    BY <2>2 DEF DB
  <2>7. f \in d.ltx
    BY <2>6, Added
  <2>8. w # Free /\ w.ltx = f /\ w.op \in {"trim", "apply"}
        /\ (w.op = "trim" <=> IsSnapshot(f))
    BY DEF Free
  <2> HIDE DEF d, w
  <2>9. WriterConsistent(n)'
    BY <2>1, <2>2, <2>3, <2>5, <2>6, <2>7, <2>8 DEF WriterConsistent
  <2> QED BY <1>1, <2>1, <2>4, <2>9, OneNode
<1>5. CASE RemoveFile(n)
  <2>1. step[n] # Free /\ step[n] \in Writer /\ n \in up /\ up' = up /\ step[n].op = "trim"
    BY <1>1, <1>5, BusyType DEF RemoveFile, WriterConsistent
  <2>2. IsSnapshot(step[n].ltx) /\ step[n].ltx \in db[n].ltx /\ db[n].pages = {db[n].pos}
        /\ db[n].exists
    BY <1>1, <2>1 DEF WriterConsistent
  <2>3. CASE db' = db /\ step' = [step EXCEPT ![n].op = "apply"]
    <3>1. step'[n] = [step[n] EXCEPT !.op = "apply"]
      BY <1>1, <2>3
    <3>2. step'[n].op = "apply" /\ step'[n].ltx = step[n].ltx
      BY <2>1, <3>1 DEF Writer
    <3>3. WriterConsistent(n)'
      BY <2>1, <2>2, <2>3, <3>2 DEF WriterConsistent
    <3> QED BY <1>1, <2>1, <2>3, <3>3, OneNode
  <2>4. ASSUME NEW f \in db[n].ltx \ {step[n].ltx},
               db' = [db EXCEPT ![n].ltx = @ \ {f}], step' = step
        PROVE  WritersConsistent'
    <3>1. db'[n].pages = db[n].pages /\ db'[n].pos = db[n].pos /\ db'[n].ltx = db[n].ltx \ {f}
          /\ db'[n].exists = db[n].exists
      BY <1>1, <2>4 DEF DB
    <3>2. WriterConsistent(n)'
      BY <2>1, <2>2, <2>4, <3>1 DEF WriterConsistent
    <3> QED BY <1>1, <2>1, <2>4, <3>2, OneNode
  <2> QED BY <1>5, <2>3, <2>4 DEF RemoveFile
<1>6. CASE WritePages(n)
  <2>1. step[n] # Free /\ step[n] \in Writer /\ n \in up /\ up' = up /\ step[n].op = "apply"
    BY <1>1, <1>6, BusyType DEF WritePages, WriterConsistent
  <2>2. /\ IsSnapshot(step[n].ltx) \/ db[n].pos = PreApply(step[n].ltx)
        /\ step[n].ltx \in db[n].ltx /\ db[n].pages = {db[n].pos}
        /\ db[n].exists
    BY <1>1, <2>1 DEF WriterConsistent
  <2>3. db'[n].pages = db[n].pages \cup {step[n].ltx.post} /\ db'[n].ltx = db[n].ltx
        /\ db'[n].exists = db[n].exists
    BY <1>1, <1>6 DEF WritePages, DB
  <2>4. step'[n].op = "verify" /\ step'[n].ltx = step[n].ltx
    BY <1>1, <1>6, <2>1 DEF WritePages, Writer
  <2>5. Applies(step[n].ltx, db'[n].pages)
    BY <2>2, <2>3 DEF Applies
  <2>6. WriterConsistent(n)'
    BY <2>1, <2>2, <2>3, <2>4, <2>5 DEF WriterConsistent, Applies
  <2> QED BY <1>1, <1>6, <2>6, OneNode DEF WritePages
<1>7. CASE VerifyPages(n)
  <2>1. step[n] # Free /\ step[n] \in Writer /\ n \in up /\ up' = up /\ step[n].op = "verify"
    BY <1>1, <1>7, BusyType DEF VerifyPages, WriterConsistent
  <2>2. Applies(step[n].ltx, db[n].pages) /\ step[n].ltx \in db[n].ltx /\ db[n].exists
    BY <1>1, <2>1 DEF WriterConsistent
  <2>3. /\ db' = [db EXCEPT ![n].pages = {step[n].ltx.post}, ![n].pos = step[n].ltx.post]
        /\ step' = [step EXCEPT ![n].op = "notify"]
    BY <1>7, <2>2 DEF VerifyPages
  <2>4. db'[n].pages = {db'[n].pos} /\ db'[n].ltx = db[n].ltx
        /\ db'[n].exists = db[n].exists
    BY <1>1, <2>3 DEF DB
  <2>5. step'[n].op = "notify" /\ step'[n].ltx = step[n].ltx
    BY <1>1, <2>1, <2>3 DEF Writer
  <2>6. WriterConsistent(n)'
    BY <2>1, <2>2, <2>4, <2>5 DEF WriterConsistent
  <2> QED BY <1>1, <2>1, <2>3, <2>6, OneNode
<1>8. CASE ReceiveDrop(n)
  <2>1. n \in up /\ step[n] = Free /\ UNCHANGED <<up, step>> /\ db' = [db EXCEPT ![n] = NoDB]
    BY <1>8 DEF ReceiveDrop, Receives
  <2>2. WriterConsistent(n)'
    BY <1>1, <2>1 DEF WriterConsistent, NoDB, Free
  <2> QED BY <1>1, <2>1, <2>2, OneNode
<1>9. CASE ReceiveReady(n) \/ Disconnect(n)
  BY <1>9, NoNode DEF ReceiveReady, Disconnect
<1> QED BY <1>3, <1>4, <1>5, <1>6, <1>7, <1>8, <1>9 DEF ReplicaStep

\* So does each step of a commit, of the lease loop and of the environment.
LEMMA ConsistentStore ==
  ASSUME TypeOK, WritersConsistent, NEW n \in Node, CommitStep(n) \/ LeaseStep(n) \/ EnvStep(n)
  PROVE  WritersConsistent'
<1>1. db \in [Node -> DB] /\ step \in [Node -> Writer \cup {Free}] /\ WriterConsistent(n)
  BY DEF TypeOK, WritersConsistent
<1>2. CASE CommitDone(n)
  <2>1. step[n] # Free /\ step[n] \in Writer /\ n \in up /\ up' = up
    BY <1>1, <1>2, BusyType DEF CommitDone, WriterConsistent
  <2>2. step[n].ltx \in db[n].ltx /\ db[n].exists
    BY <1>1, <2>1 DEF WriterConsistent
  <2>3. db'[n].pages = {db'[n].pos} /\ db'[n].ltx = db[n].ltx
        /\ db'[n].exists = db[n].exists
    BY <1>1, <1>2 DEF CommitDone, DB
  <2>4. step'[n].op = "notify" /\ step'[n].ltx = step[n].ltx
    BY <1>1, <1>2, <2>1 DEF CommitDone, Writer
  <2>5. WriterConsistent(n)'
    BY <2>1, <2>2, <2>3, <2>4 DEF WriterConsistent
  <2> QED BY <1>1, <1>2, <2>5, OneNode DEF CommitDone
<1>3. CASE Notify(n)
  <2>1. n \in up /\ up' = up /\ db' = db /\ step' = [step EXCEPT ![n] = Free]
        /\ step[n].op = "notify"
    BY <1>1, <1>3, BusyType DEF Notify, WriterConsistent
  <2>2. WriterConsistent(n)'
    BY <1>1, <2>1 DEF WriterConsistent, Free
  <2> QED BY <1>1, <2>1, <2>2, OneNode
<1>4. CASE AcquireLease(n) \/ (\E s \in Node : Connect(n, s)) \/ StepDown(n) \/ Cut(n)
  BY <1>4, NoNode DEF AcquireLease, Connect, StepDown, Cut
<1>5. CASE CreateDB(n)
  <2>1. db' = [db EXCEPT ![n] = EmptyDB] /\ UNCHANGED <<step, up>> /\ n \in up /\ ~db[n].exists
    BY <1>5 DEF CreateDB
  <2>2. WriterConsistent(n)'
    BY <1>1, <2>1 DEF WriterConsistent, EmptyDB, NoDB, Free
  <2> QED BY <1>1, <2>1, <2>2, OneNode
<1>6. CASE DropDB(n)
  <2>1. db' = [db EXCEPT ![n] = NoDB] /\ step' = [step EXCEPT ![n] = Free] /\ up' = up
        /\ n \in up
    BY <1>6 DEF DropDB
  <2>2. WriterConsistent(n)'
    BY <1>1, <2>1 DEF WriterConsistent, NoDB, Free
  <2> QED BY <1>1, <2>1, <2>2, OneNode
<1>7. CASE CommitLTX(n)
  <2>1. PICK f : /\ db' = [db EXCEPT ![n].ltx = AddFile(@, f)]
                 /\ step' = [step EXCEPT ![n] = [op |-> "commit", ltx |-> f]]
    BY <1>7 DEF CommitLTX
  <2>2. n \in up /\ step[n] = Free /\ up' = up /\ db[n].exists
    BY <1>7 DEF CommitLTX
  <2>3. db'[n].pages = db[n].pages /\ db'[n].pos = db[n].pos /\ f \in db'[n].ltx
        /\ db'[n].exists = db[n].exists
    BY <1>1, <2>1, Added DEF DB
  <2>4. step'[n].op = "commit" /\ step'[n].ltx = f
    BY <1>1, <2>1
  <2>5. WriterConsistent(n)'
    BY <1>1, <2>2, <2>3, <2>4 DEF WriterConsistent, Free
  <2> QED BY <1>1, <2>1, <2>2, <2>5, OneNode
<1>8. CASE EnforceRetention(n)
  <2>0. PICK latest \in db[n].ltx : \E old \in SUBSET (db[n].ltx \ {latest}) :
          /\ step[n] # Free => step[n].ltx \notin old
          /\ db' = [db EXCEPT ![n].ltx = @ \ old]
    BY <1>8 DEF EnforceRetention
  <2>1. PICK old \in SUBSET (db[n].ltx \ {latest}) :
          /\ step[n] # Free => step[n].ltx \notin old
          /\ db' = [db EXCEPT ![n].ltx = @ \ old]
    BY <2>0
  <2>2. UNCHANGED <<step, up>>
    BY <1>8 DEF EnforceRetention
  <2>3. db'[n].pages = db[n].pages /\ db'[n].pos = db[n].pos /\ db'[n].ltx = db[n].ltx \ old
        /\ db'[n].exists = db[n].exists
    BY <1>1, <2>1 DEF DB
  <2>4. db'[n].ltx # {}
    BY <2>1, <2>3
  <2>5. WriterConsistent(n)'
    BY <1>1, <2>1, <2>2, <2>3, <2>4 DEF WriterConsistent
  <2> QED BY <1>1, <2>1, <2>2, <2>5, OneNode
<1>9. CASE Crash(n)
  <2>1. db' = [db EXCEPT ![n].pos = <<>>] /\ step' = [step EXCEPT ![n] = Free]
        /\ up' = up \ {n}
    BY <1>9 DEF Crash
  <2>2. db'[n].pages = db[n].pages /\ db'[n].pos = <<>> /\ db'[n].ltx = db[n].ltx
    BY <1>1, <2>1 DEF DB
  <2>3. WriterConsistent(n)'
    BY <1>1, <2>1, <2>2 DEF WriterConsistent, Free
  <2> QED BY <1>1, <2>1, <2>3, OneNode
<1>10. CASE Restart(n)
  <2>1. n \notin up /\ up' = up \cup {n} /\ step' = step /\ step[n] = Free /\ db[n].pos = <<>>
    BY <1>1, <1>10 DEF Restart, WriterConsistent
  <2>2. CASE db[n].ltx = {} /\ db' = db
    <3>1. WriterConsistent(n)'
      BY <1>1, <2>1, <2>2 DEF WriterConsistent, Free
    <3> QED BY <2>1, <2>2, <3>1, OneNode
  <2>3. ASSUME NEW f \in db[n].ltx, db' = [db EXCEPT ![n] = Opened(@, f)]
        PROVE  WritersConsistent'
    <3>1. db'[n].pages = {db'[n].pos} /\ db'[n].ltx = db[n].ltx
      BY <1>1, <2>3 DEF Opened, DB
    <3>2. WriterConsistent(n)'
      BY <2>1, <2>3, <3>1 DEF WriterConsistent, Free
    <3> QED BY <1>1, <2>1, <2>3, <3>2, OneNode
  <2> QED BY <1>10, <2>2, <2>3 DEF Restart
<1> QED BY <1>2, <1>3, <1>4, <1>5, <1>6, <1>7, <1>8, <1>9, <1>10
        DEF CommitStep, LeaseStep, EnvStep

\* Nobody writes at first, and the databases are empty.
LEMMA ConsistentInit == Init => WritersConsistent
BY DEF Init, WritersConsistent, WriterConsistent, NoDB, Free

\* Every step keeps what the writers have established.
LEMMA ConsistentNext == TypeOK /\ WritersConsistent /\ [Next]_vars => WritersConsistent'
<1> SUFFICES ASSUME TypeOK, WritersConsistent, [Next]_vars
             PROVE  WritersConsistent'
  OBVIOUS
<1>1. CASE LeaseExpire
  BY <1>1, NoNode DEF LeaseExpire
<1>2. ASSUME NEW n \in Node, ServerStep(n)
      PROVE  WritersConsistent'
  BY <1>2, NoNode DEF ServerStep, Lookup, SendDrop, Check, SendLTX, SendSnapshot,
                      SendReady, Wake, TakeDirtySet, SendEnd
<1>3. CASE UNCHANGED vars
  BY <1>3, NoNode DEF vars
<1> QED BY <1>1, <1>2, <1>3, ConsistentReplica, ConsistentStore DEF Next

\* For any cluster and any interleaving of commits, streams, lease changes, drops,
\* retention, crashes and restarts, every writer finds its database as it left it.
THEOREM WritersAreConsistent == Spec => []WritersConsistent
<1> QED BY TypeInit, TypeNext, ConsistentInit, ConsistentNext, PTL DEF Spec

\* The position a node reports is what its database holds (setPos in db.go).
THEOREM PosIsContent == Spec => []PosMatchesContent
<1>1. TypeOK /\ WritersConsistent => PosMatchesContent
  BY DEF TypeOK, WritersConsistent, WriterConsistent, PosMatchesContent
<1> QED BY <1>1, TypeCorrect, WritersAreConsistent, PTL

-----------------------------------------------------------------------------
(* No change of a database is missed by the handler of a stream. *)

IsLive(c) == c # None /\ c.phase # "ended"

\* What a handler has sent is what database d holds.  (streamDB compares TXIDs
\* only: nothing is sent of an empty database.)
Sent(c, d) == d.pos = c.cpos \/ (d.exists /\ d.pos = <<>>)

\* NoLostWakeup at every step of a handler that serves database d, whose write
\* lock is at op.  A name in the dirty set comes with a notification, until the
\* handler takes one; a handler inside streamDB has the database in Store.dbs, or
\* it has the name in its dirty set; a handler that is done has sent what there
\* is, or it will be told.
Awake(c, d, op) ==
  /\ c.phase # "woken" /\ c.dirty => c.notify
  /\ c.phase \in {"check", "send"} => IF c.gone = None THEN d.exists ELSE c.dirty
  /\ c.phase \in {"flushed", "wait", "woken"} => c.dirty \/ op = "notify" \/ Sent(c, d)

\* Every stream that has not ended is awake, and its server runs.
StreamsAwake ==
  \A m \in Node :
    IsLive(conn[m]) => /\ Server(m) \in up
                       /\ Awake(conn[m], db[Server(m)], step[Server(m)].op)

\* A database that is not there has no files and no position.
AbsentEmpty == \A n \in Node : ~db[n].exists => db[n].pos = <<>> /\ db[n].ltx = {}

\* Stream e is stream c but for the frames under way and the frames the handler
\* has still to send.
Kept(c, e) ==
  /\ IsLive(c) /\ e.server = c.server /\ e.phase = c.phase /\ e.cpos = c.cpos
  /\ e.gone = c.gone /\ e.notify = c.notify /\ e.dirty = c.dirty

\* Stream e is stream c after Store.markDirty.
Marked(c, e) ==
  /\ IsLive(c) /\ e.server = c.server /\ e.phase = c.phase
  /\ e.notify = TRUE /\ e.dirty = TRUE

\* Only node n has changed.
LEMMA AbsentOne ==
  ASSUME AbsentEmpty, NEW n \in Node, \A m \in Node \ {n} : db'[m] = db[m],
         ~db'[n].exists => db'[n].pos = <<>> /\ db'[n].ltx = {}
  PROVE  AbsentEmpty'
BY DEF AbsentEmpty

\* Every step keeps a database that is not there empty.
LEMMA AbsentNext ==
  TypeOK /\ WritersConsistent /\ AbsentEmpty /\ [Next]_vars => AbsentEmpty'
<1> SUFFICES ASSUME TypeOK, WritersConsistent, AbsentEmpty, [Next]_vars
             PROVE  AbsentEmpty'
  OBVIOUS
<1>1. CASE UNCHANGED db
  BY <1>1 DEF AbsentEmpty
<1>2. CASE LeaseExpire \/ UNCHANGED vars
  BY <1>1, <1>2 DEF LeaseExpire, vars
<1>3. ASSUME NEW n \in Node,
             ServerStep(n) \/ ReplicaStep(n) \/ CommitStep(n) \/ LeaseStep(n) \/ EnvStep(n)
      PROVE  AbsentEmpty'
  <2>1. db \in [Node -> DB] /\ WriterConsistent(n)
    BY DEF TypeOK, WritersConsistent
  <2>2. ~db[n].exists => db[n].pos = <<>> /\ db[n].ltx = {}
    BY DEF AbsentEmpty
  <2>3. CASE ServerStep(n)
    BY <1>1, <2>3 DEF ServerStep, Lookup, SendDrop, Check, SendLTX, SendSnapshot,
                      SendReady, Wake, TakeDirtySet, SendEnd
  <2>4. CASE \/ ReceiveReady(n) \/ Disconnect(n) \/ Notify(n) \/ LeaseStep(n)
             \/ StepDown(n) \/ Cut(n)
    BY <1>1, <2>4 DEF ReceiveReady, Disconnect, Notify, LeaseStep, AcquireLease, Connect,
                      StepDown, Cut
  <2>5. CASE \/ SkipLTX(n) \/ RejectLTX(n) \/ ReceiveBroken(n) \/ ReceiveDrop(n)
             \/ CreateDB(n) \/ DropDB(n)
    <3>1. db' = [db EXCEPT ![n] = Existing(db[n])] \/ db' = [db EXCEPT ![n] = NoDB]
          \/ db' = [db EXCEPT ![n] = EmptyDB]
      BY <2>5 DEF SkipLTX, RejectLTX, ReceiveBroken, ReceiveDrop, CreateDB, DropDB
    <3>2. \A m \in Node \ {n} : db'[m] = db[m]
      BY <2>1, <3>1
    <3>3. db'[n] \in {Existing(db[n]), NoDB, EmptyDB}
      BY <2>1, <3>1
    <3>4. ~db'[n].exists => db'[n].pos = <<>> /\ db'[n].ltx = {}
      BY <2>2, <3>3 DEF Existing, NoDB, EmptyDB
    <3> QED BY <3>2, <3>4, AbsentOne
  <2>6. CASE RenameLTX(n)
    <3>1. PICK f : db' = [db EXCEPT ![n] = [Existing(db[n]) EXCEPT !.ltx = AddFile(@, f)]]
      BY <2>6 DEF RenameLTX
    <3>2. Existing(db[n]).exists /\ Existing(db[n]) \in DB
      BY <2>1, EmptyTypes DEF Existing, EmptyDB, NoDB
    <3>3. db'[n].exists /\ \A m \in Node \ {n} : db'[m] = db[m]
      BY <2>1, <3>1, <3>2 DEF DB
    <3> QED BY <3>3, AbsentOne
  <2>7. CASE RemoveFile(n) \/ WritePages(n) \/ VerifyPages(n) \/ CommitDone(n) \/ CommitLTX(n)
    <3>1. db[n].exists
      BY <2>1, <2>7, BusyType DEF RemoveFile, WritePages, VerifyPages, CommitDone, CommitLTX,
                                  WriterConsistent
    <3>2. db'[n].exists /\ \A m \in Node \ {n} : db'[m] = db[m]
      BY <2>1, <2>7, <3>1 DEF RemoveFile, WritePages, VerifyPages, CommitDone, CommitLTX, DB
    <3> QED BY <3>2, AbsentOne
  <2>8. CASE EnforceRetention(n)
    <3>1. PICK old : db' = [db EXCEPT ![n].ltx = @ \ old]
      BY <2>8 DEF EnforceRetention
    <3>2. /\ db'[n].exists = db[n].exists /\ db'[n].pos = db[n].pos
          /\ db'[n].ltx = db[n].ltx \ old /\ \A m \in Node \ {n} : db'[m] = db[m]
      BY <2>1, <3>1 DEF DB
    <3> QED BY <2>2, <3>2, AbsentOne
  <2>9. CASE Crash(n)
    <3>1. /\ db'[n].exists = db[n].exists /\ db'[n].pos = <<>>
          /\ db'[n].ltx = db[n].ltx /\ \A m \in Node \ {n} : db'[m] = db[m]
      BY <2>1, <2>9 DEF Crash, DB
    <3> QED BY <2>2, <3>1, AbsentOne
  <2>10. CASE Restart(n)
    <3>1. CASE db' = db
      BY <1>1, <3>1
    <3>2. ASSUME NEW f \in db[n].ltx, db' = [db EXCEPT ![n] = Opened(@, f)]
          PROVE  AbsentEmpty'
      <4>1. db'[n].exists = db[n].exists /\ \A m \in Node \ {n} : db'[m] = db[m]
        BY <2>1, <3>2 DEF Opened, DB
      <4> QED BY <2>2, <3>2, <4>1, AbsentOne
    <3> QED BY <2>10, <3>1, <3>2 DEF Restart
  <2> QED BY <1>3, <2>3, <2>4, <2>5, <2>6, <2>7, <2>8, <2>9, <2>10
          DEF ReplicaStep, CommitStep, EnvStep
<1> QED BY <1>2, <1>3 DEF Next

\* A stream whose server's database has not changed, and whose notification is
\* not given up.
LEMMA AwakeKept ==
  ASSUME NEW c, NEW e, NEW d, NEW x, NEW op, NEW oq, Kept(c, e), Awake(c, d, op),
         x.pos = d.pos, x.exists = d.exists, op = "notify" => oq = "notify"
  PROVE  Awake(e, x, oq)
BY DEF Kept, Awake, Sent

\* The position changes, and a notification is due.
LEMMA AwakeNews ==
  ASSUME NEW c, NEW e, NEW d, NEW x, NEW op, Kept(c, e), Awake(c, d, op),
         x.exists = d.exists
  PROVE  Awake(e, x, "notify")
BY DEF Kept, Awake

\* Whatever happened to the database, the subscriber has been told.
LEMMA AwakeMarked ==
  ASSUME NEW c, NEW e, NEW x, NEW oq, Marked(c, e),
         e.phase \in {"check", "send"} /\ e.gone = None => x.exists
  PROVE  Awake(e, x, oq)
BY DEF Marked, Awake

\* The server of a live stream is a node.
LEMMA ServerNode ==
  ASSUME TypeOK, NEW m \in Node, IsLive(conn[m])
  PROVE  conn[m] \in Conn /\ Server(m) \in Node
BY DEF TypeOK, IsLive, Server, Conn

\* Store.markDirty on node n: its streams are marked, the others kept.
LEMMA MarkDirtyStreams ==
  ASSUME NEW cs \in Conns, NEW n \in Node, NEW m \in Node, IsLive(MarkDirty(n, cs)[m])
  PROVE  /\ IsLive(cs[m])
         /\ cs[m].server = n => Marked(cs[m], MarkDirty(n, cs)[m])
                                /\ MarkDirty(n, cs)[m].gone = cs[m].gone
         /\ cs[m].server # n => MarkDirty(n, cs)[m] = cs[m]
<1> DEFINE e == [cs[m] EXCEPT !.dirty = TRUE, !.notify = TRUE]
<1>1. MarkDirty(n, cs)[m] = IF Serves(n, cs[m]) THEN e ELSE cs[m]
  BY DEF MarkDirty
<1>2. CASE Serves(n, cs[m])
  <2>1. cs[m] \in Conn /\ IsLive(cs[m]) /\ cs[m].server = n
    BY <1>2 DEF Conns, Serves, IsLive
  <2>2. Marked(cs[m], e) /\ e.gone = cs[m].gone
    BY <2>1 DEF Marked, Conn
  <2> QED BY <1>1, <1>2, <2>1, <2>2
<1>3. CASE ~Serves(n, cs[m])
  BY <1>1, <1>3 DEF Serves, IsLive
<1> QED BY <1>2, <1>3

\* Only stream n has changed.
LEMMA OneStream ==
  ASSUME TypeOK, StreamsAwake, NEW n \in Node, NEW c,
         conn' = [conn EXCEPT ![n] = c], UNCHANGED <<db, step, up>>,
         IsLive(c) => c.server \in up /\ Awake(c, db[c.server], step[c.server].op)
  PROVE  StreamsAwake'
<1> SUFFICES ASSUME NEW m \in Node, IsLive(conn'[m])
             PROVE  /\ conn'[m].server \in up
                    /\ Awake(conn'[m], db[conn'[m].server], step[conn'[m].server].op)
  BY DEF StreamsAwake, Server
<1>1. conn'[n] = c /\ (m # n => conn'[m] = conn[m])
  BY DEF TypeOK
<1>2. CASE m = n
  BY <1>1, <1>2
<1>3. CASE m # n
  BY <1>1, <1>3 DEF StreamsAwake, Server
<1> QED BY <1>2, <1>3

\* A step of node n that keeps every live stream, and the position of its
\* database unless a notification is due.
LEMMA KeptStreams ==
  ASSUME TypeOK, StreamsAwake, NEW n \in Node, up' = up,
         \A m \in Node : IsLive(conn'[m]) => Kept(conn[m], conn'[m]),
         \A m \in Node \ {n} : db'[m] = db[m] /\ step'[m] = step[m],
         db'[n].exists = db[n].exists,
         \/ step'[n].op = "notify"
         \/ db'[n].pos = db[n].pos /\ step[n].op # "notify"
         \/ db'[n].pos = db[n].pos /\ step'[n] = step[n]
  PROVE  StreamsAwake'
<1> SUFFICES ASSUME NEW m \in Node, IsLive(conn'[m])
             PROVE  /\ conn'[m].server \in up
                    /\ Awake(conn'[m], db'[conn'[m].server], step'[conn'[m].server].op)
  BY DEF StreamsAwake, Server
<1>1. Kept(conn[m], conn'[m]) /\ IsLive(conn[m]) /\ conn'[m].server = conn[m].server
  BY DEF Kept
<1> DEFINE s == conn[m].server
<1>2. s \in Node /\ s \in up /\ Awake(conn[m], db[s], step[s].op)
  BY <1>1, ServerNode DEF StreamsAwake, Server
<1>3. CASE s # n
  <2>1. db'[s] = db[s] /\ step'[s] = step[s]
    BY <1>2, <1>3
  <2> QED BY <1>1, <1>2, <2>1, AwakeKept
<1>4. CASE s = n /\ step'[n].op = "notify"
  BY <1>1, <1>2, <1>4, AwakeNews
<1>5. CASE s = n /\ db'[n].pos = db[n].pos /\ (step[n].op = "notify" => step'[n].op = "notify")
  BY <1>1, <1>2, <1>5, AwakeKept
<1> QED BY <1>3, <1>4, <1>5

\* A step of node n that ends with Store.markDirty.
LEMMA MarkedStreams ==
  ASSUME TypeOK, StreamsAwake, NEW n \in Node, up' = up, n \in up, NEW cs \in Conns,
         conn' = MarkDirty(n, cs),
         \A m \in Node : IsLive(cs[m]) => IsLive(conn[m]) /\ cs[m].server = conn[m].server,
         \A m \in Node : IsLive(cs[m]) /\ cs[m].server # n => Kept(conn[m], cs[m]),
         \A m \in Node : IsLive(cs[m]) /\ cs[m].server = n =>
                           (cs[m].phase \in {"check", "send"} /\ cs[m].gone = None => db'[n].exists),
         \A m \in Node \ {n} : db'[m] = db[m] /\ step'[m] = step[m]
  PROVE  StreamsAwake'
<1> SUFFICES ASSUME NEW m \in Node, IsLive(conn'[m])
             PROVE  /\ conn'[m].server \in up
                    /\ Awake(conn'[m], db'[conn'[m].server], step'[conn'[m].server].op)
  BY DEF StreamsAwake, Server
<1>1. /\ IsLive(cs[m])
      /\ cs[m].server = n => Marked(cs[m], conn'[m]) /\ conn'[m].gone = cs[m].gone
      /\ cs[m].server # n => conn'[m] = cs[m]
  BY MarkDirtyStreams
<1>2. CASE cs[m].server = n
  <2>1. conn'[m].server = n /\ conn'[m].phase = cs[m].phase
    BY <1>1, <1>2 DEF Marked
  <2> QED BY <1>1, <1>2, <2>1, AwakeMarked
<1>3. CASE cs[m].server # n
  <2> DEFINE s == conn[m].server
  <2>1. Kept(conn[m], conn'[m]) /\ IsLive(conn[m]) /\ conn'[m].server = s /\ s # n
    BY <1>1, <1>3 DEF Kept
  <2>2. s \in Node /\ s \in up /\ Awake(conn[m], db[s], step[s].op)
    BY <2>1, ServerNode DEF StreamsAwake, Server
  <2>3. db'[s] = db[s] /\ step'[s] = step[s]
    BY <2>1, <2>2
  <2> QED BY <2>1, <2>2, <2>3, AwakeKept
<1> QED BY <1>2, <1>3

\* The handler of a stream stays awake.
LEMMA AwakeServer ==
  ASSUME TypeOK, AbsentEmpty, StreamsAwake, NEW n \in Node, ServerStep(n)
  PROVE  StreamsAwake'
<1>1. UNCHANGED <<db, step, up>>
  BY DEF ServerStep, Lookup, SendDrop, Check, SendLTX, SendSnapshot, SendReady, Wake,
         TakeDirtySet, SendEnd
<1>2. IsLive(conn[n])
  BY DEF ServerStep, Lookup, SendDrop, Check, SendLTX, SendSnapshot, SendReady, Wake,
         TakeDirtySet, SendEnd, Serving, IsLive
<1> DEFINE s == conn[n].server
           d == db[s]
           op == step[s].op
           b == conn[n]
<1>3. b \in Conn /\ s \in Node /\ s \in up /\ Awake(b, d, op) /\ s = Server(n)
  BY <1>2, ServerNode DEF StreamsAwake, Server
<1>4. d.pos \in History /\ (~d.exists => d.pos = <<>>)
  BY <1>3 DEF TypeOK, DB, AbsentEmpty
<1>5. CASE Lookup(n)
  <2> DEFINE c == [b EXCEPT !.phase = "check", !.gone = None]
  <2>1. b.phase = "lookup" /\ d.exists /\ conn' = [conn EXCEPT ![n] = c]
    BY <1>5, <1>3 DEF Lookup, Serving
  <2>2. c.server = s /\ Awake(c, d, op)
    BY <1>3, <2>1 DEF Awake, Conn
  <2> HIDE DEF c
  <2> QED BY <1>1, <1>3, <2>1, <2>2, OneStream
<1>6. CASE SendDrop(n)
  <2> DEFINE c == [b EXCEPT !.phase = "flushed", !.cpos = <<>>,
                            !.q = Append(@, [kind |-> "drop"])]
  <2>1. b.phase = "lookup" /\ ~d.exists /\ conn' = [conn EXCEPT ![n] = c]
    BY <1>6, <1>3 DEF SendDrop, Serving
  <2>2. c.server = s /\ c.phase = "flushed" /\ c.cpos = <<>> /\ c.dirty = b.dirty
        /\ c.notify = b.notify
    BY <1>3 DEF Conn
  <2>3. Awake(c, d, op)
    BY <1>3, <1>4, <2>1, <2>2 DEF Awake, Sent
  <2> HIDE DEF c
  <2> QED BY <1>1, <1>3, <2>1, <2>2, <2>3, OneStream
<1>7. CASE Check(n)
  <2> DEFINE cp == ClientPos(b.cpos, ServerPos(n))
             c == [b EXCEPT !.phase = "flushed", !.gone = None]
             e == [b EXCEPT !.phase = "send", !.from = cp]
  <2>1. b.phase = "check"
    BY <1>7 DEF Check, Serving
  <2>2. \/ conn' = [conn EXCEPT ![n] = c] /\ Len(cp) >= Len(ServerPos(n))
        \/ conn' = [conn EXCEPT ![n] = e]
    BY <1>7 DEF Check
  <2>3. e.server = s /\ Awake(e, d, op)
    BY <1>3, <2>1 DEF Awake, Conn
  <2>4. c.server = s /\ c.phase = "flushed" /\ c.cpos = b.cpos /\ c.dirty = b.dirty
        /\ c.notify = b.notify
    BY <1>3 DEF Conn
  <2>5. ASSUME Len(cp) >= Len(ServerPos(n))
        PROVE  Awake(c, d, op)
    <3>1. CASE b.gone = None
      <4>1. d.exists /\ ServerPos(n) = d.pos
        BY <1>3, <2>1, <3>1 DEF Awake, ServerPos
      <4>2. b.cpos \in History
        BY <1>3 DEF Conn
      <4>3. CASE cp = b.cpos
        <5>1. d.pos = b.cpos \/ (cp = <<>> /\ d.pos = <<>>)
          BY <1>4, <2>5, <4>1, <4>2, <4>3 DEF ClientPos, History
        <5> QED BY <1>3, <2>1, <2>4, <4>1, <5>1 DEF Awake, Sent
      <4>4. CASE cp = <<>>
        <5>1. d.pos = <<>>
          BY <1>4, <2>5, <4>1, <4>4 DEF History
        <5> QED BY <1>3, <2>1, <2>4, <4>1, <5>1 DEF Awake, Sent
      <4> QED BY <4>3, <4>4 DEF ClientPos
    <3>2. CASE b.gone # None
      BY <1>3, <2>1, <2>4, <3>2 DEF Awake
    <3> QED BY <3>1, <3>2
  <2> HIDE DEF c, e, cp
  <2> QED BY <1>1, <1>3, <2>2, <2>3, <2>4, <2>5, OneStream
<1>8. ASSUME NEW f \in LTX, SendFrame(n, f), b.phase = "send"
      PROVE  StreamsAwake'
  <2> DEFINE c == [b EXCEPT !.q = Append(@, [kind |-> "ltx", ltx |-> f]), !.cpos = f.post,
                            !.phase = "check", !.from = <<>>]
  <2>1. conn' = [conn EXCEPT ![n] = c]
    BY <1>8 DEF SendFrame
  <2>2. c.server = s /\ c.phase = "check" /\ c.gone = b.gone /\ c.dirty = b.dirty
        /\ c.notify = b.notify
    BY <1>3 DEF Conn
  <2>3. Awake(c, d, op)
    BY <1>3, <1>8, <2>2 DEF Awake
  <2> HIDE DEF c
  <2> QED BY <1>1, <1>3, <2>1, <2>2, <2>3, OneStream
<1>9. CASE SendLTX(n)
  <2>1. PICK f \in Streamable(n) : SendFrame(n, f)
    BY <1>9 DEF SendLTX
  <2>2. f \in LTX /\ b.phase = "send"
    BY <1>3, <1>9 DEF Streamable, TypeOK, DB, SendLTX, Serving
  <2> QED BY <1>8, <2>1, <2>2
<1>10. CASE SendSnapshot(n)
  <2> DEFINE f == [min |-> 1, post |-> db[Server(n)].pos, node |-> Server(n)]
             c == [b EXCEPT !.q = Append(@, [kind |-> "broken"]), !.phase = "ended"]
  <2>1. f \in LTX /\ b.phase = "send"
    BY <1>3, <1>10 DEF LTX, TypeOK, DB, SendSnapshot, Serving
  <2>2. SendFrame(n, f) \/ conn' = [conn EXCEPT ![n] = c]
    BY <1>10 DEF SendSnapshot
  <2>3. ~IsLive(c)
    BY <1>3 DEF IsLive, Conn
  <2> HIDE DEF c, f
  <2> QED BY <1>1, <1>8, <2>1, <2>2, <2>3, OneStream
<1>11. CASE SendReady(n)
  <2> DEFINE c == [b EXCEPT !.phase = "wait"]
             e == [b EXCEPT !.phase = "wait", !.readySent = TRUE,
                            !.q = Append(@, [kind |-> "ready"])]
  <2>1. b.phase = "flushed" /\ (conn' = [conn EXCEPT ![n] = c] \/ conn' = [conn EXCEPT ![n] = e])
    BY <1>11 DEF SendReady, Serving
  <2>2. \A x \in {c, e} : x.server = s /\ x.phase = "wait" /\ x.cpos = b.cpos
                          /\ x.dirty = b.dirty /\ x.notify = b.notify
    BY <1>3 DEF Conn
  <2> HIDE DEF c, e
  <2>3. \A x \in {c, e} : Awake(x, d, op)
    BY <1>3, <2>1, <2>2 DEF Awake, Sent
  <2> QED BY <1>1, <1>3, <2>1, <2>2, <2>3, OneStream
<1>12. CASE Wake(n)
  <2> DEFINE c == [b EXCEPT !.phase = "woken", !.notify = FALSE]
  <2>1. b.phase = "wait" /\ conn' = [conn EXCEPT ![n] = c]
    BY <1>12 DEF Wake, Serving
  <2>2. c.server = s /\ Awake(c, d, op)
    BY <1>3, <2>1 DEF Awake, Sent, Conn
  <2> HIDE DEF c
  <2> QED BY <1>1, <1>3, <2>1, <2>2, OneStream
<1>13. CASE TakeDirtySet(n)
  <2> DEFINE c == [b EXCEPT !.dirty = FALSE, !.phase = IF b.dirty THEN "lookup" ELSE "wait"]
  <2>1. b.phase = "woken" /\ conn' = [conn EXCEPT ![n] = c]
    BY <1>13 DEF TakeDirtySet, Serving
  <2>2. c.server = s /\ c.dirty = FALSE /\ c.cpos = b.cpos
        /\ c.phase = IF b.dirty THEN "lookup" ELSE "wait"
    BY <1>3 DEF Conn
  <2>3. Awake(c, d, op)
    BY <1>3, <2>1, <2>2 DEF Awake, Sent
  <2> HIDE DEF c
  <2> QED BY <1>1, <1>3, <2>1, <2>2, <2>3, OneStream
<1>14. CASE SendEnd(n)
  <2> DEFINE c == [b EXCEPT !.phase = "ended", !.q = Append(@, [kind |-> "end"])]
  <2>1. conn' = [conn EXCEPT ![n] = c]
    BY <1>14 DEF SendEnd
  <2>2. ~IsLive(c)
    BY <1>3 DEF IsLive, Conn
  <2> HIDE DEF c
  <2> QED BY <1>1, <2>1, <2>2, OneStream
<1> QED BY <1>5, <1>6, <1>7, <1>9, <1>10, <1>11, <1>12, <1>13, <1>14 DEF ServerStep

\* A position is not None.
LEMMA NoneNoHistory == None \notin History
BY NoneAssumption DEF History, TxNumber

\* Reading a frame, or closing the connection of n, keeps every stream that lives.
LEMMA ReadKept ==
  ASSUME TypeOK, NEW n \in Node, NEW m \in Node
  PROVE  /\ conn[n] # None /\ IsLive(Rest(n)[m]) => Kept(conn[m], Rest(n)[m])
         /\ conn[n] # None /\ IsLive(Passed(n)[m]) => Kept(conn[m], Passed(n)[m])
         /\ IsLive(Closed(n)[m]) => Kept(conn[m], Closed(n)[m])
         /\ IsLive(conn[m]) => Kept(conn[m], conn[m])
<1>1. conn \in [Node -> Conn \cup {None}]
  BY DEF TypeOK
<1>2. IsLive(conn[m]) => Kept(conn[m], conn[m])
  BY DEF Kept
<1>3. CASE m # n
  <2>1. Rest(n)[m] = conn[m] /\ Closed(n)[m] = conn[m] /\ Passed(n)[m] = conn[m]
    BY <1>1, <1>3 DEF Rest, Closed, Passed
  <2> QED BY <1>2, <2>1
<1>4. CASE m = n
  <2>1. ~IsLive(Closed(n)[m])
    BY <1>1, <1>4 DEF Closed, IsLive
  <2>2. ASSUME conn[n] # None, IsLive(Rest(n)[n])
        PROVE  Kept(conn[n], Rest(n)[n])
    <3> DEFINE c == [conn[n] EXCEPT !.q = Tail(@)]
    <3>1. conn[n] \in Conn /\ Rest(n)[n] = c
      BY <1>1, <2>2 DEF Rest
    <3>2. /\ c.server = conn[n].server /\ c.phase = conn[n].phase /\ c.cpos = conn[n].cpos
          /\ c.gone = conn[n].gone /\ c.notify = conn[n].notify /\ c.dirty = conn[n].dirty
      BY <3>1 DEF Conn
    <3>3. IsLive(conn[n])
      BY <2>2, <3>1, <3>2 DEF IsLive
    <3> QED BY <3>1, <3>2, <3>3 DEF Kept
  <2>3. ASSUME conn[n] # None, IsLive(Passed(n)[n])
        PROVE  Kept(conn[n], Passed(n)[n])
    <3> DEFINE c == [conn[n] EXCEPT !.q = Tail(@), !.skipped = TRUE]
    <3>1. conn[n] \in Conn /\ Passed(n)[n] = c
      BY <1>1, <2>3 DEF Passed, Rest, Conn
    <3>2. /\ c.server = conn[n].server /\ c.phase = conn[n].phase /\ c.cpos = conn[n].cpos
          /\ c.gone = conn[n].gone /\ c.notify = conn[n].notify /\ c.dirty = conn[n].dirty
      BY <3>1 DEF Conn
    <3>3. IsLive(conn[n])
      BY <2>3, <3>1, <3>2 DEF IsLive
    <3> QED BY <3>1, <3>2, <3>3 DEF Kept
  <2> QED BY <1>2, <1>4, <2>1, <2>2, <2>3
<1> QED BY <1>3, <1>4

\* CreateDBIfNotExists on node n, which has read a frame or closed its connection.
LEMMA CreatedStreams ==
  ASSUME TypeOK, StreamsAwake, NEW n \in Node, n \in up, up' = up, NEW cs \in Conns,
         \A m \in Node : IsLive(cs[m]) => Kept(conn[m], cs[m]),
         conn' = Created(n, cs), step[n] = Free,
         \A m \in Node \ {n} : db'[m] = db[m] /\ step'[m] = step[m],
         db'[n].exists, db[n].exists => db'[n].pos = db[n].pos
  PROVE  StreamsAwake'
<1>1. step[n].op # "notify"
  BY DEF Free
<1>2. CASE db[n].exists
  <2>1. conn' = cs
    BY <1>2 DEF Created
  <2>2. db'[n].exists = db[n].exists
    BY <1>2 DEF TypeOK, DB
  <2> QED BY <1>1, <1>2, <2>1, <2>2, KeptStreams
<1>3. CASE ~db[n].exists
  <2>1. conn' = MarkDirty(n, cs)
    BY <1>3 DEF Created
  <2>2. \A m \in Node : IsLive(cs[m]) => IsLive(conn[m]) /\ cs[m].server = conn[m].server
    BY DEF Kept
  <2> QED BY <2>1, <2>2, MarkedStreams
<1> QED BY <1>2, <1>3

\* Store.DropDB on node n, which may have read a frame: the handlers inside streamDB
\* keep the dropped object, and every handler is told.
LEMMA DroppedStreams ==
  ASSUME TypeOK, StreamsAwake, NEW n \in Node, n \in up, up' = up, NEW cs \in Conns,
         \A m \in Node : IsLive(cs[m]) => Kept(conn[m], cs[m]),
         conn' = MarkDirty(n, Orphan(n, cs)),
         \A m \in Node \ {n} : db'[m] = db[m] /\ step'[m] = step[m]
  PROVE  StreamsAwake'
<1> DEFINE os == Orphan(n, cs)
<1>1. os \in Conns
  BY OrphanType
<1>2. ASSUME NEW m \in Node, IsLive(os[m])
      PROVE  /\ IsLive(conn[m]) /\ os[m].server = conn[m].server
             /\ os[m].server # n => Kept(conn[m], os[m])
             /\ os[m].server = n => ~(os[m].phase \in {"check", "send"} /\ os[m].gone = None)
  <2> DEFINE e == [cs[m] EXCEPT !.gone = db[n].pos]
  <2>1. os[m] = IF Serves(n, cs[m]) /\ cs[m].phase \in {"check", "send"} /\ cs[m].gone = None
                THEN e ELSE cs[m]
    BY DEF Orphan
  <2>2. CASE os[m] = cs[m] /\ ~(Serves(n, cs[m]) /\ cs[m].phase \in {"check", "send"}
                                /\ cs[m].gone = None)
    BY <1>2, <2>2 DEF Kept, Serves, IsLive
  <2>3. CASE os[m] = e /\ Serves(n, cs[m])
    <3>1. cs[m] \in Conn /\ IsLive(cs[m]) /\ cs[m].server = n
      BY <2>3 DEF Conns, Serves, IsLive
    <3>2. e.server = n /\ e.gone = db[n].pos
      BY <3>1 DEF Conn
    <3>3. db[n].pos # None
      <4>1. db[n].pos \in History
        BY DEF TypeOK, DB
      <4> QED BY <4>1, NoneNoHistory
    <3> QED BY <2>3, <3>1, <3>2, <3>3 DEF Kept
  <2> QED BY <2>1, <2>2, <2>3
<1> HIDE DEF os
<1>3. \A m \in Node : IsLive(os[m]) => IsLive(conn[m]) /\ os[m].server = conn[m].server
  BY <1>2
<1>4. \A m \in Node : IsLive(os[m]) /\ os[m].server # n => Kept(conn[m], os[m])
  BY <1>2
<1>5. \A m \in Node : IsLive(os[m]) /\ os[m].server = n =>
                        (os[m].phase \in {"check", "send"} /\ os[m].gone = None => db'[n].exists)
  BY <1>2
<1>6. conn' = MarkDirty(n, os)
  BY DEF os
<1> QED BY <1>1, <1>3, <1>4, <1>5, <1>6, MarkedStreams

\* The replica loop of a node keeps the streams it serves awake.
LEMMA AwakeReplica ==
  ASSUME TypeOK, WritersConsistent, AbsentEmpty, StreamsAwake, NEW n \in Node, ReplicaStep(n)
  PROVE  StreamsAwake'
<1>1. db \in [Node -> DB] /\ step \in [Node -> Writer \cup {Free}] /\ conn \in Conns
      /\ WriterConsistent(n)
  BY DEF TypeOK, WritersConsistent, Conns
<1>2. CASE SkipLTX(n) \/ RejectLTX(n) \/ ReceiveBroken(n)
  <2>1. Receives(n, "ltx") \/ Receives(n, "broken")
    BY <1>2 DEF SkipLTX, RejectLTX, ReceiveBroken
  <2>2. n \in up /\ step[n] = Free /\ conn[n] # None
    BY <2>1 DEF Receives
  <2>3. db' = [db EXCEPT ![n] = Existing(db[n])] /\ UNCHANGED <<up, step>>
        /\ (conn' = Created(n, Passed(n)) \/ conn' = Created(n, Closed(n)))
    BY <1>2 DEF SkipLTX, RejectLTX, ReceiveBroken
  <2>4. \A m \in Node \ {n} : db'[m] = db[m] /\ step'[m] = step[m]
    BY <1>1, <2>3
  <2>5. db'[n].exists /\ (db[n].exists => db'[n].pos = db[n].pos)
    BY <1>1, <2>3 DEF Existing, EmptyDB, NoDB
  <2>6. Passed(n) \in Conns /\ Closed(n) \in Conns
    BY <2>1, ReceiveTypes
  <2>7. PICK cs \in {Passed(n), Closed(n)} : conn' = Created(n, cs)
    BY <2>3
  <2>8. \A m \in Node : IsLive(cs[m]) => Kept(conn[m], cs[m])
    BY <2>2, <2>7, ReadKept
  <2> QED BY <2>2, <2>3, <2>4, <2>5, <2>6, <2>7, <2>8, CreatedStreams
<1>3. CASE RenameLTX(n)
  <2>1. n \in up /\ step[n] = Free /\ conn[n] # None /\ Receives(n, "ltx")
    BY <1>3 DEF RenameLTX, Receives
  <2>2. PICK f : db' = [db EXCEPT ![n] = [Existing(db[n]) EXCEPT !.ltx = AddFile(@, f)]]
    BY <1>3 DEF RenameLTX
  <2>3. PICK w : step' = [step EXCEPT ![n] = w]
    BY <1>3 DEF RenameLTX
  <2>4. up' = up /\ conn' = Created(n, Rest(n))
    BY <1>3 DEF RenameLTX
  <2>5. \A m \in Node \ {n} : db'[m] = db[m] /\ step'[m] = step[m]
    BY <1>1, <2>2, <2>3
  <2>6. Existing(db[n]) \in DB /\ Existing(db[n]).exists
        /\ (db[n].exists => Existing(db[n]).pos = db[n].pos)
    BY <1>1, EmptyTypes DEF Existing, EmptyDB, NoDB
  <2>7. db'[n].exists /\ (db[n].exists => db'[n].pos = db[n].pos)
    BY <1>1, <2>2, <2>6 DEF DB
  <2>8. Rest(n) \in Conns /\ \A m \in Node : IsLive(Rest(n)[m]) => Kept(conn[m], Rest(n)[m])
    BY <2>1, ReceiveTypes, ReadKept
  <2> QED BY <2>1, <2>4, <2>5, <2>7, <2>8, CreatedStreams
<1>4. CASE RemoveFile(n) \/ WritePages(n)
  <2>1. step[n].op # "notify" /\ UNCHANGED <<up, conn>>
    BY <1>4 DEF RemoveFile, WritePages
  <2>2. /\ \A m \in Node \ {n} : db'[m] = db[m] /\ step'[m] = step[m]
        /\ db'[n].pos = db[n].pos /\ db'[n].exists = db[n].exists
    BY <1>1, <1>4 DEF RemoveFile, WritePages, DB
  <2>3. \A m \in Node : IsLive(conn'[m]) => Kept(conn[m], conn'[m])
    BY <2>1, ReadKept
  <2> QED BY <2>1, <2>2, <2>3, KeptStreams
<1>5. CASE VerifyPages(n)
  <2>1. step[n].op = "verify" /\ up' = up /\ step[n] \in Writer
    BY <1>5, BusyType DEF VerifyPages
  <2>2. conn' = conn \/ conn' = Closed(n)
    BY <1>5 DEF VerifyPages
  <2>3. \A m \in Node : IsLive(conn'[m]) => Kept(conn[m], conn'[m])
    BY <2>2, ReadKept
  <2>4. \A m \in Node \ {n} : db'[m] = db[m] /\ step'[m] = step[m]
    BY <1>1, <1>5 DEF VerifyPages
  <2>5. db'[n].exists = db[n].exists /\ (step'[n].op = "notify" \/ db'[n].pos = db[n].pos)
    BY <1>1, <1>5, <2>1 DEF VerifyPages, DB, Writer
  <2> QED BY <2>1, <2>3, <2>4, <2>5, KeptStreams
<1>6. CASE ReceiveReady(n) \/ Disconnect(n)
  <2>1. UNCHANGED <<db, step, up>>
    BY <1>6 DEF ReceiveReady, Disconnect
  <2>2. conn[n] # None /\ (conn' = Rest(n) \/ conn' = Closed(n))
    BY <1>6 DEF ReceiveReady, Disconnect, Receives
  <2>3. \A m \in Node : IsLive(conn'[m]) => Kept(conn[m], conn'[m])
    BY <2>2, ReadKept
  <2> QED BY <2>1, <2>3, KeptStreams
<1>7. CASE ReceiveDrop(n)
  <2>1. n \in up /\ conn[n] # None /\ Receives(n, "drop")
    BY <1>7 DEF ReceiveDrop, Receives
  <2>2. UNCHANGED <<up, step>> /\ db' = [db EXCEPT ![n] = NoDB]
    BY <1>7 DEF ReceiveDrop
  <2>3. Rest(n) \in Conns /\ \A m \in Node : IsLive(Rest(n)[m]) => Kept(conn[m], Rest(n)[m])
    BY <2>1, ReceiveTypes, ReadKept
  <2>4. \A m \in Node \ {n} : db'[m] = db[m] /\ step'[m] = step[m]
    BY <1>1, <2>2
  <2>5. CASE db[n].exists
    <3>1. conn' = MarkDirty(n, Orphan(n, Rest(n)))
      BY <1>7, <2>5 DEF ReceiveDrop
    <3> QED BY <2>1, <2>2, <2>3, <2>4, <3>1, DroppedStreams
  <2>6. CASE ~db[n].exists
    <3>1. conn' = Rest(n)
      BY <1>7, <2>6 DEF ReceiveDrop
    <3>2. db[n].pos = <<>> /\ db[n].exists = FALSE
      BY <1>1, <2>6 DEF AbsentEmpty, DB
    <3>3. db'[n].pos = db[n].pos /\ db'[n].exists = db[n].exists
      BY <1>1, <2>2, <3>2 DEF NoDB
    <3> QED BY <2>2, <2>3, <2>4, <3>1, <3>3, KeptStreams
  <2> QED BY <2>5, <2>6
<1> QED BY <1>2, <1>3, <1>4, <1>5, <1>6, <1>7 DEF ReplicaStep

\* Commits, lease changes, applications and the environment keep the streams awake.
LEMMA AwakeStore ==
  ASSUME TypeOK, WritersConsistent, AbsentEmpty, StreamsAwake, NEW n \in Node,
         CommitStep(n) \/ LeaseStep(n) \/ EnvStep(n)
  PROVE  StreamsAwake'
<1>1. db \in [Node -> DB] /\ step \in [Node -> Writer \cup {Free}] /\ conn \in Conns
      /\ WriterConsistent(n)
  BY DEF TypeOK, WritersConsistent, Conns
<1>2. \A m \in Node : IsLive(conn[m]) => Kept(conn[m], conn[m])
  BY ReadKept
<1>3. CASE CommitDone(n)
  <2>1. UNCHANGED <<up, conn>> /\ step[n] \in Writer
    BY <1>3, BusyType DEF CommitDone
  <2>2. /\ \A m \in Node \ {n} : db'[m] = db[m] /\ step'[m] = step[m]
        /\ db'[n].exists = db[n].exists
    BY <1>1, <1>3 DEF CommitDone, DB
  <2>3. step'[n].op = "notify"
    BY <1>1, <1>3, <2>1 DEF CommitDone, Writer
  <2> QED BY <1>2, <2>1, <2>2, <2>3, KeptStreams
<1>4. CASE Notify(n)
  <2>1. n \in up /\ UNCHANGED <<up, db>> /\ conn' = MarkDirty(n, conn)
        /\ step' = [step EXCEPT ![n] = Free]
    BY <1>1, <1>4, BusyType DEF Notify, WriterConsistent
  <2>2. \A m \in Node \ {n} : db'[m] = db[m] /\ step'[m] = step[m]
    BY <1>1, <2>1
  <2>3. ASSUME NEW m \in Node, IsLive(conn[m]), conn[m].server = n,
               conn[m].phase \in {"check", "send"}, conn[m].gone = None
        PROVE  db'[n].exists
    BY <2>1, <2>3 DEF StreamsAwake, Awake, Server
  <2> QED BY <1>1, <1>2, <2>1, <2>2, <2>3, MarkedStreams
<1>5. CASE AcquireLease(n) \/ StepDown(n) \/ Cut(n)
  <2>1. UNCHANGED <<up, db, step>> /\ (conn' = conn \/ conn' = Cancel(n, conn) \/ conn' = Closed(n))
    BY <1>5 DEF AcquireLease, StepDown, Cut
  <2>2. ASSUME NEW m \in Node, IsLive(Cancel(n, conn)[m])
        PROVE  Kept(conn[m], Cancel(n, conn)[m])
    <3> DEFINE e == [conn[m] EXCEPT !.cancelled = TRUE]
    <3>1. CASE Cancel(n, conn)[m] = conn[m]
      BY <1>2, <2>2, <3>1
    <3>2. CASE Serves(n, conn[m]) /\ Cancel(n, conn)[m] = e
      <4>1. conn[m] \in Conn /\ IsLive(conn[m])
        BY <1>1, <3>2 DEF Conns, Serves, IsLive
      <4> QED BY <3>2, <4>1 DEF Kept, Conn
    <3> QED BY <3>1, <3>2 DEF Cancel
  <2>3. \A m \in Node : IsLive(conn'[m]) => Kept(conn[m], conn'[m])
    BY <1>2, <2>1, <2>2, ReadKept
  <2> QED BY <2>1, <2>3, KeptStreams
<1>6. CASE \E s \in Node : Connect(n, s)
  <2>1. PICK s \in Node : Connect(n, s)
    BY <1>6
  <2> DEFINE c == [server |-> s, cpos |-> db[n].pos, from |-> <<>>, gone |-> None,
                   phase |-> IF db[n].exists \/ db[s].exists THEN "lookup" ELSE "flushed",
                   notify |-> FALSE, dirty |-> FALSE, readySent |-> FALSE,
                   cancelled |-> FALSE, skipped |-> FALSE, q |-> <<>>]
  <2>2. conn' = [conn EXCEPT ![n] = c] /\ s \in up /\ UNCHANGED <<db, step, up>>
    BY <2>1 DEF Connect
  <2>3. /\ c.server = s /\ c.dirty = FALSE /\ c.cpos = db[n].pos
        /\ c.phase = IF db[n].exists \/ db[s].exists THEN "lookup" ELSE "flushed"
    OBVIOUS
  <2> HIDE DEF c
  <2>4. Awake(c, db[s], step[s].op)
    BY <2>3 DEF Awake, Sent, AbsentEmpty
  <2> QED BY <2>2, <2>3, <2>4, OneStream
<1>7. CASE CreateDB(n)
  <2>1. n \in up /\ UNCHANGED <<up, step>> /\ conn' = MarkDirty(n, conn)
        /\ db' = [db EXCEPT ![n] = EmptyDB]
    BY <1>7 DEF CreateDB
  <2>2. db'[n].exists /\ \A m \in Node \ {n} : db'[m] = db[m] /\ step'[m] = step[m]
    BY <1>1, <2>1 DEF EmptyDB, NoDB
  <2> QED BY <1>1, <1>2, <2>1, <2>2, MarkedStreams
<1>8. CASE DropDB(n)
  <2>1. n \in up /\ up' = up /\ conn' = MarkDirty(n, Orphan(n, conn))
        /\ db' = [db EXCEPT ![n] = NoDB] /\ step' = [step EXCEPT ![n] = Free]
    BY <1>8 DEF DropDB
  <2>2. \A m \in Node \ {n} : db'[m] = db[m] /\ step'[m] = step[m]
    BY <1>1, <2>1
  <2> QED BY <1>1, <1>2, <2>1, <2>2, DroppedStreams
<1>9. CASE CommitLTX(n)
  <2>1. UNCHANGED <<up, conn>> /\ step[n].op # "notify"
    BY <1>9 DEF CommitLTX, Free
  <2>2. /\ \A m \in Node \ {n} : db'[m] = db[m] /\ step'[m] = step[m]
        /\ db'[n].exists = db[n].exists /\ db'[n].pos = db[n].pos
    BY <1>1, <1>9 DEF CommitLTX, DB
  <2> QED BY <1>2, <2>1, <2>2, KeptStreams
<1>10. CASE EnforceRetention(n)
  <2>1. UNCHANGED <<up, conn, step>>
    BY <1>10 DEF EnforceRetention
  <2>2. PICK old : db' = [db EXCEPT ![n].ltx = @ \ old]
    BY <1>10 DEF EnforceRetention
  <2>3. /\ \A m \in Node \ {n} : db'[m] = db[m] /\ step'[m] = step[m]
        /\ db'[n].exists = db[n].exists /\ db'[n].pos = db[n].pos
    BY <1>1, <2>1, <2>2 DEF DB
  <2> QED BY <1>2, <2>1, <2>3, KeptStreams
<1>11. CASE Crash(n) \/ Restart(n)
  <2>1. \A m \in Node \ {n} : db'[m] = db[m] /\ step'[m] = step[m] /\ (m \in up <=> m \in up')
    BY <1>1, <1>11 DEF Crash, Restart
  <2>2. ASSUME NEW m \in Node, IsLive(conn'[m])
        PROVE  IsLive(conn[m]) /\ conn'[m] = conn[m] /\ Server(m) # n
    <3>1. CASE Restart(n)
      BY <2>2, <3>1 DEF Restart, StreamsAwake
    <3>2. CASE Crash(n)
      <4>1. conn' = [Sever(n, conn) EXCEPT ![n] = None] /\ Sever(n, conn) \in Conns
        BY <1>1, <3>2, EffectTypes DEF Crash
      <4>2. m # n
        BY <2>2, <4>1 DEF IsLive, Conns
      <4>3. conn'[m] = IF Serves(n, conn[m]) THEN [conn[m] EXCEPT !.phase = "ended"] ELSE conn[m]
        BY <4>1, <4>2 DEF Conns, Sever
      <4>4. ~Serves(n, conn[m])
        <5> SUFFICES ASSUME Serves(n, conn[m]) PROVE FALSE
          OBVIOUS
        <5>1. conn[m] \in Conn
          BY <1>1 DEF Conns, Serves
        <5> QED BY <2>2, <4>3, <5>1 DEF IsLive, Conn
      <4> QED BY <2>2, <4>3, <4>4 DEF IsLive, Serves, Server
    <3> QED BY <1>11, <3>1, <3>2
  <2>3. ASSUME NEW m \in Node, IsLive(conn'[m])
        PROVE  /\ conn'[m].server \in up'
               /\ Awake(conn'[m], db'[conn'[m].server], step'[conn'[m].server].op)
    <3>1. IsLive(conn[m]) /\ conn'[m] = conn[m] /\ Server(m) # n
      BY <2>2, <2>3
    <3>2. Server(m) \in Node /\ Server(m) \in up
          /\ Awake(conn[m], db[Server(m)], step[Server(m)].op)
      BY <3>1, ServerNode DEF StreamsAwake
    <3> QED BY <2>1, <3>1, <3>2 DEF Server
  <2> QED BY <2>3 DEF StreamsAwake, Server
<1> QED BY <1>3, <1>4, <1>5, <1>6, <1>7, <1>8, <1>9, <1>10, <1>11
        DEF CommitStep, LeaseStep, EnvStep

\* Every step keeps the streams awake.
LEMMA AwakeNext ==
  TypeOK /\ WritersConsistent /\ AbsentEmpty /\ StreamsAwake /\ [Next]_vars => StreamsAwake'
<1> SUFFICES ASSUME TypeOK, WritersConsistent, AbsentEmpty, StreamsAwake, [Next]_vars
             PROVE  StreamsAwake'
  OBVIOUS
<1>1. CASE LeaseExpire \/ UNCHANGED vars
  <2>1. UNCHANGED <<up, db, step, conn>>
    BY <1>1 DEF LeaseExpire, vars
  <2> QED BY <2>1 DEF StreamsAwake, Server
<1> QED BY <1>1, AwakeServer, AwakeReplica, AwakeStore DEF Next

\* For any cluster, no handler of handlePostStream waits for a notification that
\* never comes: what changed between its DirtySet, Pos and select has been sent or
\* will wake it.
THEOREM NoWakeupIsLost == Spec => []NoLostWakeup
<1>1. Init => AbsentEmpty /\ StreamsAwake
  BY DEF Init, AbsentEmpty, StreamsAwake, IsLive, NoDB
<1>2. StreamsAwake => NoLostWakeup
  BY DEF StreamsAwake, Awake, Sent, NoLostWakeup, Serving, IsLive
<1> QED BY <1>1, <1>2, TypeCorrect, WritersAreConsistent, AbsentNext, AwakeNext, PTL DEF Spec

-----------------------------------------------------------------------------
(* Wherever a node is stopped, DB.Open succeeds. *)

\* The name of an LTX file: one transaction, or everything up to one.
Named(f) == f.post # <<>> /\ (f.min = 1 \/ f.min = MaxTXID(f))

\* The files of a directory are in the same order by name and by TXID.
Chained(F) ==
  \A f, g \in F : f # g => \/ f.min < g.min /\ MaxTXID(f) < MaxTXID(g)
                           \/ g.min < f.min /\ MaxTXID(g) < MaxTXID(f)

\* The file with the highest TXID ends at position p.
Newest(F, p) == F # {} => \E f \in F : f.post = p /\ \A g \in F : MaxTXID(g) <= MaxTXID(f)

\* The directory of database d, whose write lock is at w, on a node that runs or
\* not.  While a snapshot replaces the other files, these are the old directory
\* without its oldest files: the last of them to go is the one of the position.
Directory(d, w, runs) ==
  /\ \A f \in d.ltx : Named(f)
  /\ w.op # "trim" => Chained(d.ltx)
  /\ ~runs => \A f \in d.ltx : IsMaxLTXFile(f, d.ltx) => Applies(f, d.pages)
  /\ runs /\ w.op \in {"free", "notify"} => Newest(d.ltx, d.pos)
  /\ w.op = "trim" => Chained(d.ltx \ {w.ltx}) /\ Newest(d.ltx \ {w.ltx}, d.pos)
  /\ w.op = "commit" => PreApply(w.ltx) = d.pos
  /\ w.op \in {"commit", "apply", "verify"} =>
       \A g \in d.ltx \ {w.ltx} : MaxTXID(g) < MaxTXID(w.ltx)

Directories == \A n \in Node : Directory(db[n], step[n], n \in up)

\* The files on their way to a replica are named like the others.
QueueNamed(q) == \A i \in DOMAIN q : q[i].kind = "ltx" => Named(q[i].ltx)
FramesNamed == \A n \in Node : conn[n] # None => QueueNamed(conn[n].q)

\* streamLTX runs for a database that has a position.
Sending(c) == IsLive(c) /\ c.phase = "send" /\ c.gone = None
SendsSomething == \A n \in Node : Sending(conn[n]) => db[Server(n)].pos # <<>>

\* No process dies between the rename of a snapshot and the end of
\* removeFilesExcept.
CrashOutsideTrim == \A n \in Node : Crash(n) => step[n].op # "trim"

\* The TXIDs of a file.
LEMMA TXIDs ==
  ASSUME NEW f \in LTX
  PROVE  /\ MaxTXID(f) \in Nat /\ f.min \in Nat /\ f.min > 0 /\ f.post \in History
         /\ Named(f) => MaxTXID(f) > 0
<1>1. f.post \in Seq(TxNumber) /\ f.min \in Nat \ {0}
  BY DEF LTX, History
<1>2. MaxTXID(f) \in Nat /\ (f.post # <<>> => MaxTXID(f) > 0)
  BY <1>1, LenProperties, EmptySeq DEF MaxTXID
<1> QED BY <1>1, <1>2 DEF Named, History

\* The history before the last transaction.
LEMMA FrontAppend ==
  ASSUME NEW h \in History, NEW t \in TxNumber
  PROVE  Front(Append(h, t)) = h /\ Len(Append(h, t)) = Len(h) + 1 /\ Append(h, t) # <<>>
<1>1. PICK a : a = Append(h, t)
  OBVIOUS
<1>2. /\ a \in Seq(TxNumber) /\ a # <<>> /\ Len(a) = Len(h) + 1 /\ Len(h) \in Nat
      /\ \A i \in 1 .. Len(h) : a[i] = h[i]
  BY <1>1, AppendProperties, LenProperties DEF History
<1>3. PICK k : k = Len(a) - 1
  OBVIOUS
<1>4. k = Len(h) /\ k \in Int /\ k \in Nat
  BY <1>2, <1>3
<1>5. \A i \in 1 .. k : a[i] \in TxNumber
  BY <1>2, <1>4, ElementOfSeq DEF History
<1> DEFINE b == SubSeq(a, 1, k)
<1>6. /\ b \in Seq(TxNumber) /\ Len(b) = IF 1 <= k THEN k - 1 + 1 ELSE 0
      /\ \A i \in 1 .. k - 1 + 1 : b[i] = a[1 + i - 1]
  BY <1>4, <1>5, SubSeqProperties
<1> HIDE DEF b
<1>7. Len(b) = Len(h) /\ \A i \in 1 .. Len(b) : b[i] = h[i]
  BY <1>2, <1>4, <1>6
<1>8. b = h
  BY <1>6, <1>7, SeqEqual DEF History
<1>9. Front(a) = b
  BY <1>3 DEF Front, b
<1> QED BY <1>1, <1>2, <1>8, <1>9

\* A file that is not empty has one transaction more than its pre-apply state.
LEMMA PreApplyLen ==
  ASSUME NEW f \in LTX, Named(f)
  PROVE  Len(PreApply(f)) = MaxTXID(f) - 1
<1>1. MaxTXID(f) \in Nat /\ MaxTXID(f) > 0 /\ f.post \in Seq(TxNumber)
  BY TXIDs DEF History
<1>2. PICK k : k = Len(f.post) - 1
  OBVIOUS
<1>3. k \in Int /\ k = MaxTXID(f) - 1 /\ k >= 0 /\ k <= Len(f.post) /\ Len(f.post) \in Nat
  BY <1>1, <1>2 DEF MaxTXID
<1>4. \A i \in 1 .. k : f.post[i] \in TxNumber
  BY <1>1, <1>3, ElementOfSeq
<1>5. Len(SubSeq(f.post, 1, k)) = IF 1 <= k THEN k - 1 + 1 ELSE 0
  BY <1>3, <1>4, SubSeqProperties
<1> QED BY <1>2, <1>3, <1>5 DEF PreApply, Front

\* In a chain the highest TXID belongs to one file: the one of the position.
LEMMA NewestPost ==
  ASSUME NEW F \in SUBSET LTX, NEW p, Chained(F), Newest(F, p), NEW f \in F,
         \A g \in F : MaxTXID(f) >= MaxTXID(g)
  PROVE  f.post = p
<1>1. PICK t \in F : t.post = p /\ \A g \in F : MaxTXID(g) <= MaxTXID(t)
  BY DEF Newest
<1>2. MaxTXID(f) \in Nat /\ MaxTXID(t) \in Nat
  BY TXIDs
<1>3. MaxTXID(t) <= MaxTXID(f) /\ MaxTXID(f) <= MaxTXID(t)
  BY <1>1, <1>2
<1>4. t = f
  BY <1>2, <1>3 DEF Chained
<1> QED BY <1>1, <1>4

\* Fewer files are a chain too.
LEMMA ChainedSubset ==
  ASSUME NEW F, NEW G \in SUBSET F, Chained(F)
  PROVE  Chained(G)
BY DEF Chained

\* What is said of every node, when its directories are in order.
LEMMA DirectoriesRecover ==
  ASSUME TypeOK, WritersConsistent, Directories
  PROVE  Recoverable
<1> SUFFICES ASSUME NEW n \in Node, NEW f \in db[n].ltx, IsMaxLTXFile(f, db[n].ltx)
             PROVE  /\ Applies(f, db[n].pages)
                    /\ n \in up /\ step[n] = Free => f.post = db[n].pos
                    /\ n \in up /\ step[n] # Free => f.post \in {db[n].pos, step[n].ltx.post}
  BY DEF Recoverable
<1> DEFINE F == db[n].ltx
           w == step[n]
           G == F \ {w.ltx}
<1>1. F \in SUBSET LTX /\ w \in Writer \cup {Free} /\ WriterConsistent(n)
      /\ Directory(db[n], w, n \in up)
  BY DEF TypeOK, DB, WritersConsistent, Directories
<1>2. \A g \in F : MaxTXID(f) >= MaxTXID(g)
  BY DEF IsMaxLTXFile
<1>3. CASE n \notin up
  BY <1>1, <1>3 DEF Directory
<1>4. CASE n \in up /\ w.op \in {"free", "notify"}
  <2>1. f.post = db[n].pos
    BY <1>1, <1>2, <1>4, NewestPost DEF Directory
  <2>2. db[n].pages = {db[n].pos}
    BY <1>1, <1>4 DEF WriterConsistent
  <2> QED BY <2>1, <2>2 DEF Applies
<1>5. CASE n \in up /\ w.op = "trim"
  <2>1. IsSnapshot(w.ltx) /\ db[n].pages = {db[n].pos} /\ w # Free
    BY <1>1, <1>5 DEF WriterConsistent, Free
  <2>2. CASE f = w.ltx
    BY <2>1, <2>2 DEF Applies
  <2>3. CASE f # w.ltx
    <3>1. f \in G /\ G \in SUBSET LTX /\ \A g \in G : MaxTXID(f) >= MaxTXID(g)
      BY <1>1, <1>2, <2>3
    <3>2. Chained(G) /\ Newest(G, db[n].pos)
      BY <1>1, <1>5 DEF Directory
    <3>3. f.post = db[n].pos
      BY <3>1, <3>2, NewestPost
    <3> QED BY <2>1, <3>3 DEF Applies
  <2> QED BY <2>2, <2>3
<1>6. CASE n \in up /\ w.op \in {"commit", "apply", "verify"}
  <2>1. w # Free /\ w.ltx \in F
    BY <1>1, <1>6 DEF WriterConsistent, Free
  <2>2. f = w.ltx
    <3> SUFFICES ASSUME f # w.ltx PROVE FALSE
      OBVIOUS
    <3>1. MaxTXID(f) < MaxTXID(w.ltx) /\ MaxTXID(f) >= MaxTXID(w.ltx)
      BY <1>1, <1>2, <1>6, <2>1 DEF Directory
    <3> QED BY <1>1, <2>1, <3>1, TXIDs
  <2>3. CASE w.op = "commit"
    <3>1. PreApply(w.ltx) = db[n].pos /\ db[n].pages = {db[n].pos}
      BY <1>1, <1>6, <2>3 DEF Directory, WriterConsistent
    <3> QED BY <2>1, <2>2, <3>1 DEF Applies
  <2>4. CASE w.op = "apply"
    <3>1. db[n].pages = {db[n].pos} /\ (IsSnapshot(w.ltx) \/ db[n].pos = PreApply(w.ltx))
      BY <1>1, <1>6, <2>4 DEF WriterConsistent
    <3> QED BY <2>1, <2>2, <3>1 DEF Applies
  <2>5. CASE w.op = "verify"
    BY <1>1, <2>1, <2>2, <2>5 DEF WriterConsistent
  <2> QED BY <1>6, <2>3, <2>4, <2>5
<1> QED BY <1>1, <1>3, <1>4, <1>5, <1>6 DEF Writer, Free

\* Stream e is stream c, which sends no more than before.
Later(c, e) ==
  e # None => c # None /\ e.server = c.server /\ e.q = c.q /\ (Sending(e) => Sending(c))

\* What happens in a store does not touch the frames under way, and no handler
\* starts to send.  After a drop or a crash none of its streams sends.
LEMMA EffectLater ==
  ASSUME TypeOK, NEW cs \in Conns, NEW n \in Node, NEW m \in Node
  PROVE  /\ Later(cs[m], MarkDirty(n, cs)[m])
         /\ Later(cs[m], Cancel(n, cs)[m])
         /\ Later(cs[m], Sever(n, cs)[m])
         /\ Later(cs[m], Orphan(n, cs)[m])
         /\ Sending(Sever(n, cs)[m]) => cs[m].server # n
         /\ Sending(Orphan(n, cs)[m]) => cs[m].server # n
<1> DEFINE c == cs[m]
           c1 == [c EXCEPT !.dirty = TRUE, !.notify = TRUE]
           c2 == [c EXCEPT !.cancelled = TRUE]
           c3 == [c EXCEPT !.phase = "ended"]
           c4 == [c EXCEPT !.gone = db[n].pos]
<1>1. Later(c, c)
  BY DEF Later
<1>2. CASE ~Serves(n, c)
  <2>1. MarkDirty(n, cs)[m] = c /\ Cancel(n, cs)[m] = c /\ Sever(n, cs)[m] = c
        /\ Orphan(n, cs)[m] = c
    BY <1>2 DEF MarkDirty, Cancel, Sever, Orphan
  <2>2. Sending(c) => c.server # n
    BY <1>2 DEF Serves, Sending, IsLive
  <2> QED BY <1>1, <2>1, <2>2
<1>3. CASE Serves(n, c)
  <2>1. c \in Conn /\ c # None /\ IsLive(c)
    BY <1>3 DEF Serves, Conns, IsLive
  <2>2. MarkDirty(n, cs)[m] = c1 /\ Cancel(n, cs)[m] = c2 /\ Sever(n, cs)[m] = c3
    BY <1>3 DEF MarkDirty, Cancel, Sever
  <2>3. Later(c, c1)
    BY <2>1 DEF Later, Sending, IsLive, Conn
  <2>4. Later(c, c2)
    BY <2>1 DEF Later, Sending, IsLive, Conn
  <2>5. Later(c, c3) /\ ~Sending(c3)
    BY <2>1 DEF Later, Sending, IsLive, Conn
  <2>6. Later(c, Orphan(n, cs)[m]) /\ ~Sending(Orphan(n, cs)[m])
    <3>1. CASE c.phase \in {"check", "send"} /\ c.gone = None
      <4>1. Orphan(n, cs)[m] = c4
        BY <1>3, <3>1 DEF Orphan
      <4>2. db[n].pos # None
        BY NoneNoHistory DEF TypeOK, DB
      <4>3. Later(c, c4) /\ ~Sending(c4)
        BY <2>1, <4>2 DEF Later, Sending, Conn
      <4> QED BY <4>1, <4>3
    <3>2. CASE ~(c.phase \in {"check", "send"} /\ c.gone = None)
      <4>1. Orphan(n, cs)[m] = c
        BY <3>2 DEF Orphan
      <4> QED BY <1>1, <3>2, <4>1 DEF Sending
    <3> QED BY <3>1, <3>2
  <2> QED BY <2>2, <2>3, <2>4, <2>5, <2>6
<1> QED BY <1>2, <1>3

\* A frame is added to a queue, or taken from it.
LEMMA QueueSteps ==
  ASSUME NEW q \in Seq(Frame), QueueNamed(q)
  PROVE  /\ \A fr \in Frame : (fr.kind = "ltx" => Named(fr.ltx)) => QueueNamed(Append(q, fr))
         /\ q # <<>> => QueueNamed(Tail(q)) /\ (Head(q).kind = "ltx" => Named(Head(q).ltx))
<1>1. Len(q) \in Nat /\ DOMAIN q = 1 .. Len(q)
  BY LenProperties
<1>2. ASSUME NEW fr \in Frame, fr.kind = "ltx" => Named(fr.ltx)
      PROVE  QueueNamed(Append(q, fr))
  <2>1. PICK a : a = Append(q, fr)
    OBVIOUS
  <2>2. /\ a \in Seq(Frame) /\ Len(a) = Len(q) + 1
        /\ \A i \in 1 .. Len(q) : a[i] = q[i]
        /\ a[Len(q) + 1] = fr
    BY <2>1, AppendProperties
  <2>3. DOMAIN a = 1 .. Len(q) + 1
    BY <2>2, LenProperties
  <2>4. ASSUME NEW i \in DOMAIN a, a[i].kind = "ltx"
        PROVE  Named(a[i].ltx)
    <3>1. i \in 1 .. Len(q) \/ i = Len(q) + 1
      BY <1>1, <2>3
    <3> QED BY <1>1, <1>2, <2>2, <2>4, <3>1 DEF QueueNamed
  <2> QED BY <2>1, <2>4 DEF QueueNamed
<1>3. ASSUME q # <<>>
      PROVE  QueueNamed(Tail(q)) /\ (Head(q).kind = "ltx" => Named(Head(q).ltx))
  <2>1. PICK t : t = Tail(q)
    OBVIOUS
  <2>2. /\ Head(q) = q[1] /\ Len(q) > 0
        /\ t \in Seq(Frame) /\ Len(t) = Len(q) - 1
        /\ \A i \in 1 .. Len(t) : t[i] = q[i + 1]
    BY <1>1, <1>3, <2>1, HeadTailProperties, EmptySeq
  <2>3. DOMAIN t = 1 .. Len(q) - 1
    BY <2>2, LenProperties
  <2>4. ASSUME NEW i \in DOMAIN t, t[i].kind = "ltx"
        PROVE  Named(t[i].ltx)
    <3>1. t[i] = q[i + 1] /\ i + 1 \in DOMAIN q
      BY <1>1, <2>2, <2>3
    <3> QED BY <2>4, <3>1 DEF QueueNamed
  <2>5. Head(q).kind = "ltx" => Named(Head(q).ltx)
    BY <1>1, <2>2 DEF QueueNamed
  <2> QED BY <2>1, <2>4, <2>5 DEF QueueNamed
<1> QED BY <1>2, <1>3

\* Only stream n has changed.
LEMMA OneQueue ==
  ASSUME TypeOK, FramesNamed, SendsSomething, NEW n \in Node, NEW c,
         conn' = [conn EXCEPT ![n] = c], db' = db, QueueNamed(c.q),
         Sending(c) => db[c.server].pos # <<>>
  PROVE  FramesNamed' /\ SendsSomething'
<1>1. \A m \in Node : conn'[m] = IF m = n THEN c ELSE conn[m]
  BY DEF TypeOK
<1>2. ASSUME NEW m \in Node
      PROVE  /\ conn'[m] # None => QueueNamed(conn'[m].q)
             /\ Sending(conn'[m]) => db'[conn'[m].server].pos # <<>>
  <2>1. CASE m = n
    BY <1>1, <2>1
  <2>2. CASE m # n
    BY <1>1, <2>2 DEF FramesNamed, SendsSomething, Server
  <2> QED BY <2>1, <2>2
<1> QED BY <1>2 DEF FramesNamed, SendsSomething, Server

\* Every file a handler sends is named, and it sends from a database with a position.
LEMMA NamedServer ==
  ASSUME TypeOK, StreamsAwake, Directories, FramesNamed, SendsSomething,
         NEW n \in Node, ServerStep(n)
  PROVE  FramesNamed' /\ SendsSomething'
<1>1. db' = db
  BY DEF ServerStep, Lookup, SendDrop, Check, SendLTX, SendSnapshot, SendReady, Wake,
         TakeDirtySet, SendEnd
<1>2. IsLive(conn[n])
  BY DEF ServerStep, Lookup, SendDrop, Check, SendLTX, SendSnapshot, SendReady, Wake,
         TakeDirtySet, SendEnd, Serving, IsLive
<1> DEFINE s == conn[n].server
           b == conn[n]
<1>3. b \in Conn /\ s \in Node /\ s = Server(n) /\ b.q \in Seq(Frame) /\ QueueNamed(b.q)
  BY <1>2, ServerNode DEF FramesNamed, Server, Conn, IsLive
<1>4. \A k \in {"ready", "end", "drop", "broken"} : QueueNamed(Append(b.q, [kind |-> k]))
  BY <1>3, PlainFrames, QueueSteps
<1>5. CASE Lookup(n) \/ Wake(n) \/ TakeDirtySet(n)
  <2> DEFINE c1 == [b EXCEPT !.phase = "check", !.gone = None]
             c2 == [b EXCEPT !.phase = "woken", !.notify = FALSE]
             c3 == [b EXCEPT !.dirty = FALSE, !.phase = IF b.dirty THEN "lookup" ELSE "wait"]
  <2>1. \A c \in {c1, c2, c3} : c.q = b.q /\ c.phase # "send"
    BY <1>3 DEF Conn
  <2>2. conn' = [conn EXCEPT ![n] = c1] \/ conn' = [conn EXCEPT ![n] = c2]
        \/ conn' = [conn EXCEPT ![n] = c3]
    BY <1>5 DEF Lookup, Wake, TakeDirtySet
  <2> HIDE DEF c1, c2, c3
  <2> QED BY <1>1, <1>3, <2>1, <2>2, OneQueue DEF Sending
<1>6. CASE SendDrop(n) \/ SendReady(n) \/ SendEnd(n)
  <2> DEFINE c1 == [b EXCEPT !.phase = "flushed", !.cpos = <<>>,
                             !.q = Append(@, [kind |-> "drop"])]
             c2 == [b EXCEPT !.phase = "wait"]
             c3 == [b EXCEPT !.phase = "wait", !.readySent = TRUE,
                             !.q = Append(@, [kind |-> "ready"])]
             c4 == [b EXCEPT !.phase = "ended", !.q = Append(@, [kind |-> "end"])]
  <2>1. \A c \in {c1, c2, c3, c4} : c.phase # "send"
    BY <1>3 DEF Conn
  <2>2. c1.q = Append(b.q, [kind |-> "drop"]) /\ c2.q = b.q
        /\ c3.q = Append(b.q, [kind |-> "ready"]) /\ c4.q = Append(b.q, [kind |-> "end"])
    BY <1>3 DEF Conn
  <2>3. conn' = [conn EXCEPT ![n] = c1] \/ conn' = [conn EXCEPT ![n] = c2]
        \/ conn' = [conn EXCEPT ![n] = c3] \/ conn' = [conn EXCEPT ![n] = c4]
    BY <1>6 DEF SendDrop, SendReady, SendEnd
  <2> HIDE DEF c1, c2, c3, c4
  <2>4. QueueNamed(c1.q) /\ QueueNamed(c2.q) /\ QueueNamed(c3.q) /\ QueueNamed(c4.q)
    BY <1>3, <1>4, <2>2
  <2> QED BY <1>1, <2>1, <2>3, <2>4, OneQueue DEF Sending
<1>7. CASE Check(n)
  <2> DEFINE cp == ClientPos(b.cpos, ServerPos(n))
             c == [b EXCEPT !.phase = "flushed", !.gone = None]
             e == [b EXCEPT !.phase = "send", !.from = cp]
  <2>1. \/ conn' = [conn EXCEPT ![n] = c]
        \/ conn' = [conn EXCEPT ![n] = e] /\ ~(Len(cp) >= Len(ServerPos(n)))
    BY <1>7 DEF Check
  <2>2. c.q = b.q /\ c.phase # "send" /\ e.q = b.q /\ e.server = s /\ e.gone = b.gone
    BY <1>3 DEF Conn
  <2>3. ASSUME ~(Len(cp) >= Len(ServerPos(n))), b.gone = None
        PROVE  db[s].pos # <<>>
    <3>1. ServerPos(n) = db[s].pos
      BY <1>3, <2>3 DEF ServerPos
    <3>2. cp \in History
      BY <1>3, EmptySeq DEF ClientPos, Conn, History
    <3>3. Len(cp) \in Nat /\ Len(<<>>) = 0
      BY <3>2, LenProperties, EmptySeq DEF History
    <3> HIDE DEF cp
    <3> QED BY <2>3, <3>1, <3>3
  <2> HIDE DEF c, e, cp
  <2>4. Sending(e) /\ ~(Len(cp) >= Len(ServerPos(n))) => db[e.server].pos # <<>>
    BY <2>2, <2>3 DEF Sending
  <2> QED BY <1>1, <1>3, <2>1, <2>2, <2>4, OneQueue DEF Sending
<1>8. ASSUME NEW f \in LTX, SendFrame(n, f), Named(f)
      PROVE  FramesNamed' /\ SendsSomething'
  <2> DEFINE fr == [kind |-> "ltx", ltx |-> f]
             c == [b EXCEPT !.q = Append(@, fr), !.cpos = f.post,
                            !.phase = "check", !.from = <<>>]
  <2>1. conn' = [conn EXCEPT ![n] = c]
    BY <1>8 DEF SendFrame
  <2>2. c.q = Append(b.q, fr) /\ c.phase # "send"
    BY <1>3 DEF Conn
  <2>3. fr \in Frame /\ Named(fr.ltx)
    BY <1>8 DEF Frame
  <2> HIDE DEF c, fr
  <2>4. QueueNamed(c.q)
    BY <1>3, <2>2, <2>3, QueueSteps
  <2> QED BY <1>1, <2>1, <2>2, <2>4, OneQueue DEF Sending
<1>9. CASE SendLTX(n)
  <2>1. PICK f \in Streamable(n) : SendFrame(n, f)
    BY <1>9 DEF SendLTX
  <2>2. f \in LTX /\ f \in db[s].ltx
    BY <1>3 DEF Streamable, TypeOK, DB
  <2>3. Named(f)
    BY <1>3, <2>2 DEF Directories, Directory
  <2> QED BY <1>8, <2>1, <2>2, <2>3
<1>10. CASE SendSnapshot(n)
  <2> DEFINE f == [min |-> 1, post |-> db[s].pos, node |-> s]
             c == [b EXCEPT !.q = Append(@, [kind |-> "broken"]), !.phase = "ended"]
  <2>1. f \in LTX /\ b.phase = "send"
    BY <1>3, <1>10 DEF LTX, TypeOK, DB, SendSnapshot, Serving
  <2>2. (SendFrame(n, f) /\ b.gone = None) \/ conn' = [conn EXCEPT ![n] = c]
    BY <1>3, <1>10 DEF SendSnapshot
  <2>3. c.q = Append(b.q, [kind |-> "broken"]) /\ c.phase # "send"
    BY <1>3 DEF Conn
  <2>4. b.gone = None => Named(f)
    BY <1>2, <1>3, <2>1 DEF Sending, SendsSomething, Named
  <2>5. QueueNamed(Append(b.q, [kind |-> "broken"]))
    BY <1>4
  <2> HIDE DEF c, f
  <2>6. QueueNamed(c.q) /\ ~Sending(c)
    BY <2>3, <2>5 DEF Sending
  <2>7. CASE SendFrame(n, f) /\ b.gone = None
    BY <1>8, <2>1, <2>4, <2>7
  <2>8. CASE conn' = [conn EXCEPT ![n] = c]
    BY <1>1, <2>6, <2>8, OneQueue
  <2> QED BY <2>2, <2>7, <2>8
<1> QED BY <1>5, <1>6, <1>7, <1>9, <1>10 DEF ServerStep

\* A step of node n: it reads a frame or closes its connection (cs), then its store
\* changes, and the streams it serves with it.
LEMMA NamedLater ==
  ASSUME TypeOK, StreamsAwake, SendsSomething, NEW n \in Node, NEW cs \in Conns,
         \A m \in Node : cs[m] # None => QueueNamed(cs[m].q),
         \A m \in Node : Sending(cs[m]) => Kept(conn[m], cs[m]),
         \A m \in Node : Later(cs[m], conn'[m]),
         \A m \in Node \ {n} : db'[m].pos = db[m].pos,
         \A m \in Node : /\ Sending(conn'[m]) /\ cs[m].server = n
                         /\ n \in up /\ db[n].exists /\ db[n].pos # <<>>
                         => db'[n].pos # <<>>
  PROVE  FramesNamed' /\ SendsSomething'
<1>1. ASSUME NEW m \in Node, conn'[m] # None
      PROVE  QueueNamed(conn'[m].q)
  <2>1. cs[m] # None /\ conn'[m].q = cs[m].q
    BY <1>1 DEF Later
  <2> QED BY <2>1
<1>2. ASSUME NEW m \in Node, Sending(conn'[m])
      PROVE  db'[conn'[m].server].pos # <<>>
  <2>1. Sending(cs[m]) /\ conn'[m].server = cs[m].server
    BY <1>2 DEF Later, Sending, IsLive
  <2>2. Kept(conn[m], cs[m]) /\ cs[m].server = conn[m].server /\ Sending(conn[m])
    BY <2>1 DEF Kept, Sending
  <2>3. conn[m].server \in Node
    BY <2>2, ServerNode DEF Sending, Server
  <2>4. /\ conn[m].server \in up /\ db[conn[m].server].pos # <<>>
        /\ db[conn[m].server].exists
    BY <2>2 DEF StreamsAwake, Awake, SendsSomething, Sending, Server
  <2> QED BY <1>2, <2>1, <2>2, <2>3, <2>4
<1> QED BY <1>1, <1>2 DEF FramesNamed, SendsSomething, Server

\* The streams when node n has read a frame, or closed its connection.
LEMMA ReadNamed ==
  ASSUME TypeOK, FramesNamed, NEW n \in Node, NEW m \in Node
  PROVE  /\ conn[m] # None => QueueNamed(conn[m].q)
         /\ Sending(conn[m]) => Kept(conn[m], conn[m])
         /\ Closed(n)[m] # None => QueueNamed(Closed(n)[m].q)
         /\ Sending(Closed(n)[m]) => Kept(conn[m], Closed(n)[m])
         /\ conn[n] # None /\ conn[n].q # <<>> =>
              /\ Rest(n)[m] # None => QueueNamed(Rest(n)[m].q)
              /\ Sending(Rest(n)[m]) => Kept(conn[m], Rest(n)[m])
              /\ Passed(n)[m] # None => QueueNamed(Passed(n)[m].q)
              /\ Sending(Passed(n)[m]) => Kept(conn[m], Passed(n)[m])
<1>1. conn \in [Node -> Conn \cup {None}]
  BY DEF TypeOK
<1>2. conn[m] # None => QueueNamed(conn[m].q)
  BY DEF FramesNamed
<1>3. Closed(n)[m] # None => QueueNamed(Closed(n)[m].q)
  BY <1>1, <1>2 DEF Closed
<1>4. ASSUME conn[n] # None, conn[n].q # <<>>
      PROVE  /\ Rest(n)[m] # None => QueueNamed(Rest(n)[m].q)
             /\ Passed(n)[m] # None => QueueNamed(Passed(n)[m].q)
  <2>1. CASE m # n
    BY <1>1, <1>2, <1>4, <2>1 DEF Rest, Passed
  <2>2. CASE m = n
    <3>1. conn[n] \in Conn /\ conn[n].q \in Seq(Frame)
      BY <1>1, <1>4 DEF Conn
    <3>2. Rest(n)[n].q = Tail(conn[n].q) /\ Passed(n)[n].q = Tail(conn[n].q)
      BY <1>1, <3>1 DEF Rest, Passed, Conn
    <3> QED BY <1>2, <1>4, <2>2, <3>1, <3>2, QueueSteps
  <2> QED BY <2>1, <2>2
<1> QED BY <1>2, <1>3, <1>4, ReadKept DEF Sending

\* Later is transitive.
LEMMA LaterLater ==
  ASSUME NEW c, NEW d, NEW e, Later(c, d), Later(d, e)
  PROVE  Later(c, e)
BY DEF Later

\* The position a writer is about to set is not the empty one.
LEMMA WriterNamed ==
  ASSUME TypeOK, WritersConsistent, Directories, NEW n \in Node, step[n] # Free
  PROVE  step[n].ltx \in db[n].ltx /\ Named(step[n].ltx) /\ step[n].ltx.post # <<>>
<1>1. step[n].ltx \in db[n].ltx
  BY DEF WritersConsistent, WriterConsistent
<1> QED BY <1>1 DEF Directories, Directory, Named

\* The replica loop keeps the frames named, and the handlers on its node from
\* sending nothing.
LEMMA NamedReplica ==
  ASSUME TypeOK, WritersConsistent, StreamsAwake, Directories, FramesNamed, SendsSomething,
         NEW n \in Node, ReplicaStep(n)
  PROVE  FramesNamed' /\ SendsSomething'
<1>1. db \in [Node -> DB] /\ step \in [Node -> Writer \cup {Free}] /\ conn \in Conns
  BY DEF TypeOK, Conns
<1>2. \A m \in Node : Later(conn[m], conn[m])
  BY DEF Later
<1>3. CASE SkipLTX(n) \/ RejectLTX(n) \/ ReceiveBroken(n) \/ RenameLTX(n)
  <2>1. Receives(n, "ltx") \/ Receives(n, "broken")
    BY <1>3 DEF SkipLTX, RejectLTX, ReceiveBroken, RenameLTX
  <2>2. conn[n] # None /\ conn[n].q # <<>>
    BY <2>1 DEF Receives
  <2>3. \/ conn' = Created(n, Rest(n)) \/ conn' = Created(n, Closed(n))
        \/ conn' = Created(n, Passed(n))
    BY <1>3 DEF SkipLTX, RejectLTX, ReceiveBroken, RenameLTX
  <2>4. /\ \A m \in Node \ {n} : db'[m] = db[m]
        /\ db[n].exists => db'[n].pos = db[n].pos
    BY <1>1, <1>3 DEF SkipLTX, RejectLTX, ReceiveBroken, RenameLTX, Existing, DB
  <2>5. Rest(n) \in Conns /\ Closed(n) \in Conns /\ Passed(n) \in Conns
    BY <2>1, ReceiveTypes
  <2>6. PICK cs \in {Rest(n), Closed(n), Passed(n)} : conn' = Created(n, cs)
    BY <2>3
  <2>7. \A m \in Node : /\ cs[m] # None => QueueNamed(cs[m].q)
                        /\ Sending(cs[m]) => Kept(conn[m], cs[m])
    BY <2>2, <2>6, ReadNamed
  <2>8. \A m \in Node : Later(cs[m], conn'[m])
    <3>1. conn' = cs \/ conn' = MarkDirty(n, cs)
      BY <2>6 DEF Created
    <3>2. \A m \in Node : Later(cs[m], cs[m]) /\ Later(cs[m], MarkDirty(n, cs)[m])
      BY <2>5, <2>6, EffectLater DEF Later
    <3> QED BY <3>1, <3>2
  <2> QED BY <2>4, <2>5, <2>6, <2>7, <2>8, NamedLater
<1>4. CASE RemoveFile(n) \/ WritePages(n)
  <2>1. conn' = conn
    BY <1>4 DEF RemoveFile, WritePages
  <2>2. \A m \in Node \ {n} : db'[m] = db[m]
    BY <1>1, <1>4 DEF RemoveFile, WritePages
  <2>3. db'[n].pos = db[n].pos
    BY <1>1, <1>4 DEF RemoveFile, WritePages, DB
  <2> QED BY <1>1, <1>2, <2>1, <2>2, <2>3, ReadNamed, NamedLater
<1>5. CASE VerifyPages(n)
  <2>1. step[n] # Free
    BY <1>5, BusyType DEF VerifyPages
  <2>2. step[n].ltx.post # <<>>
    BY <2>1, WriterNamed
  <2>3. \A m \in Node \ {n} : db'[m] = db[m]
    BY <1>1, <1>5 DEF VerifyPages
  <2>4. db'[n].pos \in {db[n].pos, step[n].ltx.post}
    BY <1>1, <1>5 DEF VerifyPages, DB
  <2>5. Closed(n) \in Conns
    BY <1>1, ConnUpdate DEF Closed
  <2>6. PICK cs \in {conn, Closed(n)} : conn' = cs
    BY <1>5 DEF VerifyPages
  <2>7. \A m \in Node : Later(cs[m], conn'[m])
    BY <2>6 DEF Later
  <2>8. \A m \in Node : /\ cs[m] # None => QueueNamed(cs[m].q)
                        /\ Sending(cs[m]) => Kept(conn[m], cs[m])
    BY <2>6, ReadNamed
  <2> QED BY <1>1, <2>2, <2>3, <2>4, <2>5, <2>6, <2>7, <2>8, NamedLater
<1>6. CASE ReceiveReady(n) \/ Disconnect(n)
  <2>1. db' = db /\ conn[n] # None
    BY <1>6 DEF ReceiveReady, Disconnect, Receives
  <2>2. (conn' = Rest(n) /\ conn[n].q # <<>> /\ Rest(n) \in Conns) \/ conn' = Closed(n)
    BY <1>6, ReceiveTypes DEF ReceiveReady, Disconnect, Receives
  <2>3. Closed(n) \in Conns
    BY <1>1, ConnUpdate DEF Closed
  <2>4. PICK cs \in Conns : /\ conn' = cs
                            /\ cs = Closed(n) \/ (cs = Rest(n) /\ conn[n].q # <<>>)
    BY <2>2, <2>3
  <2>5. \A m \in Node : Later(cs[m], conn'[m])
    BY <2>4 DEF Later
  <2>6. \A m \in Node : /\ cs[m] # None => QueueNamed(cs[m].q)
                        /\ Sending(cs[m]) => Kept(conn[m], cs[m])
    BY <2>1, <2>4, ReadNamed
  <2> QED BY <2>1, <2>5, <2>6, NamedLater
<1>7. CASE ReceiveDrop(n)
  <2>1. conn[n] # None /\ conn[n].q # <<>> /\ Receives(n, "drop")
    BY <1>7 DEF ReceiveDrop, Receives
  <2>2. \A m \in Node \ {n} : db'[m] = db[m]
    BY <1>1, <1>7 DEF ReceiveDrop
  <2> DEFINE cs == Rest(n)
             os == Orphan(n, cs)
  <2>3. cs \in Conns /\ os \in Conns
    BY <2>1, ReceiveTypes, OrphanType
  <2>4. \A m \in Node : /\ cs[m] # None => QueueNamed(cs[m].q)
                        /\ Sending(cs[m]) => Kept(conn[m], cs[m])
    BY <2>1, ReadNamed
  <2> HIDE DEF cs
  <2>5. \A m \in Node : Later(cs[m], os[m]) /\ (Sending(os[m]) => cs[m].server # n)
    BY <2>3, EffectLater
  <2>6. conn' = IF db[n].exists THEN MarkDirty(n, os) ELSE cs
    BY <1>7 DEF ReceiveDrop, cs
  <2> HIDE DEF os
  <2>7. \A m \in Node : Later(os[m], MarkDirty(n, os)[m])
    BY <2>3, EffectLater
  <2>8. \A m \in Node : Later(cs[m], conn'[m])
                        /\ (Sending(conn'[m]) /\ db[n].exists => cs[m].server # n)
    <3>1. ASSUME NEW m \in Node PROVE Later(cs[m], cs[m])
      BY DEF Later
    <3>2. ASSUME NEW m \in Node PROVE Later(cs[m], MarkDirty(n, os)[m])
      BY <2>5, <2>7, LaterLater
    <3>3. ASSUME NEW m \in Node, Sending(MarkDirty(n, os)[m]) PROVE Sending(os[m])
      BY <2>7, <3>3 DEF Later, Sending, IsLive
    <3> QED BY <2>5, <2>6, <3>1, <3>2, <3>3
  <2> QED BY <2>2, <2>3, <2>4, <2>8, NamedLater
<1> QED BY <1>3, <1>4, <1>5, <1>6, <1>7 DEF ReplicaStep

\* So do commits, lease changes, applications and the environment.
LEMMA NamedStore ==
  ASSUME TypeOK, WritersConsistent, StreamsAwake, Directories, FramesNamed, SendsSomething,
         NEW n \in Node, CommitStep(n) \/ LeaseStep(n) \/ EnvStep(n)
  PROVE  FramesNamed' /\ SendsSomething'
<1>1. db \in [Node -> DB] /\ step \in [Node -> Writer \cup {Free}] /\ conn \in Conns
  BY DEF TypeOK, Conns
<1>2. \A m \in Node : /\ conn[m] # None => QueueNamed(conn[m].q)
                      /\ Sending(conn[m]) => Kept(conn[m], conn[m])
                      /\ Later(conn[m], conn[m])
  BY ReadNamed DEF Later
<1>3. \A m \in Node : Later(conn[m], MarkDirty(n, conn)[m]) /\ Later(conn[m], Cancel(n, conn)[m])
  BY <1>1, EffectLater
<1>4. CASE CommitDone(n)
  <2>1. step[n] # Free /\ conn' = conn
    BY <1>4, BusyType DEF CommitDone
  <2>2. step[n].ltx.post # <<>>
    BY <2>1, WriterNamed
  <2>3. db'[n].pos = step[n].ltx.post /\ \A m \in Node \ {n} : db'[m] = db[m]
    BY <1>1, <1>4 DEF CommitDone, DB
  <2> QED BY <1>1, <1>2, <2>1, <2>2, <2>3, NamedLater
<1>5. CASE Notify(n) \/ AcquireLease(n) \/ StepDown(n)
  <2>1. db' = db /\ (conn' = conn \/ conn' = MarkDirty(n, conn) \/ conn' = Cancel(n, conn))
    BY <1>5 DEF Notify, AcquireLease, StepDown
  <2>2. \A m \in Node : Later(conn[m], conn'[m])
    BY <1>2, <1>3, <2>1
  <2> QED BY <1>1, <1>2, <2>1, <2>2, NamedLater
<1>6. CASE \E s \in Node : Connect(n, s)
  <2>1. PICK s \in Node : Connect(n, s)
    BY <1>6
  <2> DEFINE c == [server |-> s, cpos |-> db[n].pos, from |-> <<>>, gone |-> None,
                   phase |-> IF db[n].exists \/ db[s].exists THEN "lookup" ELSE "flushed",
                   notify |-> FALSE, dirty |-> FALSE, readySent |-> FALSE,
                   cancelled |-> FALSE, skipped |-> FALSE, q |-> <<>>]
  <2>2. conn' = [conn EXCEPT ![n] = c] /\ db' = db
    BY <2>1 DEF Connect
  <2>3. c.q = <<>> /\ c.phase # "send"
    OBVIOUS
  <2> HIDE DEF c
  <2>4. QueueNamed(c.q)
    BY <2>3, EmptySeq, LenProperties DEF QueueNamed
  <2> QED BY <2>2, <2>3, <2>4, OneQueue DEF Sending
<1>7. CASE CreateDB(n)
  <2>1. ~db[n].exists /\ conn' = MarkDirty(n, conn) /\ \A m \in Node \ {n} : db'[m] = db[m]
    BY <1>1, <1>7 DEF CreateDB
  <2> QED BY <1>1, <1>2, <1>3, <2>1, NamedLater
<1>8. CASE DropDB(n)
  <2> DEFINE os == Orphan(n, conn)
  <2>1. os \in Conns
    BY <1>1, OrphanType
  <2>2. \A m \in Node : Later(conn[m], os[m]) /\ (Sending(os[m]) => conn[m].server # n)
    BY <1>1, EffectLater
  <2>3. conn' = MarkDirty(n, os) /\ \A m \in Node \ {n} : db'[m] = db[m]
    BY <1>1, <1>8 DEF DropDB
  <2> HIDE DEF os
  <2>4. \A m \in Node : Later(os[m], conn'[m])
    BY <2>1, <2>3, EffectLater
  <2>5. \A m \in Node : Later(conn[m], conn'[m]) /\ (Sending(conn'[m]) => conn[m].server # n)
    <3>1. ASSUME NEW m \in Node, Sending(conn'[m]) PROVE Sending(os[m])
      BY <2>4, <3>1 DEF Later, Sending, IsLive
    <3>2. ASSUME NEW m \in Node PROVE Later(conn[m], conn'[m])
      BY <2>2, <2>4, LaterLater
    <3> QED BY <2>2, <3>1, <3>2
  <2> QED BY <1>1, <1>2, <2>3, <2>5, NamedLater
<1>9. CASE CommitLTX(n)
  <2>1. conn' = conn /\ \A m \in Node \ {n} : db'[m] = db[m]
    BY <1>1, <1>9 DEF CommitLTX
  <2>2. db'[n].pos = db[n].pos
    BY <1>1, <1>9 DEF CommitLTX, DB
  <2> QED BY <1>1, <1>2, <2>1, <2>2, NamedLater
<1>10. CASE EnforceRetention(n)
  <2>1. PICK old : db' = [db EXCEPT ![n].ltx = @ \ old]
    BY <1>10 DEF EnforceRetention
  <2>2. conn' = conn /\ db'[n].pos = db[n].pos /\ \A m \in Node \ {n} : db'[m] = db[m]
    BY <1>1, <1>10, <2>1 DEF EnforceRetention, DB
  <2> QED BY <1>1, <1>2, <2>2, NamedLater
<1>11. CASE Crash(n)
  <2>1. /\ conn' = [Sever(n, conn) EXCEPT ![n] = None] /\ Sever(n, conn) \in Conns
        /\ \A m \in Node \ {n} : db'[m] = db[m]
    BY <1>1, <1>11, EffectTypes DEF Crash
  <2>2. \A m \in Node : conn'[m] = IF m = n THEN None ELSE Sever(n, conn)[m]
    BY <2>1 DEF Conns
  <2>3. \A m \in Node : /\ Later(conn[m], Sever(n, conn)[m])
                        /\ Sending(Sever(n, conn)[m]) => conn[m].server # n
    BY <1>1, EffectLater
  <2>4. \A m \in Node : Later(conn[m], None) /\ ~Sending(None)
    BY DEF Later, Sending, IsLive
  <2>5. \A m \in Node : Later(conn[m], conn'[m]) /\ (Sending(conn'[m]) => conn[m].server # n)
    BY <2>2, <2>3, <2>4
  <2> QED BY <1>1, <1>2, <2>1, <2>5, NamedLater
<1>12. CASE Restart(n)
  <2>1. n \notin up /\ conn' = conn /\ \A m \in Node \ {n} : db'[m] = db[m]
    BY <1>1, <1>12 DEF Restart
  <2> QED BY <1>1, <1>2, <2>1, NamedLater
<1>13. CASE Cut(n)
  <2>1. db' = db /\ conn' = Closed(n)
    BY <1>13 DEF Cut
  <2>2. Closed(n) \in Conns
    BY <1>1, ConnUpdate DEF Closed
  <2>3. PICK cs \in Conns : cs = Closed(n) /\ conn' = cs
    BY <2>1, <2>2
  <2>4. \A m \in Node : /\ cs[m] # None => QueueNamed(cs[m].q)
                        /\ Sending(cs[m]) => Kept(conn[m], cs[m])
                        /\ Later(cs[m], conn'[m])
    BY <2>3, ReadNamed DEF Later
  <2> QED BY <2>1, <2>4, NamedLater
<1> QED BY <1>4, <1>5, <1>6, <1>7, <1>8, <1>9, <1>10, <1>11, <1>12, <1>13
        DEF CommitStep, LeaseStep, EnvStep

\* The highest TXID of a directory is that of its position.
LEMMA NewestTXID ==
  ASSUME NEW F \in SUBSET LTX, NEW p \in History, Newest(F, p), NEW g \in F
  PROVE  MaxTXID(g) <= Len(p)
<1>1. PICK t \in F : t.post = p /\ \A h \in F : MaxTXID(h) <= MaxTXID(t)
  BY DEF Newest
<1> QED BY <1>1 DEF MaxTXID

\* The file of the next transaction is the newest of the directory.
LEMMA AddNext ==
  ASSUME NEW F \in SUBSET LTX, NEW p \in History, NEW f \in LTX,
         \A g \in F : Named(g), Chained(F), Newest(F, p),
         Named(f), f.min = MaxTXID(f), MaxTXID(f) = Len(p) + 1
  PROVE  /\ \A g \in AddFile(F, f) : Named(g)
         /\ Chained(AddFile(F, f))
         /\ \A g \in AddFile(F, f) \ {f} : MaxTXID(g) < MaxTXID(f)
<1>1. ASSUME NEW g \in AddFile(F, f)
      PROVE  Named(g) /\ (g # f => g \in F /\ MaxTXID(g) < MaxTXID(f) /\ g.min < f.min)
  <2>1. CASE g = f
    BY <2>1
  <2>2. CASE g \in F /\ g # f
    <3>1. MaxTXID(g) \in Nat /\ MaxTXID(g) > 0 /\ Named(g) /\ Len(p) \in Nat
      BY <2>2, TXIDs, LenProperties DEF History
    <3>2. MaxTXID(g) <= Len(p)
      BY <2>2, NewestTXID
    <3>3. g.min <= MaxTXID(g)
      BY <3>1 DEF Named
    <3>4. g.min \in Nat
      BY <2>2, TXIDs
    <3> QED BY <2>2, <3>1, <3>2, <3>3, <3>4
  <2> QED BY <2>1, <2>2 DEF AddFile
<1>2. ASSUME NEW g \in AddFile(F, f), NEW h \in AddFile(F, f), g # h
      PROVE  \/ g.min < h.min /\ MaxTXID(g) < MaxTXID(h)
             \/ h.min < g.min /\ MaxTXID(h) < MaxTXID(g)
  <2>1. CASE g = f
    BY <1>1, <1>2, <2>1
  <2>2. CASE h = f
    BY <1>1, <1>2, <2>2
  <2>3. CASE g # f /\ h # f
    <3>1. g \in F /\ h \in F
      BY <1>1, <2>3
    <3> QED BY <1>2, <3>1 DEF Chained
  <2> QED BY <2>1, <2>2, <2>3
<1> QED BY <1>1, <1>2 DEF Chained

\* A snapshot next to the files it replaces: if it overwrites the file of the
\* position, there is no other.
LEMMA AddSnapshot ==
  ASSUME NEW F \in SUBSET LTX, NEW p, NEW f \in LTX,
         \A g \in F : Named(g), Chained(F), Newest(F, p), Named(f), f.min = 1
  PROVE  /\ \A g \in AddFile(F, f) : Named(g)
         /\ Chained(AddFile(F, f) \ {f})
         /\ Newest(AddFile(F, f) \ {f}, p)
<1> DEFINE G == AddFile(F, f) \ {f}
<1>1. G \in SUBSET F /\ \A g \in G : ~SameName(f, g)
  BY DEF AddFile
<1>2. \A g \in AddFile(F, f) : Named(g)
  BY DEF AddFile
<1>3. \A t \in F : t \notin G => t.min = 1
  BY DEF AddFile, SameName
<1> HIDE DEF G
<1>4. Chained(G)
  BY <1>1, ChainedSubset
<1>5. ASSUME G # {}
      PROVE  \E t \in G : t.post = p /\ \A g \in G : MaxTXID(g) <= MaxTXID(t)
  <2>1. PICK t \in F : t.post = p /\ \A g \in F : MaxTXID(g) <= MaxTXID(t)
    BY <1>1, <1>5 DEF Newest
  <2>2. CASE t \in G
    BY <1>1, <2>1, <2>2
  <2>3. CASE t \notin G
    <3>1. PICK g \in G : TRUE
      BY <1>5
    <3>2. g \in F /\ g # t /\ t.min = 1
      BY <1>1, <1>3, <2>3, <3>1
    <3>3. g.min \in Nat /\ g.min > 0 /\ MaxTXID(g) \in Nat /\ MaxTXID(t) \in Nat
      BY <3>2, TXIDs
    <3>4. t.min < g.min /\ MaxTXID(t) < MaxTXID(g)
      BY <3>2, <3>3 DEF Chained
    <3> QED BY <2>1, <3>2, <3>3, <3>4
  <2> QED BY <2>2, <2>3
<1> QED BY <1>2, <1>4, <1>5 DEF Newest, G

\* The first file by name may go: the newest is the last.
LEMMA RemoveOldest ==
  ASSUME NEW G \in SUBSET LTX, NEW p, NEW f \in G, Chained(G), Newest(G, p), IsFirst(f, G)
  PROVE  Chained(G \ {f}) /\ Newest(G \ {f}, p)
<1>1. Chained(G \ {f})
  BY ChainedSubset
<1>2. PICK t \in G : t.post = p /\ \A g \in G : MaxTXID(g) <= MaxTXID(t)
  BY DEF Newest
<1>3. ASSUME NEW g \in G \ {f}
      PROVE  t # f
  <2> SUFFICES ASSUME t = f PROVE FALSE
    OBVIOUS
  <2>1. Before(f, g) /\ MaxTXID(g) <= MaxTXID(f)
    BY <1>2, <1>3 DEF IsFirst
  <2>2. MaxTXID(f) \in Nat /\ MaxTXID(g) \in Nat /\ f.min \in Nat /\ g.min \in Nat
    BY <1>3, TXIDs
  <2>3. f.min < g.min
    BY <2>1, <2>2 DEF Before
  <2>4. MaxTXID(f) < MaxTXID(g)
    BY <1>3, <2>2, <2>3 DEF Chained
  <2> QED BY <2>1, <2>2, <2>4
<1>4. Newest(G \ {f}, p)
  BY <1>2, <1>3 DEF Newest
<1> QED BY <1>1, <1>4

\* The last file by name is the newest.
LEMMA LastIsNewest ==
  ASSUME NEW F \in SUBSET LTX, Chained(F), NEW f \in F, IsLast(f, F), NEW t \in F,
         \A g \in F : MaxTXID(g) <= MaxTXID(t)
  PROVE  t = f
<1> SUFFICES ASSUME t # f PROVE FALSE
  OBVIOUS
<1>1. Before(t, f) /\ MaxTXID(f) <= MaxTXID(t)
  BY DEF IsLast
<1>2. MaxTXID(f) \in Nat /\ MaxTXID(t) \in Nat /\ f.min \in Nat /\ t.min \in Nat
  BY TXIDs
<1>3. t.min < f.min
  BY <1>1, <1>2 DEF Before
<1>4. MaxTXID(t) < MaxTXID(f)
  BY <1>2, <1>3 DEF Chained
<1> QED BY <1>1, <1>2, <1>4

\* Retention never removes the newest file of a directory in order.
LEMMA ReapNewest ==
  ASSUME NEW F \in SUBSET LTX, NEW p, NEW latest \in F, NEW old \in SUBSET (F \ {latest}),
         Chained(F), Newest(F, p), IsLast(latest, F)
  PROVE  Chained(F \ old) /\ Newest(F \ old, p)
<1>1. Chained(F \ old)
  BY ChainedSubset
<1>2. PICK t \in F : t.post = p /\ \A g \in F : MaxTXID(g) <= MaxTXID(t)
  BY DEF Newest
<1>3. t \in F \ old
  BY <1>2, LastIsNewest
<1> QED BY <1>1, <1>2, <1>3 DEF Newest

\* Only node n has changed.
LEMMA OneDirectory ==
  ASSUME Directories, NEW n \in Node, Directory(db'[n], step'[n], n \in up'),
         \A m \in Node \ {n} : db'[m] = db[m] /\ step'[m] = step[m] /\ (m \in up' <=> m \in up)
  PROVE  Directories'
<1> SUFFICES ASSUME NEW m \in Node
             PROVE  Directory(db'[m], step'[m], m \in up')
  BY DEF Directories
<1>1. CASE m = n
  BY <1>1
<1>2. CASE m # n
  <2>1. Directory(db[m], step[m], m \in up)
    BY DEF Directories
  <2> QED BY <1>2, <2>1 DEF Directory
<1> QED BY <1>1, <1>2

\* A directory with the write lock free.
LEMMA FreeDirectory ==
  ASSUME NEW d, \A f \in d.ltx : Named(f), Chained(d.ltx), Newest(d.ltx, d.pos)
  PROVE  Directory(d, Free, TRUE)
BY DEF Directory, Free

\* The replica loop keeps the directories in order.
LEMMA DirectoryReplica ==
  ASSUME TypeOK, WritersConsistent, AbsentEmpty, Directories, FramesNamed,
         NEW n \in Node, ReplicaStep(n)
  PROVE  Directories'
<1> DEFINE d == db[n]
           w == step[n]
<1>1. db \in [Node -> DB] /\ step \in [Node -> Writer \cup {Free}] /\ d \in DB
      /\ d.ltx \in SUBSET LTX /\ d.pos \in History
  BY DEF TypeOK, DB
<1>2. WriterConsistent(n) /\ Directory(d, w, n \in up) /\ up' = up
  BY DEF WritersConsistent, Directories, ReplicaStep, SkipLTX, RejectLTX, RenameLTX, RemoveFile,
         WritePages, VerifyPages, ReceiveReady, ReceiveDrop, ReceiveBroken, Disconnect
<1> DEFINE e == Existing(d)
<1>3. e \in DB /\ e.ltx = d.ltx /\ e.pos = d.pos
  BY <1>1, EmptyTypes DEF AbsentEmpty, Existing, EmptyDB, NoDB
<1>4. CASE SkipLTX(n) \/ RejectLTX(n) \/ ReceiveBroken(n)
  <2>1. n \in up /\ step[n] = Free /\ step' = step /\ db' = [db EXCEPT ![n] = e]
    BY <1>4 DEF SkipLTX, RejectLTX, ReceiveBroken, Receives
  <2>2. db'[n] = e /\ \A m \in Node \ {n} : db'[m] = db[m]
    BY <1>1, <2>1
  <2>3. Directory(e, Free, TRUE)
    BY <1>2, <1>3, <2>1, FreeDirectory DEF Directory, Free
  <2> QED BY <1>2, <2>1, <2>2, <2>3, OneDirectory
<1>5. CASE RenameLTX(n)
  <2>1. PICK f : f = Head(conn[n].q).ltx
    OBVIOUS
  <2>2. n \in up /\ w = Free /\ conn[n] # None /\ conn[n].q # <<>> /\ Receives(n, "ltx")
        /\ Head(conn[n].q).kind = "ltx"
    BY <1>5 DEF RenameLTX, Receives
  <2>3. f \in LTX
    BY <2>1, <2>2, ReceiveTypes
  <2>4. Named(f)
    <3>1. conn[n].q \in Seq(Frame) /\ QueueNamed(conn[n].q)
      BY <2>2 DEF TypeOK, Conn, FramesNamed
    <3> QED BY <2>1, <2>2, <3>1, QueueSteps
  <2> DEFINE x == [e EXCEPT !.ltx = AddFile(@, f)]
             v == [op |-> IF IsSnapshot(f) THEN "trim" ELSE "apply", ltx |-> f]
  <2>5. db' = [db EXCEPT ![n] = x] /\ step' = [step EXCEPT ![n] = v]
    BY <1>5, <2>1 DEF RenameLTX
  <2>6. IsSnapshot(f) \/ PositionMatches(e, f)
    BY <1>5, <2>1 DEF RenameLTX
  <2>7. x.ltx = AddFile(d.ltx, f) /\ x.pos = d.pos /\ v.ltx = f
    BY <1>3 DEF DB
  <2>8. \A g \in d.ltx : Named(g)
    BY <1>2 DEF Directory
  <2>9. Chained(d.ltx) /\ Newest(d.ltx, d.pos)
    BY <1>2, <2>2 DEF Directory, Free
  <2>10. CASE IsSnapshot(f)
    <3>1. v.op = "trim" /\ f.min = 1
      BY <2>10 DEF IsSnapshot
    <3>2. /\ \A g \in AddFile(d.ltx, f) : Named(g)
          /\ Chained(AddFile(d.ltx, f) \ {f})
          /\ Newest(AddFile(d.ltx, f) \ {f}, d.pos)
      BY <1>1, <2>3, <2>4, <2>8, <2>9, <3>1, AddSnapshot
    <3> HIDE DEF x, v
    <3>3. Directory(x, v, TRUE)
      BY <2>7, <3>1, <3>2 DEF Directory
    <3> QED BY <1>1, <1>2, <2>2, <2>5, <3>3, OneDirectory
  <2>11. CASE ~IsSnapshot(f)
    <3>1. v.op = "apply" /\ f.min # 1
      BY <2>11 DEF IsSnapshot
    <3>2. f.min = MaxTXID(f) /\ PreApply(f) = d.pos
      BY <1>3, <2>4, <2>6, <2>11, <3>1 DEF Named, PositionMatches
    <3>3. MaxTXID(f) = Len(d.pos) + 1
      BY <1>1, <2>3, <2>4, <3>2, PreApplyLen, TXIDs DEF History
    <3>4. /\ \A g \in AddFile(d.ltx, f) : Named(g)
          /\ Chained(AddFile(d.ltx, f))
          /\ \A g \in AddFile(d.ltx, f) \ {f} : MaxTXID(g) < MaxTXID(f)
      BY <1>1, <2>3, <2>4, <2>8, <2>9, <3>2, <3>3, AddNext
    <3> HIDE DEF x, v
    <3>5. Directory(x, v, TRUE)
      BY <2>7, <3>1, <3>4 DEF Directory
    <3> QED BY <1>1, <1>2, <2>2, <2>5, <3>5, OneDirectory
  <2> QED BY <2>10, <2>11
<1>6. CASE RemoveFile(n)
  <2>1. w # Free /\ w \in Writer /\ w.op = "trim"
    BY <1>6, BusyType DEF RemoveFile
  <2>2. n \in up /\ w.ltx \in d.ltx
    BY <1>2, <2>1 DEF WriterConsistent
  <2>3. CASE d.ltx \ {w.ltx} = {} /\ step' = [step EXCEPT ![n].op = "apply"] /\ db' = db
    <3>1. step'[n].op = "apply" /\ step'[n].ltx = w.ltx /\ db'[n] = d
      BY <1>1, <2>1, <2>3 DEF Writer
    <3>2. Chained(d.ltx)
      BY <2>3 DEF Chained
    <3>3. Directory(db'[n], step'[n], n \in up')
      BY <1>2, <2>2, <2>3, <3>1, <3>2 DEF Directory
    <3> QED BY <1>1, <1>2, <2>3, <3>3, OneDirectory
  <2>4. ASSUME NEW f \in d.ltx \ {w.ltx}, IsFirst(f, d.ltx \ {w.ltx}),
               db' = [db EXCEPT ![n].ltx = @ \ {f}], step' = step
        PROVE  Directories'
    <3>1. db'[n].ltx = d.ltx \ {f} /\ db'[n].pos = d.pos
      BY <1>1, <2>4 DEF DB
    <3>2. Chained(d.ltx \ {w.ltx}) /\ Newest(d.ltx \ {w.ltx}, d.pos)
      BY <1>2, <2>1 DEF Directory
    <3>3. PICK G : G = d.ltx \ {w.ltx}
      OBVIOUS
    <3>4. G \in SUBSET LTX /\ f \in G
      BY <1>1, <2>4, <3>3
    <3>5. Chained(G \ {f}) /\ Newest(G \ {f}, d.pos)
      BY <2>4, <3>2, <3>3, <3>4, RemoveOldest
    <3>6. db'[n].ltx \ {w.ltx} = G \ {f}
      BY <3>1, <3>3
    <3>7. Directory(db'[n], w, TRUE)
      BY <1>2, <2>1, <3>1, <3>5, <3>6 DEF Directory
    <3> QED BY <1>1, <1>2, <2>2, <2>4, <3>7, OneDirectory
  <2> QED BY <1>6, <2>3, <2>4 DEF RemoveFile
<1>7. CASE WritePages(n)
  <2>1. w # Free /\ w \in Writer /\ w.op = "apply"
    BY <1>7, BusyType DEF WritePages
  <2>2. n \in up
    BY <1>2, <2>1 DEF WriterConsistent
  <2>3. /\ db'[n].ltx = d.ltx /\ db'[n].pos = d.pos
        /\ step'[n].op = "verify" /\ step'[n].ltx = w.ltx
        /\ \A m \in Node \ {n} : db'[m] = db[m] /\ step'[m] = step[m]
    BY <1>1, <1>7, <2>1 DEF WritePages, DB, Writer
  <2>4. Directory(db'[n], step'[n], TRUE)
    BY <1>2, <2>1, <2>3 DEF Directory
  <2> QED BY <1>2, <2>2, <2>3, <2>4, OneDirectory
<1>8. CASE VerifyPages(n)
  <2>1. w # Free /\ w \in Writer /\ w.op = "verify"
    BY <1>8, BusyType DEF VerifyPages
  <2>2. n \in up /\ Applies(w.ltx, d.pages) /\ w.ltx \in d.ltx
    BY <1>2, <2>1 DEF WriterConsistent
  <2>3. /\ db' = [db EXCEPT ![n].pages = {w.ltx.post}, ![n].pos = w.ltx.post]
        /\ step' = [step EXCEPT ![n].op = "notify"]
    BY <1>8, <2>2 DEF VerifyPages
  <2>4. /\ db'[n].ltx = d.ltx /\ db'[n].pos = w.ltx.post /\ step'[n].op = "notify"
        /\ \A m \in Node \ {n} : db'[m] = db[m] /\ step'[m] = step[m]
    BY <1>1, <2>1, <2>3 DEF DB, Writer
  <2>5. Newest(d.ltx, w.ltx.post)
    <3>1. \A g \in d.ltx : MaxTXID(g) <= MaxTXID(w.ltx)
      BY <1>1, <1>2, <2>1, <2>2, TXIDs DEF Directory
    <3> QED BY <2>2, <3>1 DEF Newest
  <2>6. Directory(db'[n], step'[n], TRUE)
    BY <1>2, <2>1, <2>4, <2>5 DEF Directory
  <2> QED BY <1>2, <2>2, <2>4, <2>6, OneDirectory
<1>9. CASE ReceiveReady(n) \/ Disconnect(n)
  BY <1>2, <1>9 DEF ReceiveReady, Disconnect, Directories, Directory
<1>10. CASE ReceiveDrop(n)
  <2>1. n \in up /\ step[n] = Free /\ step' = step /\ db' = [db EXCEPT ![n] = NoDB]
    BY <1>10 DEF ReceiveDrop, Receives
  <2>2. Directory(NoDB, Free, TRUE)
    BY FreeDirectory DEF NoDB, Chained, Newest
  <2> QED BY <1>1, <1>2, <2>1, <2>2, OneDirectory
<1> QED BY <1>4, <1>5, <1>6, <1>7, <1>8, <1>9, <1>10 DEF ReplicaStep

\* So do commits, drops, retention and restarts, and a crash that does not
\* interrupt removeFilesExcept.
LEMMA DirectoryStore ==
  ASSUME TypeOK, WritersConsistent, Directories, NEW n \in Node,
         CommitStep(n) \/ LeaseStep(n) \/ EnvStep(n), CrashOutsideTrim
  PROVE  Directories'
<1> DEFINE d == db[n]
           w == step[n]
<1>1. db \in [Node -> DB] /\ step \in [Node -> Writer \cup {Free}] /\ d \in DB
      /\ d.ltx \in SUBSET LTX /\ d.pos \in History
  BY DEF TypeOK, DB
<1>2. WriterConsistent(n) /\ Directory(d, w, n \in up)
  BY DEF WritersConsistent, Directories
<1>3. CASE CommitDone(n)
  <2>1. w # Free /\ w \in Writer /\ w.op = "commit"
    BY <1>3, BusyType DEF CommitDone
  <2>2. n \in up /\ w.ltx \in d.ltx /\ up' = up
    BY <1>2, <1>3, <2>1 DEF WriterConsistent, CommitDone
  <2>3. /\ db'[n].ltx = d.ltx /\ db'[n].pos = w.ltx.post /\ step'[n].op = "notify"
        /\ \A m \in Node \ {n} : db'[m] = db[m] /\ step'[m] = step[m]
    BY <1>1, <1>3, <2>1 DEF CommitDone, DB, Writer
  <2>4. Newest(d.ltx, w.ltx.post)
    <3>1. \A g \in d.ltx : MaxTXID(g) <= MaxTXID(w.ltx)
      BY <1>1, <1>2, <2>1, <2>2, TXIDs DEF Directory
    <3> QED BY <2>2, <3>1 DEF Newest
  <2>5. Directory(db'[n], step'[n], TRUE)
    BY <1>2, <2>1, <2>3, <2>4 DEF Directory
  <2> QED BY <2>2, <2>3, <2>5, OneDirectory
<1>4. CASE Notify(n)
  <2>1. n \in up /\ w.op = "notify" /\ up' = up /\ db' = db /\ step' = [step EXCEPT ![n] = Free]
    BY <1>2, <1>4, BusyType DEF Notify, WriterConsistent
  <2>2. Directory(d, Free, TRUE)
    BY <1>2, <2>1, FreeDirectory DEF Directory
  <2> QED BY <1>1, <2>1, <2>2, OneDirectory
<1>5. CASE LeaseStep(n) \/ StepDown(n) \/ Cut(n)
  BY <1>5 DEF LeaseStep, AcquireLease, Connect, StepDown, Cut, Directories, Directory
<1>6. CASE CreateDB(n) \/ DropDB(n)
  <2>1. Directory(NoDB, Free, TRUE) /\ Directory(EmptyDB, Free, TRUE)
    BY FreeDirectory DEF NoDB, EmptyDB, Chained, Newest
  <2>2. CASE CreateDB(n)
    <3>1. n \in up /\ up' = up /\ ~db[n].exists /\ step' = step /\ db' = [db EXCEPT ![n] = EmptyDB]
      BY <2>2 DEF CreateDB
    <3>2. step[n] = Free
      BY <1>2, <3>1 DEF WriterConsistent
    <3> QED BY <1>1, <2>1, <3>1, <3>2, OneDirectory
  <2>3. CASE DropDB(n)
    <3>1. n \in up /\ up' = up /\ step' = [step EXCEPT ![n] = Free] /\ db' = [db EXCEPT ![n] = NoDB]
      BY <2>3 DEF DropDB
    <3> QED BY <1>1, <2>1, <3>1, OneDirectory
  <2> QED BY <1>6, <2>2, <2>3
<1>7. CASE CommitLTX(n)
  <2>1. PICK t : t = Budget["tx"] - left["tx"] + 1
    OBVIOUS
  <2>2. t \in TxNumber
    BY <1>7, <2>1, NewTxNumber DEF CommitLTX, Spend
  <2>3. PICK post : post = Append(d.pos, t)
    OBVIOUS
  <2>4. /\ post \in History /\ Front(post) = d.pos /\ Len(post) = Len(d.pos) + 1
        /\ post # <<>> /\ Len(post) \in Nat \ {0}
    BY <1>1, <2>2, <2>3, FrontAppend, AppendHistory
  <2> DEFINE f == [min |-> Len(post), post |-> post, node |-> n]
             v == [op |-> "commit", ltx |-> f]
             x == [d EXCEPT !.ltx = AddFile(@, f)]
  <2>5. f \in LTX /\ Named(f) /\ f.min = MaxTXID(f) /\ MaxTXID(f) = Len(d.pos) + 1
        /\ PreApply(f) = d.pos
    BY <2>4 DEF LTX, Named, MaxTXID, PreApply
  <2>6. n \in up /\ w = Free /\ up' = up
    BY <1>7 DEF CommitLTX
  <2>7. db' = [db EXCEPT ![n] = x] /\ step' = [step EXCEPT ![n] = v]
    BY <1>7, <2>1, <2>3 DEF CommitLTX
  <2> HIDE DEF f
  <2>8. x.ltx = AddFile(d.ltx, f) /\ x.pos = d.pos /\ v.ltx = f /\ v.op = "commit"
    BY <1>1 DEF DB
  <2>9. (\A g \in d.ltx : Named(g)) /\ Chained(d.ltx) /\ Newest(d.ltx, d.pos)
    BY <1>2, <2>6 DEF Directory, Free
  <2>10. /\ \A g \in AddFile(d.ltx, f) : Named(g)
         /\ Chained(AddFile(d.ltx, f))
         /\ \A g \in AddFile(d.ltx, f) \ {f} : MaxTXID(g) < MaxTXID(f)
    BY <1>1, <2>5, <2>9, AddNext
  <2> HIDE DEF x, v
  <2>11. Directory(x, v, TRUE)
    BY <2>5, <2>8, <2>10 DEF Directory
  <2> QED BY <1>1, <2>6, <2>7, <2>11, OneDirectory
<1>8. CASE EnforceRetention(n)
  <2>1. n \in up /\ UNCHANGED <<up, step>>
    BY <1>8 DEF EnforceRetention
  <2>2. PICK latest \in d.ltx : \E old \in SUBSET (d.ltx \ {latest}) :
          /\ IsLast(latest, d.ltx)
          /\ step[n] # Free => step[n].ltx \notin old
          /\ db' = [db EXCEPT ![n].ltx = @ \ old]
    BY <1>8 DEF EnforceRetention
  <2>3. PICK old \in SUBSET (d.ltx \ {latest}) :
          /\ IsLast(latest, d.ltx)
          /\ step[n] # Free => step[n].ltx \notin old
          /\ db' = [db EXCEPT ![n].ltx = @ \ old]
    BY <2>2
  <2>4. /\ db'[n].ltx = d.ltx \ old /\ db'[n].pos = d.pos /\ db'[n].pages = d.pages
        /\ \A m \in Node \ {n} : db'[m] = db[m]
    BY <1>1, <2>3 DEF DB
  <2>5. \A f \in db'[n].ltx : Named(f)
    BY <1>2, <2>4 DEF Directory
  <2>6. w.op # "trim" => Chained(db'[n].ltx)
    BY <1>2, <2>4, ChainedSubset DEF Directory
  <2>7. w.op \in {"free", "notify"} => Newest(db'[n].ltx, d.pos)
    <3>1. w.op \in {"free", "notify"} => Chained(d.ltx) /\ Newest(d.ltx, d.pos)
      BY <1>2, <2>1 DEF Directory
    <3> QED BY <1>1, <2>3, <2>4, <3>1, ReapNewest
  <2>8. ASSUME w.op = "trim"
        PROVE  Chained(db'[n].ltx \ {w.ltx}) /\ Newest(db'[n].ltx \ {w.ltx}, d.pos)
    <3>1. w # Free /\ w.ltx \notin old /\ IsSnapshot(w.ltx) /\ w.ltx \in d.ltx
      BY <1>2, <2>3, <2>8 DEF Free, WriterConsistent
    <3>2. PICK G : G = d.ltx \ {w.ltx}
      OBVIOUS
    <3>3. G \in SUBSET LTX /\ Chained(G) /\ Newest(G, d.pos) /\ db'[n].ltx \ {w.ltx} = G \ old
          /\ \A g \in G : Named(g)
      BY <1>1, <1>2, <2>4, <2>8, <3>2 DEF Directory
    <3>4. CASE latest # w.ltx
      <4>1. latest \in G /\ IsLast(latest, G)
        BY <2>3, <3>2, <3>4 DEF IsLast
      <4>2. PICK o : o = old \ {w.ltx}
        OBVIOUS
      <4>3. o \in SUBSET (G \ {latest}) /\ G \ old = G \ o
        BY <2>3, <3>2, <4>2
      <4> QED BY <3>3, <4>1, <4>3, ReapNewest
    <3>5. CASE latest = w.ltx
      <4>1. ASSUME NEW g \in G PROVE g.min = 1
        <5>1. Before(g, w.ltx) /\ w.ltx.min = 1 /\ g \in LTX
          BY <2>3, <3>1, <3>2, <3>3, <3>5 DEF IsLast, IsSnapshot
        <5>2. g.min \in Nat /\ g.min > 0
          BY <5>1, TXIDs
        <5> QED BY <5>1, <5>2 DEF Before
      <4>2. \A g, h \in G : g = h
        BY <3>3, <4>1 DEF Chained
      <4>3. G \ old = {} \/ G \ old = G
        BY <4>2
      <4>4. Chained({}) /\ Newest({}, d.pos)
        BY DEF Chained, Newest
      <4> QED BY <3>3, <4>3, <4>4
    <3> QED BY <3>4, <3>5
  <2>9. w.op = "commit" => PreApply(w.ltx) = d.pos
    BY <1>2 DEF Directory
  <2>10. w.op \in {"commit", "apply", "verify"} =>
           \A g \in db'[n].ltx \ {w.ltx} : MaxTXID(g) < MaxTXID(w.ltx)
    BY <1>2, <2>4 DEF Directory
  <2>11. Directory(db'[n], w, TRUE)
    BY <2>4, <2>5, <2>6, <2>7, <2>8, <2>9, <2>10 DEF Directory
  <2> QED BY <2>1, <2>4, <2>11, OneDirectory
<1>9. CASE Crash(n)
  <2>1. n \in up /\ up' = up \ {n} /\ w.op # "trim"
    BY <1>9 DEF Crash, CrashOutsideTrim
  <2>2. /\ db'[n].ltx = d.ltx /\ db'[n].pages = d.pages /\ step'[n] = Free
        /\ \A m \in Node \ {n} : db'[m] = db[m] /\ step'[m] = step[m]
    BY <1>1, <1>9 DEF Crash, DB
  <2>3. \A f \in d.ltx : IsMaxLTXFile(f, d.ltx) => Applies(f, d.pages)
    BY DirectoriesRecover DEF Recoverable
  <2>4. (\A f \in d.ltx : Named(f)) /\ Chained(d.ltx)
    BY <1>2, <2>1 DEF Directory
  <2>5. Directory(db'[n], Free, FALSE)
    BY <2>2, <2>3, <2>4 DEF Directory, Free
  <2>6. n \notin up' /\ \A m \in Node \ {n} : m \in up' <=> m \in up
    BY <2>1
  <2>7. Directory(db'[n], step'[n], n \in up')
    BY <2>2, <2>5, <2>6 DEF Directory
  <2> QED BY <2>2, <2>6, <2>7, OneDirectory
<1>10. CASE Restart(n)
  <2>1. n \notin up /\ up' = up \cup {n} /\ step' = step
    BY <1>10 DEF Restart
  <2>2. w = Free
    BY <1>2, <2>1 DEF WriterConsistent
  <2>3. (\A f \in d.ltx : Named(f)) /\ Chained(d.ltx)
    BY <1>2, <2>2 DEF Directory, Free
  <2>4. CASE d.ltx = {} /\ db' = db
    <3>1. Directory(d, Free, TRUE)
      BY <2>3, <2>4, FreeDirectory DEF Newest
    <3> QED BY <2>1, <2>2, <2>4, <3>1, OneDirectory
  <2>5. ASSUME NEW f \in d.ltx, IsMaxLTXFile(f, d.ltx), db' = [db EXCEPT ![n] = Opened(@, f)]
        PROVE  Directories'
    <3>1. db'[n].ltx = d.ltx /\ db'[n].pos = f.post /\ \A m \in Node \ {n} : db'[m] = db[m]
      BY <1>1, <2>5 DEF Opened, DB
    <3>2. Newest(d.ltx, f.post)
      <4>1. \A g \in d.ltx : MaxTXID(g) <= MaxTXID(f)
        BY <1>1, <2>5, TXIDs DEF IsMaxLTXFile
      <4> QED BY <4>1 DEF Newest
    <3>3. Directory(db'[n], Free, TRUE)
      BY <2>3, <3>1, <3>2, FreeDirectory
    <3> QED BY <2>1, <2>2, <3>1, <3>3, OneDirectory
  <2> QED BY <1>10, <2>4, <2>5 DEF Restart
<1> QED BY <1>3, <1>4, <1>5, <1>6, <1>7, <1>8, <1>9, <1>10
        DEF CommitStep, EnvStep

\* What Recoverable needs, for every step.
RecoverInv ==
  /\ TypeOK /\ WritersConsistent /\ AbsentEmpty /\ StreamsAwake
  /\ Directories /\ FramesNamed /\ SendsSomething

\* Every step that is no crash within removeFilesExcept keeps the invariant.
LEMMA RecoverNext == RecoverInv /\ [Next]_vars /\ [CrashOutsideTrim]_vars => RecoverInv'
<1> SUFFICES ASSUME RecoverInv, [Next]_vars, [CrashOutsideTrim]_vars
             PROVE  RecoverInv'
  OBVIOUS
<1>1. TypeOK' /\ WritersConsistent' /\ AbsentEmpty' /\ StreamsAwake'
  BY TypeNext, ConsistentNext, AbsentNext, AwakeNext DEF RecoverInv
<1>2. CASE LeaseExpire \/ UNCHANGED vars
  <2>1. UNCHANGED <<up, db, step, conn>>
    BY <1>2 DEF LeaseExpire, vars
  <2>2. Directories'
    BY <2>1 DEF RecoverInv, Directories, Directory
  <2>3. FramesNamed' /\ SendsSomething'
    BY <2>1 DEF RecoverInv, FramesNamed, SendsSomething, Server
  <2> QED BY <1>1, <2>2, <2>3 DEF RecoverInv
<1>3. ASSUME NEW n \in Node, ServerStep(n)
      PROVE  RecoverInv'
  <2>1. UNCHANGED <<up, db, step>>
    BY <1>3 DEF ServerStep, Lookup, SendDrop, Check, SendLTX, SendSnapshot, SendReady, Wake,
                TakeDirtySet, SendEnd
  <2>2. Directories'
    BY <2>1 DEF RecoverInv, Directories, Directory
  <2> QED BY <1>1, <1>3, <2>2, NamedServer DEF RecoverInv
<1>4. ASSUME NEW n \in Node, ReplicaStep(n)
      PROVE  RecoverInv'
  BY <1>1, <1>4, NamedReplica, DirectoryReplica DEF RecoverInv
<1>5. ASSUME NEW n \in Node, CommitStep(n) \/ LeaseStep(n) \/ EnvStep(n), CrashOutsideTrim
      PROVE  RecoverInv'
  BY <1>1, <1>5, NamedStore, DirectoryStore DEF RecoverInv
<1> QED BY <1>2, <1>3, <1>4, <1>5 DEF Next

\* Whatever the interleaving of commits, received files, drops, retention, crashes
\* and restarts, a node that is stopped can be opened again at the position it had or
\* at that of the transaction being written - as long as no process dies inside
\* removeFilesExcept.  (Files that a crash leaves there are never removed: retention,
\* or the next snapshot, then removes the file of the position before them.)
THEOREM StoppedNodesOpen == Spec /\ [][CrashOutsideTrim]_vars => []Recoverable
<1>1. Init => RecoverInv
  <2> SUFFICES ASSUME Init PROVE RecoverInv
    OBVIOUS
  <2>1. TypeOK /\ WritersConsistent
    BY TypeInit, ConsistentInit
  <2>2. AbsentEmpty /\ StreamsAwake /\ FramesNamed /\ SendsSomething
    BY DEF Init, AbsentEmpty, StreamsAwake, FramesNamed, SendsSomething, Sending, IsLive, NoDB
  <2>3. Directory(NoDB, Free, TRUE)
    BY FreeDirectory DEF NoDB, Chained, Newest
  <2>4. Directories
    BY <2>3 DEF Init, Directories
  <2> QED BY <2>1, <2>2, <2>4 DEF RecoverInv
<1>2. RecoverInv => Recoverable
  BY DirectoriesRecover DEF RecoverInv
<1> QED BY <1>1, <1>2, RecoverNext, PTL DEF Spec
-----------------------------------------------------------------------------
(* The position a server keeps for a replica is the one the replica will have. *)

\* The file of frame i of stream c fits a replica at position p: it is a snapshot of
\* the server, or it follows the position after the frames before it.
Fits(c, i, p) ==
  LET f == c.q[i].ltx
  IN  IF IsSnapshot(f) THEN f.node = c.server
      ELSE Named(f) /\ PosAfter(c.q, i - 1, p, PreApply(f))

\* What the server of stream c knows of its replica, which is at position p.
Tracks(c, p) ==
  /\ PosAfter(c.q, Len(c.q), p, c.cpos)
  /\ c.phase = "send" /\ c.from # <<>> => c.from = c.cpos
  /\ \A i \in DOMAIN c.q : c.q[i].kind = "ltx" => Fits(c, i, p)

\* A node with a connection is a replica, of another node, and is tracked unless it
\* has skipped a frame.
Tracked(n) ==
  /\ step[n].op = "notify" => db[n].pos = step[n].ltx.post
  /\ conn[n] # None => /\ n \in up /\ ~isPrimary[n] /\ Server(n) # n
                       /\ conn[n].skipped \/ Tracks(conn[n], SettledPos(n))

ReplicasTracked == \A n \in Node : Tracked(n)

\* A frame is added to the frames under way.
LEMMA PosAppend ==
  ASSUME NEW q \in Seq(Frame), NEW fr \in Frame, NEW p, NEW x
  PROVE  /\ \A k \in 0 .. Len(q) : PosAfter(q, k, p, x) => PosAfter(Append(q, fr), k, p, x)
         /\ ~Moves(fr) /\ PosAfter(q, Len(q), p, x)
            => PosAfter(Append(q, fr), Len(q) + 1, p, x)
         /\ Moves(fr) => PosAfter(Append(q, fr), Len(q) + 1, p, EndPos(fr))
<1>1. PICK a : a = Append(q, fr)
  OBVIOUS
<1>2. /\ Len(q) \in Nat /\ a[Len(q) + 1] = fr
      /\ \A i \in 1 .. Len(q) : a[i] = q[i]
  BY <1>1, AppendProperties, LenProperties
<1>3. ASSUME NEW k \in 0 .. Len(q), PosAfter(q, k, p, x)
      PROVE  PosAfter(a, k, p, x)
  <2>1. PICK i \in 0 .. k : /\ \A j \in i + 1 .. k : ~Moves(q[j])
                            /\ IF i = 0 THEN x = p ELSE Moves(q[i]) /\ x = EndPos(q[i])
    BY <1>3 DEF PosAfter
  <2>2. \A j \in 1 .. k : a[j] = q[j]
    BY <1>2
  <2>3. \A j \in i + 1 .. k : ~Moves(a[j])
    BY <2>1, <2>2
  <2>4. IF i = 0 THEN x = p ELSE Moves(a[i]) /\ x = EndPos(a[i])
    BY <2>1, <2>2
  <2> QED BY <2>3, <2>4 DEF PosAfter
<1>4. ASSUME ~Moves(fr), PosAfter(q, Len(q), p, x)
      PROVE  PosAfter(a, Len(q) + 1, p, x)
  <2>1. PICK i \in 0 .. Len(q) :
          /\ \A j \in i + 1 .. Len(q) : ~Moves(q[j])
          /\ IF i = 0 THEN x = p ELSE Moves(q[i]) /\ x = EndPos(q[i])
    BY <1>4 DEF PosAfter
  <2>2. ASSUME NEW j \in i + 1 .. Len(q) + 1
        PROVE  ~Moves(a[j])
    <3>1. j = Len(q) + 1 \/ (j \in i + 1 .. Len(q) /\ j \in 1 .. Len(q))
      BY <1>2
    <3> QED BY <1>2, <1>4, <2>1, <3>1
  <2>3. IF i = 0 THEN x = p ELSE Moves(a[i]) /\ x = EndPos(a[i])
    BY <1>2, <2>1
  <2>4. i \in 0 .. Len(q) + 1
    BY <1>2
  <2> QED BY <2>2, <2>3, <2>4 DEF PosAfter
<1>5. ASSUME Moves(fr)
      PROVE  PosAfter(a, Len(q) + 1, p, EndPos(fr))
  <2> DEFINE l == Len(q) + 1
  <2>1. l \in 0 .. l /\ l # 0 /\ \A j \in l + 1 .. l : FALSE
    BY <1>2
  <2>2. Moves(a[l]) /\ EndPos(fr) = EndPos(a[l])
    BY <1>2, <1>5
  <2> HIDE DEF l
  <2>3. PosAfter(a, l, p, EndPos(fr))
    BY <2>1, <2>2 DEF PosAfter
  <2> QED BY <2>3 DEF l
<1> QED BY <1>1, <1>3, <1>4, <1>5

\* The position of a replica at p that handles a frame.
HandledPos(fr, p) == IF Moves(fr) THEN EndPos(fr) ELSE p

\* The first of the frames under way is handled.
LEMMA PosTail ==
  ASSUME NEW q \in Seq(Frame), q # <<>>, NEW p, NEW x, NEW k \in 1 .. Len(q),
         PosAfter(q, k, p, x)
  PROVE  PosAfter(Tail(q), k - 1, HandledPos(Head(q), p), x)
<1>1. PICK t : t = Tail(q)
  OBVIOUS
<1>2. /\ Len(q) \in Nat /\ Head(q) = q[1] /\ Len(t) = Len(q) - 1
      /\ \A i \in 1 .. Len(t) : t[i] = q[i + 1]
  BY <1>1, HeadTailProperties, LenProperties
<1>3. PICK i \in 0 .. k : /\ \A j \in i + 1 .. k : ~Moves(q[j])
                          /\ IF i = 0 THEN x = p ELSE Moves(q[i]) /\ x = EndPos(q[i])
  BY DEF PosAfter
<1>4. \A j \in 1 .. k - 1 : t[j] = q[j + 1]
  BY <1>2
<1>5. CASE i <= 1
  <2>1. \A j \in 1 .. k - 1 : j + 1 \in i + 1 .. k
    BY <1>5
  <2>2. \A j \in 0 + 1 .. k - 1 : ~Moves(t[j])
    BY <1>3, <1>4, <2>1
  <2>3. x = HandledPos(q[1], p)
    <3>1. CASE i = 0
      <4>1. ~Moves(q[1])
        BY <1>3, <3>1
      <4> QED BY <1>3, <3>1, <4>1 DEF HandledPos
    <3>2. CASE i = 1
      BY <1>3, <3>2 DEF HandledPos
    <3> QED BY <1>5, <3>1, <3>2
  <2>4. 0 \in 0 .. k - 1
    OBVIOUS
  <2> QED BY <1>1, <1>2, <2>2, <2>3, <2>4 DEF PosAfter
<1>6. CASE i > 1
  <2> DEFINE l == i - 1
  <2>1. l \in 0 .. k - 1 /\ l # 0 /\ l \in 1 .. k - 1 /\ l + 1 = i
    BY <1>6
  <2>2. \A j \in l + 1 .. k - 1 : j \in 1 .. k - 1 /\ j + 1 \in i + 1 .. k
    BY <1>6
  <2>3. \A j \in l + 1 .. k - 1 : ~Moves(t[j])
    BY <1>3, <1>4, <2>2
  <2>4. Moves(t[l]) /\ x = EndPos(t[l])
    BY <1>3, <1>4, <1>6, <2>1
  <2> HIDE DEF l
  <2> QED BY <1>1, <2>1, <2>3, <2>4 DEF PosAfter
<1> QED BY <1>5, <1>6

\* A handler sends a frame: one that changes nothing, or the next position.
LEMMA TracksAppend ==
  ASSUME NEW c \in Conn, NEW e, NEW p, Tracks(c, p), NEW fr \in Frame,
         e.q = Append(c.q, fr), e.server = c.server, e.phase # "send",
         e.cpos = IF Moves(fr) THEN EndPos(fr) ELSE c.cpos,
         fr.kind = "ltx" => \/ IsSnapshot(fr.ltx) /\ fr.ltx.node = c.server
                            \/ /\ ~IsSnapshot(fr.ltx) /\ Named(fr.ltx)
                               /\ PreApply(fr.ltx) = c.cpos
  PROVE  Tracks(e, p)
<1> DEFINE l == Len(c.q)
<1>1. c.q \in Seq(Frame) /\ l \in Nat
  BY LenProperties DEF Conn
<1>2. /\ e.q \in Seq(Frame) /\ Len(e.q) = l + 1 /\ e.q[l + 1] = fr
      /\ DOMAIN e.q = 1 .. l + 1 /\ \A i \in 1 .. l : e.q[i] = c.q[i]
  BY <1>1, AppendProperties, LenProperties
<1>3. PosAfter(e.q, Len(e.q), p, e.cpos)
  BY <1>1, <1>2, PosAppend DEF Tracks
<1>4. ASSUME NEW i \in DOMAIN e.q, e.q[i].kind = "ltx"
      PROVE  Fits(e, i, p)
  <2>1. CASE i = l + 1
    <3>1. l \in 0 .. Len(c.q) /\ i - 1 = l
      BY <1>1, <2>1
    <3>2. PosAfter(e.q, l, p, c.cpos)
      BY <1>1, <3>1, PosAppend DEF Tracks
    <3> QED BY <1>2, <1>4, <2>1, <3>1, <3>2 DEF Fits
  <2>2. CASE i # l + 1
    <3>1. /\ i \in 1 .. l /\ i \in DOMAIN c.q /\ e.q[i] = c.q[i]
          /\ i - 1 \in 0 .. Len(c.q)
      BY <1>1, <1>2, <2>2, LenProperties
    <3>2. Fits(c, i, p)
      BY <1>4, <3>1 DEF Tracks
    <3>3. \A x : PosAfter(c.q, i - 1, p, x) => PosAfter(e.q, i - 1, p, x)
      BY <1>1, <3>1, PosAppend
    <3> QED BY <3>1, <3>2, <3>3 DEF Fits
  <2> QED BY <2>1, <2>2
<1> QED BY <1>3, <1>4 DEF Tracks

\* A replica handles the first frame.
LEMMA TracksTail ==
  ASSUME NEW c \in Conn, NEW e, NEW p, Tracks(c, p), c.q # <<>>,
         e.q = Tail(c.q), e.server = c.server, e.phase = c.phase, e.cpos = c.cpos,
         e.from = c.from
  PROVE  Tracks(e, HandledPos(Head(c.q), p))
<1> DEFINE l == Len(c.q)
           r == HandledPos(Head(c.q), p)
<1>1. c.q \in Seq(Frame) /\ l \in Nat /\ l > 0
  BY LenProperties, EmptySeq DEF Conn
<1>2. /\ e.q \in Seq(Frame) /\ Len(e.q) = l - 1
      /\ \A i \in 1 .. Len(e.q) : e.q[i] = c.q[i + 1]
  BY <1>1, HeadTailProperties
<1>3. DOMAIN e.q = 1 .. l - 1 /\ DOMAIN c.q = 1 .. l
  BY <1>1, <1>2, LenProperties
<1>4. PosAfter(e.q, Len(e.q), r, e.cpos)
  <2>1. l \in 1 .. Len(c.q)
    BY <1>1
  <2> QED BY <1>1, <1>2, <2>1, PosTail DEF Tracks
<1>5. ASSUME NEW i \in DOMAIN e.q, e.q[i].kind = "ltx"
      PROVE  Fits(e, i, r)
  <2>1. e.q[i] = c.q[i + 1] /\ i + 1 \in DOMAIN c.q /\ i \in 1 .. Len(c.q) /\ (i + 1) - 1 = i
    BY <1>1, <1>2, <1>3
  <2>2. Fits(c, i + 1, p)
    BY <1>5, <2>1 DEF Tracks
  <2>3. \A x : PosAfter(c.q, i, p, x) => PosAfter(e.q, i - 1, r, x)
    BY <1>1, <2>1, PosTail
  <2> QED BY <2>1, <2>2, <2>3 DEF Fits
<1> HIDE DEF r
<1>6. Tracks(e, r)
  BY <1>4, <1>5 DEF Tracks
<1> QED BY <1>6 DEF r

\* A handler goes on without a frame.
LEMMA TracksKept ==
  ASSUME NEW c, NEW e, NEW p, Tracks(c, p),
         e.q = c.q, e.server = c.server, e.cpos = c.cpos,
         e.phase = "send" /\ e.from # <<>> => e.from = e.cpos
  PROVE  Tracks(e, p)
BY DEF Tracks, Fits

\* Stream e is stream c, as far as its replica is concerned.
Alike(c, e) ==
  e # None => /\ c # None /\ e.server = c.server /\ e.q = c.q /\ e.cpos = c.cpos
              /\ e.from = c.from /\ (e.phase = "send" => c.phase = "send")
              /\ e.skipped = c.skipped

\* What happens in a store is not about the replicas it serves.
LEMMA EffectAlike ==
  ASSUME NEW cs \in Conns, NEW n \in Node, NEW m \in Node
  PROVE  /\ Alike(cs[m], MarkDirty(n, cs)[m])
         /\ Alike(cs[m], Cancel(n, cs)[m])
         /\ Alike(cs[m], Sever(n, cs)[m])
         /\ Alike(cs[m], Orphan(n, cs)[m])
         /\ Alike(cs[m], Created(n, cs)[m])
<1> DEFINE c == cs[m]
           c1 == [c EXCEPT !.dirty = TRUE, !.notify = TRUE]
           c2 == [c EXCEPT !.cancelled = TRUE]
           c3 == [c EXCEPT !.phase = "ended"]
           c4 == [c EXCEPT !.gone = db[n].pos]
<1>1. Alike(c, c)
  BY DEF Alike
<1>2. c # None => c \in Conn
  BY DEF Conns
<1>3. c # None => Alike(c, c1) /\ Alike(c, c2) /\ Alike(c, c3) /\ Alike(c, c4)
  BY <1>2 DEF Alike, Conn
<1>4. Serves(n, c) => c # None
  BY DEF Serves
<1>5. /\ MarkDirty(n, cs)[m] = IF Serves(n, c) THEN c1 ELSE c
      /\ Cancel(n, cs)[m] = IF Serves(n, c) THEN c2 ELSE c
      /\ Sever(n, cs)[m] = IF Serves(n, c) THEN c3 ELSE c
      /\ Orphan(n, cs)[m] = c \/ (Serves(n, c) /\ Orphan(n, cs)[m] = c4)
  BY DEF MarkDirty, Cancel, Sever, Orphan
<1>6. Created(n, cs)[m] \in {c, MarkDirty(n, cs)[m]}
  BY DEF Created
<1> HIDE DEF c, c1, c2, c3, c4
<1>7. Alike(c, MarkDirty(n, cs)[m]) /\ Alike(c, Cancel(n, cs)[m])
      /\ Alike(c, Sever(n, cs)[m]) /\ Alike(c, Orphan(n, cs)[m])
  BY <1>1, <1>3, <1>4, <1>5
<1>8. Alike(c, Created(n, cs)[m])
  BY <1>1, <1>6, <1>7
<1> QED BY <1>7, <1>8 DEF c

\* Alike is transitive.
LEMMA AlikeAlike ==
  ASSUME NEW c, NEW d, NEW e, Alike(c, d), Alike(d, e)
  PROVE  Alike(c, e)
BY DEF Alike

\* What is known of a replica stays known.
LEMMA AlikeTracks ==
  ASSUME NEW c, NEW d, NEW p, Alike(c, d), d # None, Tracks(c, p)
  PROVE  Tracks(d, p)
<1>1. d.phase = "send" /\ d.from # <<>> => d.from = d.cpos
  BY DEF Alike, Tracks
<1>2. d.q = c.q /\ d.server = c.server /\ d.cpos = c.cpos
  BY DEF Alike
<1> QED BY <1>1, <1>2, TracksKept

\* Reading a frame or closing the connection of n leaves the other streams alone.
LEMMA ReadAlike ==
  ASSUME TypeOK, NEW n \in Node, NEW m \in Node
  PROVE  /\ Alike(conn[m], conn[m])
         /\ m # n => /\ Alike(conn[m], Rest(n)[m]) /\ Alike(conn[m], Closed(n)[m])
                     /\ Alike(conn[m], Passed(n)[m])
         /\ Closed(n)[n] = None
<1>1. Alike(conn[m], conn[m])
  BY DEF Alike
<1>2. /\ m # n => Rest(n)[m] = conn[m] /\ Closed(n)[m] = conn[m] /\ Passed(n)[m] = conn[m]
      /\ Closed(n)[n] = None
  BY DEF TypeOK, Rest, Closed, Passed
<1> QED BY <1>1, <1>2

\* A step of node n: its own stream is dealt with, the others are alike.
LEMMA TrackedOne ==
  ASSUME ReplicasTracked, NEW n \in Node, Tracked(n)',
         \A m \in Node \ {n} :
           /\ Alike(conn[m], conn'[m]) /\ db'[m] = db[m] /\ step'[m] = step[m]
           /\ isPrimary'[m] = isPrimary[m] /\ (m \in up' <=> m \in up)
  PROVE  ReplicasTracked'
<1>1. ASSUME NEW m \in Node \ {n}
      PROVE  Tracked(m)'
  <2>1. Tracked(m) /\ SettledPos(m)' = SettledPos(m)
    BY DEF ReplicasTracked, SettledPos
  <2>2. ASSUME conn'[m] # None
        PROVE  /\ m \in up' /\ ~isPrimary'[m] /\ conn'[m].server # m
               /\ conn'[m].skipped \/ Tracks(conn'[m], SettledPos(m))
    <3>1. /\ conn[m] # None /\ conn'[m].server = conn[m].server
          /\ Alike(conn[m], conn'[m]) /\ conn'[m].skipped = conn[m].skipped
      BY <2>2 DEF Alike
    <3>2. /\ conn[m].skipped \/ Tracks(conn[m], SettledPos(m))
          /\ m \in up /\ ~isPrimary[m] /\ conn[m].server # m
      BY <2>1, <3>1 DEF Tracked, Server
    <3>3. conn'[m].skipped \/ Tracks(conn'[m], SettledPos(m))
      BY <2>2, <3>1, <3>2, AlikeTracks
    <3> QED BY <3>1, <3>2, <3>3
  <2> QED BY <2>1, <2>2 DEF Tracked, Server
<1> QED BY <1>1 DEF ReplicasTracked

\* Node n keeps its stream and the position it will have.
LEMMA TrackedSame ==
  ASSUME NEW n \in Node, Tracked(n), Alike(conn[n], conn'[n]),
         isPrimary'[n] = isPrimary[n], n \in up' <=> n \in up,
         conn[n] # None => SettledPos(n)' = SettledPos(n),
         step'[n].op = "notify" => db'[n].pos = step'[n].ltx.post
  PROVE  Tracked(n)'
<1>1. ASSUME conn'[n] # None
      PROVE  /\ n \in up' /\ ~isPrimary'[n] /\ conn'[n].server # n
             /\ conn'[n].skipped \/ Tracks(conn'[n], SettledPos(n)')
  <2>1. /\ conn[n] # None /\ conn'[n].server = conn[n].server
        /\ conn'[n].skipped = conn[n].skipped
    BY <1>1 DEF Alike
  <2>2. /\ conn[n].skipped \/ Tracks(conn[n], SettledPos(n))
        /\ n \in up /\ ~isPrimary[n] /\ conn[n].server # n
    BY <2>1 DEF Tracked, Server
  <2>3. conn'[n].skipped \/ Tracks(conn'[n], SettledPos(n))
    BY <1>1, <2>1, <2>2, AlikeTracks
  <2> QED BY <2>1, <2>2, <2>3
<1> QED BY <1>1 DEF Tracked, Server

\* Node n has no connection after the step.
LEMMA TrackedNone ==
  ASSUME NEW n, conn'[n] = None, step'[n].op # "notify"
  PROVE  Tracked(n)'
BY DEF Tracked

\* Node n reads a frame and works on it.
LEMMA TrackedRead ==
  ASSUME TypeOK, NEW n \in Node, Tracked(n), NEW k, Receives(n, k),
         Alike(Rest(n)[n], conn'[n]), isPrimary' = isPrimary, up' = up,
         SettledPos(n)' = HandledPos(Head(conn[n].q), db[n].pos),
         step'[n].op # "notify"
  PROVE  Tracked(n)'
<1> DEFINE c == conn[n]
           e == [c EXCEPT !.q = Tail(@)]
           p == HandledPos(Head(c.q), db[n].pos)
<1>1. c \in Conn /\ c # None /\ c.q # <<>> /\ Rest(n)[n] = e /\ step[n] = Free
  BY ReceiveTypes DEF Receives, Rest, TypeOK
<1>2. /\ e.q = Tail(c.q) /\ e.server = c.server /\ e.phase = c.phase
      /\ e.cpos = c.cpos /\ e.from = c.from /\ e.skipped = c.skipped
  BY <1>1 DEF Conn
<1>3. /\ c.skipped \/ Tracks(c, db[n].pos)
      /\ n \in up /\ ~isPrimary[n] /\ c.server # n
  BY <1>1 DEF Tracked, Server, SettledPos
<1>4. Alike(e, conn'[n])
  BY <1>1
<1> HIDE DEF e
<1>5. e.skipped \/ Tracks(e, p)
  BY <1>1, <1>2, <1>3, TracksTail
<1> HIDE DEF p
<1>6. ASSUME conn'[n] # None
      PROVE  (conn'[n].skipped \/ Tracks(conn'[n], p)) /\ conn'[n].server # n
  <2>1. conn'[n].skipped \/ Tracks(conn'[n], p)
    <3>1. conn'[n].skipped = e.skipped
      BY <1>4, <1>6 DEF Alike
    <3> QED BY <1>4, <1>5, <1>6, <3>1, AlikeTracks
  <2> QED BY <1>2, <1>3, <1>4, <1>6, <2>1 DEF Alike
<1>7. SettledPos(n)' = p
  BY DEF p
<1> QED BY <1>3, <1>6, <1>7 DEF Tracked, Server

\* The file at the head of the queue of a tracked replica.
LEMMA HeadFits ==
  ASSUME TypeOK, NEW n \in Node, Tracked(n), Receives(n, "ltx"), ~Skipped(n)
  PROVE  LET f == Head(conn[n].q).ltx
         IN  IF IsSnapshot(f) THEN f.node # n ELSE Named(f) /\ PreApply(f) = db[n].pos
<1> DEFINE c == conn[n]
           p == db[n].pos
<1>1. c \in Conn /\ c # None /\ c.q # <<>> /\ step[n] = Free /\ Head(c.q).kind = "ltx"
  BY ReceiveTypes DEF Receives
<1>2. c.q \in Seq(Frame) /\ Head(c.q) = c.q[1]
  BY <1>1, HeadTailProperties DEF Conn
<1>3. 1 \in DOMAIN c.q
  BY <1>1, <1>2, LenProperties, EmptySeq
<1>4. Tracks(c, p) /\ c.server # n
  BY <1>1 DEF Tracked, Server, SettledPos, Skipped
<1>5. Fits(c, 1, p)
  BY <1>1, <1>2, <1>3, <1>4 DEF Tracks
<1>6. \A x : PosAfter(c.q, 1 - 1, p, x) => x = p
  BY DEF PosAfter
<1> QED BY <1>2, <1>4, <1>5, <1>6 DEF Fits

\* The handler of the stream of n does a step.
LEMMA TrackedHandler ==
  ASSUME TypeOK, ReplicasTracked, NEW n \in Node, conn[n] # None,
         UNCHANGED <<db, step, up, isPrimary>>,
         NEW e, conn' = [conn EXCEPT ![n] = e], e.server = conn[n].server,
         e.skipped \/ Tracks(e, SettledPos(n))
  PROVE  ReplicasTracked'
<1>1. \A m \in Node : conn'[m] = IF m = n THEN e ELSE conn[m]
  BY DEF TypeOK
<1>2. SettledPos(n)' = SettledPos(n)
  BY DEF SettledPos
<1>3. Tracked(n)'
  <2>1. Tracked(n)
    BY DEF ReplicasTracked
  <2> QED BY <1>1, <1>2, <2>1 DEF Tracked, Server
<1>4. \A m \in Node \ {n} : Alike(conn[m], conn'[m])
  BY <1>1, ReadAlike
<1> QED BY <1>3, <1>4, TrackedOne

\* The handler does not know what its replica skips.
LEMMA SkippedServer ==
  ASSUME TypeOK, NEW n \in Node, ServerStep(n)
  PROVE  /\ conn[n] # None /\ UNCHANGED <<db, step, up, isPrimary>>
         /\ \E e : /\ conn' = [conn EXCEPT ![n] = e]
                  /\ e.server = conn[n].server /\ e.skipped = conn[n].skipped
<1> DEFINE b == conn[n]
           Same(e) == e.server = b.server /\ e.skipped = b.skipped
<1>1. UNCHANGED <<db, step, up, isPrimary>>
  BY DEF ServerStep, Lookup, SendDrop, Check, SendLTX, SendSnapshot, SendReady, Wake,
         TakeDirtySet, SendEnd
<1>2. b # None
  BY DEF ServerStep, Lookup, SendDrop, Check, SendLTX, SendSnapshot, SendReady, Wake,
         TakeDirtySet, SendEnd, Serving
<1> SUFFICES \E x : conn' = [conn EXCEPT ![n] = x] /\ Same(x)
  BY <1>1, <1>2
<1>3. b \in Conn
  BY <1>2 DEF TypeOK
<1>4. ASSUME NEW e, conn' = [conn EXCEPT ![n] = e], Same(e)
      PROVE  \E x : conn' = [conn EXCEPT ![n] = x] /\ Same(x)
  BY <1>4
<1>5. CASE Lookup(n) \/ Wake(n) \/ TakeDirtySet(n)
  <2> DEFINE c1 == [b EXCEPT !.phase = "check", !.gone = None]
             c2 == [b EXCEPT !.phase = "woken", !.notify = FALSE]
             c3 == [b EXCEPT !.dirty = FALSE, !.phase = IF b.dirty THEN "lookup" ELSE "wait"]
  <2>1. Same(c1) /\ Same(c2) /\ Same(c3)
    BY <1>3 DEF Conn
  <2>2. conn' = [conn EXCEPT ![n] = c1] \/ conn' = [conn EXCEPT ![n] = c2]
        \/ conn' = [conn EXCEPT ![n] = c3]
    BY <1>5 DEF Lookup, Wake, TakeDirtySet
  <2> HIDE DEF c1, c2, c3, Same
  <2> QED BY <1>4, <2>1, <2>2
<1>6. CASE SendDrop(n) \/ Check(n)
  <2> DEFINE c1 == [b EXCEPT !.phase = "flushed", !.cpos = <<>>,
                             !.q = Append(@, [kind |-> "drop"])]
             cp == ClientPos(b.cpos, ServerPos(n))
             c2 == [b EXCEPT !.phase = "flushed", !.gone = None]
             c3 == [b EXCEPT !.phase = "send", !.from = cp]
  <2>1. conn' = [conn EXCEPT ![n] = c1] \/ conn' = [conn EXCEPT ![n] = c2]
        \/ conn' = [conn EXCEPT ![n] = c3]
    BY <1>6 DEF SendDrop, Check
  <2> HIDE DEF cp
  <2>2. Same(c1) /\ Same(c2) /\ Same(c3)
    BY <1>3 DEF Conn
  <2> HIDE DEF c1, c2, c3, Same
  <2> QED BY <1>4, <2>1, <2>2
<1>7. CASE SendReady(n) \/ SendEnd(n)
  <2> DEFINE c1 == [b EXCEPT !.phase = "wait"]
             c2 == [b EXCEPT !.phase = "wait", !.readySent = TRUE,
                             !.q = Append(@, [kind |-> "ready"])]
             c3 == [b EXCEPT !.phase = "ended", !.q = Append(@, [kind |-> "end"])]
  <2>1. Same(c1) /\ Same(c2) /\ Same(c3)
    BY <1>3 DEF Conn
  <2>2. conn' = [conn EXCEPT ![n] = c1] \/ conn' = [conn EXCEPT ![n] = c2]
        \/ conn' = [conn EXCEPT ![n] = c3]
    BY <1>7 DEF SendReady, SendEnd
  <2> HIDE DEF c1, c2, c3, Same
  <2> QED BY <1>4, <2>1, <2>2
<1>8. ASSUME NEW f, SendFrame(n, f)
      PROVE  \E x : conn' = [conn EXCEPT ![n] = x] /\ Same(x)
  <2> DEFINE c == [b EXCEPT !.q = Append(@, [kind |-> "ltx", ltx |-> f]), !.cpos = f.post,
                            !.phase = "check", !.from = <<>>]
  <2>1. Same(c)
    BY <1>3 DEF Conn
  <2>2. conn' = [conn EXCEPT ![n] = c]
    BY <1>8 DEF SendFrame
  <2> HIDE DEF c, Same
  <2> QED BY <1>4, <2>1, <2>2
<1>9. CASE SendLTX(n)
  <2>1. PICK f : SendFrame(n, f)
    BY <1>9 DEF SendLTX
  <2> QED BY <1>8, <2>1
<1>10. CASE SendSnapshot(n)
  <2> DEFINE s == Server(n)
             c == [b EXCEPT !.q = Append(@, [kind |-> "broken"]), !.phase = "ended"]
  <2>1. SendFrame(n, [min |-> 1, post |-> db[s].pos, node |-> s])
        \/ conn' = [conn EXCEPT ![n] = c]
    BY <1>10 DEF SendSnapshot
  <2>2. Same(c)
    BY <1>3 DEF Conn
  <2> HIDE DEF c, Same
  <2> QED BY <1>4, <1>8, <2>1, <2>2
<1> QED BY <1>5, <1>6, <1>7, <1>9, <1>10 DEF ServerStep

\* The handler of the stream of n: what it sends follows what it has sent.
LEMMA TrackedServer ==
  ASSUME TypeOK, ReplicasTracked, NEW n \in Node, ServerStep(n)
  PROVE  ReplicasTracked'
<1> DEFINE b == conn[n]
           p == SettledPos(n)
<1>1. UNCHANGED <<db, step, up, isPrimary>> /\ b # None
  BY SkippedServer
<1>2. CASE b.skipped
  BY <1>1, <1>2, SkippedServer, TrackedHandler
<1> SUFFICES ASSUME ~b.skipped PROVE ReplicasTracked'
  BY <1>2
<1>3. b \in Conn /\ conn \in Conns
  BY <1>1 DEF TypeOK, Conns
<1>4. Tracks(b, p) /\ PosAfter(b.q, Len(b.q), p, b.cpos)
  BY <1>1 DEF ReplicasTracked, Tracked, Tracks
<1>5. ASSUME NEW e, conn' = [conn EXCEPT ![n] = e], e.server = b.server, Tracks(e, p)
      PROVE  ReplicasTracked'
  BY <1>1, <1>5, TrackedHandler
<1>6. ASSUME NEW e, conn' = [conn EXCEPT ![n] = e], NEW fr \in Frame, ~Moves(fr),
             e.q = Append(b.q, fr), e.server = b.server, e.phase # "send", e.cpos = b.cpos
      PROVE  ReplicasTracked'
  <2>1. fr.kind # "ltx"
    BY <1>6 DEF Moves
  <2>2. Tracks(e, p)
    BY <1>3, <1>4, <1>6, <2>1, TracksAppend
  <2> QED BY <1>5, <1>6, <2>2
<1>7. ASSUME NEW e, conn' = [conn EXCEPT ![n] = e],
             e.q = b.q, e.server = b.server, e.cpos = b.cpos,
             e.phase = "send" /\ e.from # <<>> => e.from = e.cpos
      PROVE  ReplicasTracked'
  <2>1. Tracks(e, p)
    BY <1>4, <1>7, TracksKept
  <2> QED BY <1>5, <1>7, <2>1
<1>8. CASE Lookup(n) \/ Wake(n) \/ TakeDirtySet(n)
  <2> DEFINE c1 == [b EXCEPT !.phase = "check", !.gone = None]
             c2 == [b EXCEPT !.phase = "woken", !.notify = FALSE]
             c3 == [b EXCEPT !.dirty = FALSE, !.phase = IF b.dirty THEN "lookup" ELSE "wait"]
  <2>1. \A c \in {c1, c2, c3} : /\ c.q = b.q /\ c.phase # "send"
                                /\ c.server = b.server /\ c.cpos = b.cpos
    BY <1>3 DEF Conn
  <2>2. conn' = [conn EXCEPT ![n] = c1] \/ conn' = [conn EXCEPT ![n] = c2]
        \/ conn' = [conn EXCEPT ![n] = c3]
    BY <1>8 DEF Lookup, Wake, TakeDirtySet
  <2> HIDE DEF c1, c2, c3
  <2> QED BY <1>7, <2>1, <2>2
<1>9. CASE SendDrop(n)
  <2> DEFINE fr == [kind |-> "drop"]
             c == [b EXCEPT !.phase = "flushed", !.cpos = <<>>, !.q = Append(@, fr)]
  <2>1. conn' = [conn EXCEPT ![n] = c]
    BY <1>9 DEF SendDrop
  <2>2. /\ c.q = Append(b.q, fr) /\ c.server = b.server
        /\ c.phase # "send" /\ c.cpos = <<>>
    BY <1>3 DEF Conn
  <2>3. fr \in Frame /\ Moves(fr) /\ EndPos(fr) = <<>> /\ fr.kind # "ltx"
    BY PlainFrames DEF Moves, EndPos
  <2> HIDE DEF c, fr
  <2>4. Tracks(c, p)
    BY <1>3, <1>4, <2>2, <2>3, TracksAppend
  <2> QED BY <1>5, <2>1, <2>2, <2>4
<1>10. CASE SendReady(n) \/ SendEnd(n)
  <2> DEFINE c1 == [b EXCEPT !.phase = "wait"]
             c2 == [b EXCEPT !.phase = "wait", !.readySent = TRUE,
                             !.q = Append(@, [kind |-> "ready"])]
             c3 == [b EXCEPT !.phase = "ended", !.q = Append(@, [kind |-> "end"])]
  <2>1. \A c \in {c1, c2, c3} : c.server = b.server /\ c.phase # "send" /\ c.cpos = b.cpos
    BY <1>3 DEF Conn
  <2>2. /\ c1.q = b.q /\ c2.q = Append(b.q, [kind |-> "ready"])
        /\ c3.q = Append(b.q, [kind |-> "end"])
    BY <1>3 DEF Conn
  <2>3. conn' = [conn EXCEPT ![n] = c1] \/ conn' = [conn EXCEPT ![n] = c2]
        \/ conn' = [conn EXCEPT ![n] = c3]
    BY <1>10 DEF SendReady, SendEnd
  <2>4. \A k \in {"ready", "end"} : [kind |-> k] \in Frame /\ ~Moves([kind |-> k])
    BY PlainFrames DEF Moves
  <2> HIDE DEF c1, c2, c3
  <2>5. CASE conn' = [conn EXCEPT ![n] = c1]
    BY <1>7, <2>1, <2>2, <2>5
  <2>6. CASE conn' = [conn EXCEPT ![n] = c2]
    BY <1>6, <2>1, <2>2, <2>4, <2>6
  <2>7. CASE conn' = [conn EXCEPT ![n] = c3]
    BY <1>6, <2>1, <2>2, <2>4, <2>7
  <2> QED BY <2>3, <2>5, <2>6, <2>7
<1>11. CASE Check(n)
  <2> DEFINE cp == ClientPos(b.cpos, ServerPos(n))
             c1 == [b EXCEPT !.phase = "flushed", !.gone = None]
             c2 == [b EXCEPT !.phase = "send", !.from = cp]
  <2>1. conn' = [conn EXCEPT ![n] = c1] \/ conn' = [conn EXCEPT ![n] = c2]
    BY <1>11 DEF Check
  <2>2. cp = <<>> \/ cp = b.cpos
    BY DEF ClientPos
  <2> HIDE DEF cp
  <2>3. /\ c1.q = b.q /\ c1.server = b.server /\ c1.cpos = b.cpos /\ c1.phase # "send"
        /\ c2.q = b.q /\ c2.server = b.server /\ c2.cpos = b.cpos /\ c2.from = cp
    BY <1>3 DEF Conn
  <2> HIDE DEF c1, c2
  <2> QED BY <1>7, <2>1, <2>2, <2>3
<1>12. ASSUME NEW f \in LTX, SendFrame(n, f),
              \/ IsSnapshot(f) /\ f.node = b.server
              \/ ~IsSnapshot(f) /\ Named(f) /\ PreApply(f) = b.cpos
       PROVE  ReplicasTracked'
  <2> DEFINE fr == [kind |-> "ltx", ltx |-> f]
             c == [b EXCEPT !.q = Append(@, fr), !.cpos = f.post,
                            !.phase = "check", !.from = <<>>]
  <2>1. conn' = [conn EXCEPT ![n] = c]
    BY <1>12 DEF SendFrame
  <2>2. c.q = Append(b.q, fr) /\ c.server = b.server /\ c.phase # "send" /\ c.cpos = f.post
    BY <1>3 DEF Conn
  <2>3. fr \in Frame /\ Moves(fr) /\ EndPos(fr) = f.post /\ fr.ltx = f
    BY <1>12 DEF Frame, Moves, EndPos
  <2> HIDE DEF c, fr
  <2>4. Tracks(c, p)
    BY <1>3, <1>4, <1>12, <2>2, <2>3, TracksAppend
  <2> QED BY <1>5, <2>1, <2>2, <2>4
<1>13. CASE SendLTX(n)
  <2>1. PICK f \in Streamable(n) : SendFrame(n, f)
    BY <1>13 DEF SendLTX
  <2>2. b.server \in Node /\ b.from \in Seq(TxNumber) /\ Server(n) = b.server
    BY <1>3 DEF Conn, History, Server
  <2>3. f \in LTX
    BY <2>2 DEF Streamable, TypeOK, DB
  <2>4. b.from # <<>> /\ f.min = Len(b.from) + 1 /\ MaxTXID(f) = f.min /\ PreApply(f) = b.from
    BY DEF Streamable
  <2>5. Len(b.from) \in Nat /\ Len(b.from) > 0
    BY <2>2, <2>4, LenProperties, EmptySeq
  <2>6. ~IsSnapshot(f)
    BY <2>4, <2>5 DEF IsSnapshot
  <2>7. Named(f)
    <3>1. Len(f.post) # 0
      BY <2>4, <2>5 DEF MaxTXID
    <3>2. f.post # <<>>
      BY <3>1, EmptySeq
    <3> QED BY <2>4, <3>2 DEF Named
  <2>8. b.from = b.cpos
    BY <1>4, <1>13, <2>4 DEF SendLTX, Serving, Tracks
  <2> QED BY <1>12, <2>1, <2>3, <2>4, <2>6, <2>7, <2>8
<1>14. CASE SendSnapshot(n)
  <2> DEFINE s == b.server
             f == [min |-> 1, post |-> db[s].pos, node |-> s]
             c == [b EXCEPT !.q = Append(@, [kind |-> "broken"]), !.phase = "ended"]
  <2>1. s \in Node /\ s = Server(n)
    BY <1>3 DEF Conn, Server
  <2>2. f \in LTX /\ IsSnapshot(f) /\ f.node = b.server
    BY <2>1 DEF LTX, TypeOK, DB, IsSnapshot
  <2>3. SendFrame(n, f) \/ conn' = [conn EXCEPT ![n] = c]
    BY <1>14, <2>1 DEF SendSnapshot
  <2>4. /\ c.q = Append(b.q, [kind |-> "broken"]) /\ c.phase # "send"
        /\ c.server = b.server /\ c.cpos = b.cpos
    BY <1>3 DEF Conn
  <2>5. [kind |-> "broken"] \in Frame /\ ~Moves([kind |-> "broken"])
    BY PlainFrames DEF Moves
  <2> HIDE DEF c, f
  <2> QED BY <1>6, <1>12, <2>2, <2>3, <2>4, <2>5
<1> QED BY <1>8, <1>9, <1>10, <1>11, <1>13, <1>14 DEF ServerStep

\* The replica loop: a frame takes the replica where the server knew it would.
LEMMA TrackedReplica ==
  ASSUME TypeOK, WritersConsistent, AbsentEmpty, ReplicasTracked,
         NEW n \in Node, ReplicaStep(n)
  PROVE  ReplicasTracked'
<1>1. /\ db \in [Node -> DB] /\ step \in [Node -> Writer \cup {Free}] /\ conn \in Conns
      /\ isPrimary' = isPrimary /\ up' = up
  BY DEF TypeOK, Conns, ReplicaStep, SkipLTX, RejectLTX, RenameLTX, RemoveFile, WritePages,
         VerifyPages, ReceiveReady, ReceiveDrop, ReceiveBroken, Disconnect
<1>2. Tracked(n) /\ WriterConsistent(n)
  BY DEF ReplicasTracked, WritersConsistent
<1>3. \A m \in Node \ {n} : db'[m] = db[m] /\ step'[m] = step[m]
  BY <1>1 DEF ReplicaStep, SkipLTX, RejectLTX, RenameLTX, RemoveFile, WritePages,
         VerifyPages, ReceiveReady, ReceiveDrop, ReceiveBroken, Disconnect
<1>4. ASSUME Tracked(n)', \A m \in Node \ {n} : Alike(conn[m], conn'[m])
      PROVE  ReplicasTracked'
  BY <1>1, <1>3, <1>4, TrackedOne
<1>5. ASSUME NEW cs \in Conns, \A m \in Node : Alike(cs[m], conn'[m]),
             cs \in {Rest(n), Closed(n), Passed(n)}
      PROVE  \A m \in Node \ {n} : Alike(conn[m], conn'[m])
  BY <1>5, ReadAlike, AlikeAlike
<1>6. ASSUME conn' = Created(n, Closed(n)) \/ conn' = Closed(n), step'[n].op # "notify"
      PROVE  ReplicasTracked'
  <2>1. Closed(n) \in Conns /\ Closed(n)[n] = None
    BY <1>1, ConnUpdate, ReadAlike DEF Closed
  <2>2. \A m \in Node : Alike(Closed(n)[m], Closed(n)[m])
    BY DEF Alike
  <2>3. \A m \in Node : Alike(Closed(n)[m], conn'[m])
    BY <1>6, <2>1, <2>2, EffectAlike
  <2>4. conn'[n] = None
    BY <2>1, <2>3 DEF Alike
  <2>5. Tracked(n)'
    BY <1>6, <2>4, TrackedNone
  <2> QED BY <1>4, <1>5, <2>1, <2>3, <2>5
<1>7. ASSUME NEW k, Receives(n, k), \A m \in Node : Alike(Rest(n)[m], conn'[m]),
             SettledPos(n)' = HandledPos(Head(conn[n].q), db[n].pos), step'[n].op # "notify"
      PROVE  ReplicasTracked'
  <2>1. Rest(n) \in Conns
    BY <1>7, ReceiveTypes
  <2>2. Tracked(n)'
    BY <1>1, <1>2, <1>7, TrackedRead
  <2> QED BY <1>4, <1>5, <1>7, <2>1, <2>2
<1>8. CASE SkipLTX(n)
  <2> DEFINE cs == Passed(n)
  <2>1. Receives(n, "ltx") /\ conn' = Created(n, cs) /\ step' = step
    BY <1>8 DEF SkipLTX
  <2>2. cs \in Conns /\ conn[n] \in Conn /\ conn[n] # None /\ step[n] = Free
    BY <2>1, ReceiveTypes DEF Receives
  <2>3. cs[n].skipped = TRUE /\ cs[n].server = conn[n].server
    BY <1>1, <2>2 DEF Passed, Rest, Conns, Conn
  <2> HIDE DEF cs
  <2>4. \A m \in Node : Alike(cs[m], conn'[m])
    BY <2>1, <2>2, EffectAlike
  <2>5. conn'[n] # None => conn'[n].skipped /\ conn'[n].server = conn[n].server
    BY <2>3, <2>4 DEF Alike
  <2>6. Tracked(n)'
    BY <1>1, <1>2, <2>1, <2>2, <2>5 DEF Tracked, Server, Free
  <2> QED BY <1>4, <1>5, <2>2, <2>4, <2>6 DEF cs
<1>9. CASE RejectLTX(n) \/ ReceiveBroken(n) \/ Disconnect(n)
  <2>1. step'[n].op # "notify"
    BY <1>9 DEF RejectLTX, ReceiveBroken, Disconnect, Receives, Free
  <2> QED BY <1>6, <1>9, <2>1 DEF RejectLTX, ReceiveBroken, Disconnect
<1>10. CASE RenameLTX(n)
  <2> DEFINE f == Head(conn[n].q).ltx
             w == [op |-> IF IsSnapshot(f) THEN "trim" ELSE "apply", ltx |-> f]
  <2>1. Receives(n, "ltx") /\ step' = [step EXCEPT ![n] = w] /\ conn' = Created(n, Rest(n))
    BY <1>10 DEF RenameLTX
  <2>2. step'[n] = w /\ w.op # "notify" /\ w.ltx = f /\ w # Free
    BY <1>1, <2>1 DEF Free
  <2>3. SettledPos(n)' = f.post
    BY <2>2 DEF SettledPos
  <2>4. HandledPos(Head(conn[n].q), db[n].pos) = f.post
    BY <2>1 DEF HandledPos, Moves, EndPos, Receives
  <2>5. \A m \in Node : Alike(Rest(n)[m], conn'[m])
    BY <2>1, ReceiveTypes, EffectAlike
  <2> QED BY <1>7, <2>1, <2>2, <2>3, <2>4, <2>5
<1>11. CASE ReceiveReady(n)
  <2>1. /\ Receives(n, "ready") \/ Receives(n, "end")
        /\ conn' = Rest(n) /\ db' = db /\ step' = step
    BY <1>11 DEF ReceiveReady
  <2>2. step[n] = Free /\ ~Moves(Head(conn[n].q))
    BY <2>1 DEF Receives, Moves
  <2>3. step'[n].op # "notify" /\ SettledPos(n)' = HandledPos(Head(conn[n].q), db[n].pos)
    BY <2>1, <2>2 DEF Free, SettledPos, HandledPos
  <2>4. \A m \in Node : Alike(Rest(n)[m], conn'[m])
    BY <2>1 DEF Alike
  <2> QED BY <1>7, <2>1, <2>3, <2>4
<1>12. CASE ReceiveDrop(n)
  <2> DEFINE cs == Rest(n)
             os == Orphan(n, cs)
  <2>1. /\ Receives(n, "drop") /\ step' = step /\ db' = [db EXCEPT ![n] = NoDB]
        /\ conn' = IF db[n].exists THEN MarkDirty(n, os) ELSE cs
    BY <1>12 DEF ReceiveDrop
  <2>2. step[n] = Free /\ Head(conn[n].q).kind = "drop"
    BY <2>1 DEF Receives
  <2>3. HandledPos(Head(conn[n].q), db[n].pos) = <<>>
    BY <2>2 DEF HandledPos, Moves, EndPos
  <2>4. db'[n].pos = <<>>
    BY <1>1, <2>1 DEF NoDB
  <2>5. step'[n].op # "notify" /\ SettledPos(n)' = HandledPos(Head(conn[n].q), db[n].pos)
    BY <2>1, <2>2, <2>3, <2>4 DEF Free, SettledPos
  <2>6. cs \in Conns /\ os \in Conns
    BY <2>1, ReceiveTypes, OrphanType
  <2>7. \A m \in Node : Alike(cs[m], os[m]) /\ Alike(cs[m], cs[m])
    BY <2>6, EffectAlike DEF Alike
  <2> HIDE DEF cs, os
  <2>8. \A m \in Node : Alike(os[m], MarkDirty(n, os)[m])
    BY <2>6, EffectAlike
  <2>9. \A m \in Node : Alike(cs[m], MarkDirty(n, os)[m])
    BY <2>7, <2>8, AlikeAlike
  <2>10. \A m \in Node : Alike(cs[m], conn'[m])
    BY <2>1, <2>7, <2>9
  <2> QED BY <1>7, <2>1, <2>5, <2>10 DEF cs
<1>13. ASSUME conn' = conn, SettledPos(n)' = SettledPos(n),
              step'[n].op = "notify" => db'[n].pos = step'[n].ltx.post
       PROVE  ReplicasTracked'
  <2>1. \A m \in Node : Alike(conn[m], conn'[m])
    BY <1>13 DEF Alike
  <2>2. Tracked(n)'
    BY <1>1, <1>2, <1>13, <2>1, TrackedSame
  <2> QED BY <1>4, <2>1, <2>2
<1>14. CASE RemoveFile(n) \/ WritePages(n)
  <2>1. step[n] \in Writer /\ step[n] # Free
    BY <1>14, BusyType DEF RemoveFile, WritePages
  <2>2. conn' = conn /\ step'[n].ltx = step[n].ltx /\ step'[n].op \in {"trim", "apply", "verify"}
    BY <1>1, <1>14, <2>1 DEF RemoveFile, WritePages, Writer
  <2>3. step'[n] # Free
    BY <2>2 DEF Free
  <2>4. SettledPos(n)' = SettledPos(n)
    BY <2>1, <2>2, <2>3 DEF SettledPos
  <2> QED BY <1>13, <2>2, <2>4
<1>15. CASE VerifyPages(n)
  <2>1. step[n] \in Writer /\ step[n] # Free
    BY <1>15, BusyType DEF VerifyPages
  <2>2. CASE conn' = Closed(n) /\ step' = [step EXCEPT ![n] = Free]
    <3>1. step'[n].op # "notify"
      BY <1>1, <2>2 DEF Free
    <3> QED BY <1>6, <2>2, <3>1
  <2>3. CASE /\ db' = [db EXCEPT ![n].pages = {step[n].ltx.post}, ![n].pos = step[n].ltx.post]
             /\ step' = [step EXCEPT ![n].op = "notify"] /\ conn' = conn
    <3>1. step'[n].ltx = step[n].ltx /\ step'[n].op = "notify"
      BY <1>1, <2>1, <2>3 DEF Writer
    <3>2. db'[n].pos = step[n].ltx.post
      BY <1>1, <2>3 DEF DB
    <3>3. step'[n] # Free
      BY <3>1 DEF Free
    <3>4. SettledPos(n)' = SettledPos(n)
      BY <2>1, <3>1, <3>3 DEF SettledPos
    <3> QED BY <1>13, <2>3, <3>1, <3>2, <3>4
  <2> QED BY <1>15, <2>2, <2>3 DEF VerifyPages
<1> QED BY <1>8, <1>9, <1>10, <1>11, <1>12, <1>14, <1>15 DEF ReplicaStep

\* Commits, lease changes, applications and the environment do not move a replica.
LEMMA TrackedStore ==
  ASSUME TypeOK, WritersConsistent, AbsentEmpty, ReplicasTracked,
         NEW n \in Node, CommitStep(n) \/ LeaseStep(n) \/ EnvStep(n)
  PROVE  ReplicasTracked'
<1>1. db \in [Node -> DB] /\ step \in [Node -> Writer \cup {Free}] /\ conn \in Conns
      /\ isPrimary \in [Node -> BOOLEAN]
  BY DEF TypeOK, Conns
<1>2. Tracked(n) /\ WriterConsistent(n)
  BY DEF ReplicasTracked, WritersConsistent
<1>3. conn[n] # None => n \in up /\ ~isPrimary[n]
  BY <1>2 DEF Tracked
<1>4. \A m \in Node \ {n} : /\ db'[m] = db[m] /\ step'[m] = step[m]
                            /\ isPrimary'[m] = isPrimary[m] /\ (m \in up' <=> m \in up)
  BY <1>1 DEF CommitStep, LeaseStep, EnvStep, CommitDone, Notify, AcquireLease, Connect,
         StepDown, CreateDB, DropDB, CommitLTX, EnforceRetention, Crash, Restart, Cut
<1>5. ASSUME Tracked(n)', \A m \in Node \ {n} : Alike(conn[m], conn'[m])
      PROVE  ReplicasTracked'
  BY <1>4, <1>5, TrackedOne
<1>6. \A m \in Node : /\ Alike(conn[m], conn[m]) /\ Alike(conn[m], MarkDirty(n, conn)[m])
                      /\ Alike(conn[m], Cancel(n, conn)[m])
                      /\ Alike(conn[m], Sever(n, conn)[m])
  BY <1>1, EffectAlike DEF Alike
<1>7. ASSUME conn[n] = None, \A m \in Node : Alike(conn[m], conn'[m]), step'[n].op # "notify"
      PROVE  ReplicasTracked'
  <2>1. conn'[n] = None
    BY <1>7 DEF Alike
  <2> QED BY <1>5, <1>7, <2>1, TrackedNone
<1>8. ASSUME \A m \in Node : Alike(conn[m], conn'[m]), isPrimary' = isPrimary, up' = up,
             SettledPos(n)' = SettledPos(n),
             step'[n].op = "notify" => db'[n].pos = step'[n].ltx.post
      PROVE  ReplicasTracked'
  <2>1. Tracked(n)'
    BY <1>2, <1>8, TrackedSame
  <2> QED BY <1>5, <1>8, <2>1
<1>9. CASE CommitDone(n)
  <2>1. step[n] \in Writer /\ step[n] # Free
    BY <1>9, BusyType DEF CommitDone
  <2>2. /\ step'[n].ltx = step[n].ltx /\ step'[n].op = "notify"
        /\ conn' = conn /\ isPrimary' = isPrimary /\ up' = up
    BY <1>1, <1>9, <2>1 DEF CommitDone, Writer
  <2>3. db'[n].pos = step[n].ltx.post
    BY <1>1, <1>9 DEF CommitDone, DB
  <2>4. step'[n] # Free
    BY <2>2 DEF Free
  <2>5. SettledPos(n)' = SettledPos(n)
    BY <2>1, <2>2, <2>4 DEF SettledPos
  <2> QED BY <1>6, <1>8, <2>2, <2>3, <2>5
<1>10. CASE Notify(n)
  <2>1. step[n] # Free
    BY <1>10, BusyType DEF Notify
  <2>2. /\ step'[n] = Free /\ db' = db /\ conn' = MarkDirty(n, conn)
        /\ isPrimary' = isPrimary /\ up' = up
    BY <1>1, <1>10 DEF Notify
  <2>3. db[n].pos = step[n].ltx.post
    BY <1>2, <1>10 DEF Tracked, Notify
  <2>4. SettledPos(n)' = SettledPos(n) /\ step'[n].op # "notify"
    BY <2>1, <2>2, <2>3 DEF SettledPos, Free
  <2> QED BY <1>6, <1>8, <2>2, <2>4
<1>11. CASE AcquireLease(n)
  <2>1. conn[n] = None /\ conn' = conn /\ step' = step /\ step[n] = Free
    BY <1>11 DEF AcquireLease, Seeking
  <2>2. step'[n].op # "notify"
    BY <2>1 DEF Free
  <2> QED BY <1>6, <1>7, <2>1, <2>2
<1>12. CASE \E s \in Node : Connect(n, s)
  <2>1. PICK s \in Node : Connect(n, s)
    BY <1>12
  <2> DEFINE c == [server |-> s, cpos |-> db[n].pos, from |-> <<>>, gone |-> None,
                   phase |-> IF db[n].exists \/ db[s].exists THEN "lookup" ELSE "flushed",
                   notify |-> FALSE, dirty |-> FALSE, readySent |-> FALSE,
                   cancelled |-> FALSE, skipped |-> FALSE, q |-> <<>>]
  <2>2. /\ conn' = [conn EXCEPT ![n] = c] /\ step[n] = Free /\ n \in up /\ ~isPrimary[n]
        /\ s # n /\ UNCHANGED <<db, step, up, isPrimary>>
    BY <2>1 DEF Connect, Seeking
  <2>3. c.q = <<>> /\ c.phase # "send" /\ c.server = s /\ c.cpos = db[n].pos
    OBVIOUS
  <2> HIDE DEF c
  <2>4. \A m \in Node : conn'[m] = IF m = n THEN c ELSE conn[m]
    BY <1>1, <2>2 DEF Conns
  <2>5. Len(c.q) = 0 /\ DOMAIN c.q = {}
    BY <2>3, EmptySeq, LenProperties
  <2>6. PosAfter(c.q, 0, db[n].pos, c.cpos)
    BY <2>3 DEF PosAfter
  <2>7. Tracks(c, db[n].pos)
    BY <2>3, <2>5, <2>6 DEF Tracks
  <2>8. SettledPos(n)' = db[n].pos /\ step'[n].op # "notify"
    BY <2>2 DEF SettledPos, Free
  <2>9. Tracked(n)'
    BY <2>2, <2>3, <2>4, <2>7, <2>8 DEF Tracked, Server
  <2> QED BY <1>5, <1>6, <2>4, <2>9
<1>13. CASE StepDown(n)
  <2>1. /\ conn' = Cancel(n, conn) /\ conn[n] = None
        /\ UNCHANGED <<db, step>>
    BY <1>3, <1>13 DEF StepDown
  <2>2. conn'[n] = None
    BY <1>6, <2>1 DEF Alike
  <2>3. Tracked(n)'
    BY <1>2, <2>1, <2>2 DEF Tracked
  <2> QED BY <1>5, <1>6, <2>1, <2>3
<1>14. CASE CreateDB(n)
  <2>1. /\ ~db[n].exists /\ db' = [db EXCEPT ![n] = EmptyDB] /\ conn' = MarkDirty(n, conn)
        /\ step' = step /\ isPrimary' = isPrimary /\ up' = up
    BY <1>14 DEF CreateDB
  <2>2. db[n].pos = <<>> /\ step[n] = Free
    BY <1>2, <2>1 DEF AbsentEmpty, WriterConsistent
  <2>3. db'[n].pos = <<>>
    BY <1>1, <2>1 DEF EmptyDB, NoDB
  <2>4. SettledPos(n)' = SettledPos(n) /\ step'[n].op # "notify"
    BY <2>1, <2>2, <2>3 DEF SettledPos, Free
  <2> QED BY <1>6, <1>8, <2>1, <2>4
<1>15. CASE DropDB(n)
  <2> DEFINE os == Orphan(n, conn)
  <2>1. conn' = MarkDirty(n, os) /\ step'[n] = Free /\ conn[n] = None
    BY <1>1, <1>3, <1>15 DEF DropDB
  <2>2. os \in Conns /\ \A m \in Node : Alike(conn[m], os[m])
    BY <1>1, OrphanType, EffectAlike
  <2> HIDE DEF os
  <2>3. \A m \in Node : Alike(os[m], conn'[m])
    BY <2>1, <2>2, EffectAlike
  <2>4. \A m \in Node : Alike(conn[m], conn'[m])
    BY <2>2, <2>3, AlikeAlike
  <2>5. step'[n].op # "notify"
    BY <2>1 DEF Free
  <2> QED BY <1>7, <2>1, <2>4, <2>5
<1>16. CASE CommitLTX(n)
  <2>1. conn' = conn /\ conn[n] = None /\ step'[n].op = "commit"
    BY <1>1, <1>3, <1>16 DEF CommitLTX
  <2> QED BY <1>6, <1>7, <2>1
<1>17. CASE EnforceRetention(n)
  <2>1. PICK old : db' = [db EXCEPT ![n].ltx = @ \ old]
    BY <1>17 DEF EnforceRetention
  <2>2. /\ db'[n].pos = db[n].pos /\ step' = step /\ conn' = conn
        /\ isPrimary' = isPrimary /\ up' = up
    BY <1>1, <1>17, <2>1 DEF EnforceRetention, DB
  <2>3. SettledPos(n)' = SettledPos(n)
    BY <2>2 DEF SettledPos
  <2>4. step'[n].op = "notify" => db'[n].pos = step'[n].ltx.post
    BY <1>2, <2>2 DEF Tracked
  <2> QED BY <1>6, <1>8, <2>2, <2>3, <2>4
<1>18. CASE Crash(n)
  <2>1. /\ conn' = [Sever(n, conn) EXCEPT ![n] = None] /\ Sever(n, conn) \in Conns
        /\ step'[n] = Free
    BY <1>1, <1>18, EffectTypes DEF Crash
  <2>2. \A m \in Node : conn'[m] = IF m = n THEN None ELSE Sever(n, conn)[m]
    BY <2>1 DEF Conns
  <2>3. Tracked(n)'
    BY <2>1, <2>2, TrackedNone DEF Free
  <2> QED BY <1>5, <1>6, <2>2, <2>3
<1>19. CASE Restart(n)
  <2>1. conn' = conn /\ conn[n] = None /\ step' = step /\ step[n] = Free
    BY <1>2, <1>3, <1>19 DEF Restart, WriterConsistent
  <2>2. step'[n].op # "notify"
    BY <2>1 DEF Free
  <2> QED BY <1>6, <1>7, <2>1, <2>2
<1>20. CASE Cut(n)
  <2>1. conn' = Closed(n) /\ step' = step /\ step[n] = Free
    BY <1>20 DEF Cut
  <2>2. conn'[n] = None /\ step'[n].op # "notify"
    BY <2>1, ReadAlike DEF Free
  <2>3. \A m \in Node \ {n} : Alike(conn[m], conn'[m])
    BY <2>1, ReadAlike
  <2>4. Tracked(n)'
    BY <2>2, TrackedNone
  <2> QED BY <1>5, <2>3, <2>4
<1> QED BY <1>9, <1>10, <1>11, <1>12, <1>13, <1>14, <1>15, <1>16, <1>17, <1>18, <1>19, <1>20
        DEF CommitStep, LeaseStep, EnvStep

\* Every step keeps the replicas tracked.
LEMMA TrackedNext ==
  /\ TypeOK /\ WritersConsistent /\ AbsentEmpty /\ ReplicasTracked /\ [Next]_vars
  => ReplicasTracked'
<1> SUFFICES ASSUME TypeOK, WritersConsistent, AbsentEmpty, ReplicasTracked, [Next]_vars
             PROVE  ReplicasTracked'
  OBVIOUS
<1>1. CASE LeaseExpire \/ UNCHANGED vars
  <2>1. UNCHANGED <<up, isPrimary, db, step, conn>>
    BY <1>1 DEF LeaseExpire, vars
  <2> QED BY <2>1 DEF ReplicasTracked, Tracked, Server, SettledPos
<1>2. ASSUME NEW n \in Node,
             ServerStep(n) \/ ReplicaStep(n) \/ CommitStep(n) \/ LeaseStep(n) \/ EnvStep(n)
      PROVE  ReplicasTracked'
  BY <1>2, TrackedServer, TrackedReplica, TrackedStore
<1> QED BY <1>1, <1>2 DEF Next

\* In a cluster of any size, through demotions, drops, retention, broken connections,
\* crashes and restarts: until a replica skips a frame (processLTXStreamFrame), the
\* position a handler keeps for it (posMap) is the one it will have, and no frame is
\* refused for its position.
THEOREM ReplicasAreTracked == Spec => []ServerTracksReplica
<1>1. Init => AbsentEmpty /\ ReplicasTracked
  BY DEF Init, AbsentEmpty, ReplicasTracked, Tracked, NoDB, Free
<1>2. TypeOK /\ ReplicasTracked => ServerTracksReplica
  <2> SUFFICES ASSUME TypeOK, ReplicasTracked, NEW n \in Node, ~Skipped(n)
               PROVE  /\ conn[n] # None /\ conn[n].phase # "ended" =>
                           PosAfter(conn[n].q, Len(conn[n].q), SettledPos(n), conn[n].cpos)
                      /\ Receives(n, "ltx") =>
                           LET f == Head(conn[n].q).ltx
                           IN  IsSnapshot(f) \/ PreApply(f) = db[n].pos
    BY DEF ServerTracksReplica
  <2>1. Tracked(n)
    BY DEF ReplicasTracked
  <2>2. conn[n] # None => PosAfter(conn[n].q, Len(conn[n].q), SettledPos(n), conn[n].cpos)
    BY <2>1 DEF Tracked, Tracks, Skipped
  <2>3. Receives(n, "ltx") => LET f == Head(conn[n].q).ltx
                              IN  IsSnapshot(f) \/ PreApply(f) = db[n].pos
    BY <2>1, HeadFits
  <2> QED BY <2>2, <2>3
<1> QED BY <1>1, <1>2, TypeCorrect, WritersAreConsistent, AbsentNext, TrackedNext, PTL DEF Spec
=============================================================================
