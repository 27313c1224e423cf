------------------------------- MODULE Proxy --------------------------------
(***************************************************************************)
(* The HTTP proxy in front of the application on every node                *)
(* (http/proxy_server.go).  Writes go to the primary; a cookie carries the *)
(* TXID that a client has written back to whichever node it reads from,    *)
(* and the proxy of that node holds the read back until the node has it.   *)
(*                                                                         *)
(* External: the application behind the proxy, which reads the database of *)
(* its node and on the primary may write to it; the client's cookie jar;   *)
(* the edge router, which sends a request again to the node that a         *)
(* fly-replay header names; and replication, which copies the primary's    *)
(* transactions in order.  A database is the sequence of its transactions  *)
(* and its TXID the length of that.                                        *)
(***************************************************************************)
EXTENDS Naturals, Sequences, SequencesExt, FiniteSets

CONSTANTS
  Node, None,
  Client,     \* cookie jars
  Request,    \* the requests under way: those of a client may overlap
  Owner,      \* the client of each request
  MaxTx,      \* bound on the transactions
  MaxOutage   \* bound on the times that nodes lose sight of a primary

ASSUME ProxyAssumption ==
  /\ None \notin Node
  /\ Owner \in [Request -> Client]
  /\ MaxTx \in Nat \ {0} /\ MaxOutage \in Nat

VARIABLES
  primary,   \* the node with the lease
  info,      \* the primary a node knows of: Store.PrimaryInfo
  db,        \* the database s.DBName of each node
  cookie,    \* the __txid cookie of each client
  acked,     \* the transactions a client was told of since its cookie last went back
  req,       \* each request
  outages    \* how often a node lost sight of a primary

vars == <<primary, info, db, cookie, acked, req, outages>>

Method == {"GET", "POST"}

Idle == [pc |-> "idle"]

UnderWay ==
  [pc : {"proxy", "poll", "target", "answered", "respond"},
   node : Node, method : Method, pass : BOOLEAN, txid : 0..MaxTx,
   must : SUBSET (1..MaxTx), seen : SUBSET (1..MaxTx), wrote : SUBSET (1..MaxTx),
   set : 0..MaxTx]

\* How a request comes to the proxy of node n; "must" is what its client knows of.
Sent(r, n, method, pass) ==
  LET read == method = "GET" /\ ~pass
  IN [pc |-> "proxy", node |-> n, method |-> method, pass |-> pass,
      txid |-> IF read THEN cookie[Owner[r]] ELSE 0,
      must |-> IF read THEN acked[Owner[r]] ELSE {},
      seen |-> {}, wrote |-> {}, set |-> 0]

Exists(n) == db[n] # <<>>
TXID(n)   == Len(db[n])
Goto(r, pc) == req' = [req EXCEPT ![r].pc = pc]
Env == <<primary, info, db, cookie, acked, outages>>

-----------------------------------------------------------------------------
(* serveHTTP *)

Send(r) ==
  /\ req[r].pc = "idle"
  /\ \E n \in Node, m \in Method, pass \in BOOLEAN :
       req' = [req EXCEPT ![r] = Sent(r, n, m, pass)]
  /\ UNCHANGED Env

\* A passthrough goes to the target as it is.
Passthrough(r) ==
  /\ req[r].pc = "proxy" /\ req[r].pass
  /\ Goto(r, "target") /\ UNCHANGED Env

\* serveGet: no cookie, or no such database here, and the target gets the request.
ServeGetNow(r) ==
  /\ req[r].pc = "proxy" /\ ~req[r].pass /\ req[r].method = "GET"
  /\ req[r].txid = 0 \/ ~Exists(req[r].node)
  /\ Goto(r, "target") /\ UNCHANGED Env

ServeGetWait(r) ==
  /\ req[r].pc = "proxy" /\ ~req[r].pass /\ req[r].method = "GET"
  /\ req[r].txid # 0 /\ Exists(req[r].node)
  /\ Goto(r, "poll") /\ UNCHANGED Env

\* Mutant of CaughtUp: the cookie is taken for the transaction after the last one.
CaughtUpTo(r) == TXID(req[r].node) + 1 >= req[r].txid

CaughtUp(r) == TXID(req[r].node) >= req[r].txid

PollReady(r) ==
  /\ req[r].pc = "poll" /\ CaughtUp(r)
  /\ Goto(r, "target") /\ UNCHANGED Env

\* Mutant of PollTimeout: it waits as long as there is no primary to catch up with.
PollTimeoutNever(r) ==
  /\ req[r].pc = "poll" /\ ~CaughtUp(r) /\ primary = None
  /\ req' = [req EXCEPT ![r] = Idle] /\ UNCHANGED Env

\* PollTXIDTimeout: the client gets an error, 504.
PollTimeout(r) ==
  /\ req[r].pc = "poll" /\ ~CaughtUp(r)
  /\ req' = [req EXCEPT ![r] = Idle] /\ UNCHANGED Env

\* serveNonGet: the primary, or a node that knows of none, sends it to the target.
ServeNonGetHere(r) ==
  /\ req[r].pc = "proxy" /\ ~req[r].pass /\ req[r].method # "GET"
  /\ req[r].node = primary \/ info[req[r].node] = None
  /\ Goto(r, "target") /\ UNCHANGED Env

\* A replica answers with the name of the primary; the router sends it there.
ServeNonGetReplay(r) ==
  /\ req[r].pc = "proxy" /\ ~req[r].pass /\ req[r].method # "GET"
  /\ req[r].node # primary /\ info[req[r].node] # None
  /\ req' = [req EXCEPT ![r].node = info[req[r].node]]
  /\ UNCHANGED Env

-----------------------------------------------------------------------------
(* The application, and proxyToTarget *)

Txs == UNION {ToSet(db[n]) : n \in Node}

\* The target reads (what matters of it is what the client knows of), and a write
\* request on the primary may write (external).
Target(r) ==
  /\ req[r].pc = "target"
  /\ \/ /\ req' = [req EXCEPT ![r].pc = "answered",
                              ![r].seen = req[r].must \cap ToSet(db[req[r].node])]
        /\ UNCHANGED db
     \/ /\ req[r].method = "POST" /\ req[r].node = primary
        /\ \E t \in (1..MaxTx) \ Txs :
             /\ \A u \in 1..(t - 1) : u \in Txs
             /\ db' = [db EXCEPT ![primary] = Append(@, t)]
             /\ req' = [req EXCEPT ![r].pc = "answered", ![r].wrote = {t}]
  /\ UNCHANGED <<primary, info, cookie, acked, outages>>

\* The round trip fails, before or after the target has done its work: 502.
TargetError(r) ==
  /\ req[r].pc \in {"target", "answered"}
  /\ req' = [req EXCEPT ![r] = Idle] /\ UNCHANGED Env

\* Mutant of SetCookie: the cookie names the next transaction.
SetCookieNext(r) ==
  /\ req[r].pc = "answered"
  /\ req' = [req EXCEPT ![r].pc = "respond", ![r].set = TXID(req[r].node) + 1]
  /\ UNCHANGED Env

\* After the round trip of a write: the position of this node, now.
SetCookie(r) ==
  /\ req[r].pc = "answered"
  /\ req' = [req EXCEPT ![r].pc = "respond",
                        ![r].set = IF ~req[r].pass /\ req[r].method # "GET"
                                   THEN TXID(req[r].node) ELSE 0]
  /\ UNCHANGED Env

\* The client has the response.  Its cookie replaces the client's, which may go back:
\* the proxies then no longer know of what the client was told before.
Deliver(r) ==
  /\ req[r].pc = "respond"
  /\ LET c == Owner[r]
         sets == req[r].set # 0
         back == sets /\ req[r].set < cookie[c]
     IN /\ cookie' = IF sets THEN [cookie EXCEPT ![c] = req[r].set] ELSE cookie
        /\ acked' = IF sets THEN [acked EXCEPT ![c] = req[r].wrote \cup IF back THEN {} ELSE @]
                    ELSE acked
  /\ req' = [req EXCEPT ![r] = Idle]
  /\ UNCHANGED <<primary, info, db, outages>>

\* CookieExpiry: the client forgets its cookie, and what the proxy owes it.
CookieExpires(c) ==
  /\ cookie[c] # 0
  /\ cookie' = [cookie EXCEPT ![c] = 0]
  /\ acked' = [acked EXCEPT ![c] = {}]
  /\ UNCHANGED <<primary, info, db, req, outages>>

-----------------------------------------------------------------------------
(* Replication (external) *)

Replicate(n) ==
  /\ primary # None /\ IsPrefix(db[n], db[primary]) /\ db[n] # db[primary]
  /\ db' = [db EXCEPT ![n] = Append(@, db[primary][Len(@) + 1])]
  /\ UNCHANGED <<primary, info, cookie, acked, req, outages>>

\* A replica finds the primary.
Learn(n) ==
  /\ primary \notin {None, n} /\ info[n] = None
  /\ info' = [info EXCEPT ![n] = primary]
  /\ UNCHANGED <<primary, db, cookie, acked, req, outages>>

\* The stream of a replica breaks: it knows of no primary until it connects again.
Disconnect(n) ==
  /\ info[n] # None /\ (info[n] = primary => outages < MaxOutage)
  /\ info' = [info EXCEPT ![n] = None]
  /\ outages' = IF info[n] = primary THEN outages + 1 ELSE outages
  /\ UNCHANGED <<primary, db, cookie, acked, req>>

\* The primary steps down; a node that has all its transactions may follow.
StepDown ==
  /\ primary # None /\ outages < MaxOutage
  /\ primary' = None
  /\ outages' = outages + 1
  /\ UNCHANGED <<info, db, cookie, acked, req>>

Promote(n) ==
  /\ primary = None /\ info[n] = None
  /\ \A m \in Node : IsPrefix(db[m], db[n])
  /\ primary' = n
  /\ UNCHANGED <<info, db, cookie, acked, req, outages>>

-----------------------------------------------------------------------------
\* Every node has the database with its first transaction, and no primary yet.
Init ==
  /\ primary = None
  /\ info = [n \in Node |-> None]
  /\ db = [n \in Node |-> <<1>>]
  /\ cookie = [c \in Client |-> 0]
  /\ acked = [c \in Client |-> {}]
  /\ req = [r \in Request |-> Idle]
  /\ outages = 0

Serve(r) ==
  \/ Passthrough(r) \/ ServeGetNow(r) \/ ServeGetWait(r) \/ PollReady(r) \/ PollTimeout(r)
  \/ ServeNonGetHere(r) \/ ServeNonGetReplay(r)
  \/ Target(r) \/ TargetError(r) \/ SetCookie(r) \/ Deliver(r)

Next ==
  \/ \E r \in Request : Send(r) \/ Serve(r)
  \/ \E c \in Client : CookieExpires(c)
  \/ \E n \in Node : Replicate(n) \/ Learn(n) \/ Disconnect(n) \/ Promote(n)
  \/ StepDown

\* The proxies, their timers and the target run; nothing is assumed of replication.
Fairness == \A r \in Request : WF_vars(Serve(r))

Spec == Init /\ [][Next]_vars
FairSpec == Spec /\ Fairness

-----------------------------------------------------------------------------
(* Properties *)

\* The types of the variables.
TypeOK ==
  /\ primary \in Node \cup {None}
  /\ info \in [Node -> Node \cup {None}]
  /\ db \in [Node -> Seq(1..MaxTx)]
  /\ cookie \in [Client -> 0..MaxTx]
  /\ acked \in [Client -> SUBSET (1..MaxTx)]
  /\ outages \in 0..MaxOutage
  /\ req \in [Request -> UnderWay \cup {Idle}]

\* A read through the proxy, on any node, sees every transaction that its client had been
\* told of when it sent the request, as long as no answer has set its cookie back
\* (serveGet, proxyToTarget).
ReadYourWrites ==
  \A r \in Request :
    /\ req[r].pc \in {"answered", "respond"}
    /\ req[r].method = "GET" /\ ~req[r].pass
    => req[r].must \subseteq req[r].seen

\* Every request is answered, on a replica that never catches up too (serveGet).
Answered == \A r \in Request : req[r].pc # "idle" ~> req[r].pc = "idle"
=============================================================================
