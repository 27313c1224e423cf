---------------------------- MODULE ProxyProofs -----------------------------
(***************************************************************************)
(* Proxy for any sets of nodes, clients and requests and any bounds: type  *)
(* correctness, and that a read through the proxy sees the writes its      *)
(* client was told of.                                                     *)
(***************************************************************************)
EXTENDS Proxy, SequenceTheorems, TLAPS

(* The databases are prefixes of one history, and none is ahead of the     *)
(* primary's: a transaction is told from its TXID.                         *)
OneHistory ==
  /\ \A n \in Node : Len(db[n]) >= 1 /\ \A i \in 1..Len(db[n]) : db[n][i] = i
  /\ primary # None => \A n \in Node : Len(db[n]) <= Len(db[primary])

(* A cookie covers every transaction that its client was told of.          *)
CookieCovers == \A c \in Client : acked[c] \subseteq 1..cookie[c]

ProxiedRead(q) == q.method = "GET" /\ ~q.pass

(* What a request q has found out on its way, among databases d.           *)
RequestOK(q, d) ==
  q.pc # "idle" =>
    /\ ProxiedRead(q) => q.must \subseteq 1..q.txid
    /\ ProxiedRead(q) /\ q.pc = "target" => q.must \subseteq 1..Len(d[q.node])
    /\ ProxiedRead(q) /\ q.pc \in {"answered", "respond"} => q.must \subseteq q.seen
    /\ q.pc = "answered" => q.wrote \subseteq 1..Len(d[q.node])
    /\ q.pc = "respond" /\ q.set # 0 => q.wrote \subseteq 1..q.set
    /\ q.pc \notin {"answered", "respond"} => q.wrote = {}

(* The inductive invariant: what a read sees is decided when it leaves the *)
(* poll loop, by a TXID that the client got from an earlier answer.        *)
Inv ==
  /\ TypeOK /\ OneHistory /\ CookieCovers
  /\ \A r \in Request : RequestOK(req[r], db)

-----------------------------------------------------------------------------
\* A database of one history holds the transactions up to its TXID.
LEMMA Transactions ==
  ASSUME Inv, NEW n \in Node
  PROVE  /\ db[n] \in Seq(1..MaxTx) /\ Len(db[n]) \in 1..MaxTx
         /\ ToSet(db[n]) = 1..Len(db[n])
<1>1. db[n] \in Seq(1..MaxTx)
  BY DEF Inv, TypeOK
<1>2. Len(db[n]) \in Nat /\ DOMAIN db[n] = 1..Len(db[n])
  BY <1>1, LenProperties
<1>3. Len(db[n]) >= 1 /\ \A i \in 1..Len(db[n]) : db[n][i] = i
  BY DEF Inv, OneHistory
<1>4. db[n][Len(db[n])] \in 1..MaxTx
  <2>1. Len(db[n]) \in 1..Len(db[n])
    BY <1>2, <1>3
  <2>2. QED
    BY <1>1, <2>1, ElementOfSeq
<1>5. Len(db[n]) \in 1..MaxTx
  BY <1>2, <1>3, <1>4
<1>6. ToSet(db[n]) = 1..Len(db[n])
  BY <1>2, <1>3 DEF ToSet
<1>7. QED
  BY <1>1, <1>5, <1>6

\* A database that grows takes nothing from what a request has found out.
LEMMA RequestGrows ==
  ASSUME NEW q \in UnderWay \cup {Idle}, NEW d \in [Node -> Seq(1..MaxTx)],
         NEW e \in [Node -> Seq(1..MaxTx)],
         \A n \in Node : Len(d[n]) <= Len(e[n]), RequestOK(q, d)
  PROVE  RequestOK(q, e)
<1>1. CASE q = Idle
  BY <1>1 DEF RequestOK, Idle
<1>2. CASE q \in UnderWay
  <2>1. q.node \in Node
    BY <1>2 DEF UnderWay
  <2>2. Len(d[q.node]) \in Nat /\ Len(e[q.node]) \in Nat
    BY <2>1, LenProperties
  <2>3. 1..Len(d[q.node]) \subseteq 1..Len(e[q.node])
    BY <2>1, <2>2
  <2>4. QED
    BY <2>3 DEF RequestOK
<1>3. QED
  BY <1>1, <1>2

\* A step that changes one request and nothing else.
LEMMA RequestStep ==
  ASSUME Inv, NEW r \in Request, NEW q \in UnderWay \cup {Idle}, RequestOK(q, db),
         req' = [req EXCEPT ![r] = q], UNCHANGED Env
  PROVE  Inv'
<1>1. TypeOK' /\ OneHistory' /\ CookieCovers'
  BY DEF Inv, TypeOK, OneHistory, CookieCovers, Env
<1>2. \A p \in Request : RequestOK(req'[p], db)
  BY DEF Inv, TypeOK
<1>3. QED
  BY <1>1, <1>2 DEF Inv, Env

\* A step of the databases, with the requests as they are.
LEMMA DatabaseStep ==
  ASSUME Inv, NEW n \in Node, primary \in Node, Len(db[n]) < MaxTx,
         n # primary => Len(db[n]) < Len(db[primary]),
         db' = [db EXCEPT ![n] = Append(@, Len(@) + 1)], primary' = primary
  PROVE  /\ OneHistory'
         /\ db' \in [Node -> Seq(1..MaxTx)]
         /\ \A m \in Node : Len(db[m]) <= Len(db'[m])
         /\ Len(db'[n]) = Len(db[n]) + 1
         /\ \A r \in Request : RequestOK(req[r], db')
<1>1. /\ db \in [Node -> Seq(1..MaxTx)]
      /\ \A m \in Node : Len(db[m]) \in 1..MaxTx
      /\ \A m \in Node : \A i \in 1..Len(db[m]) : db[m][i] = i
      /\ \A m \in Node : Len(db[m]) <= Len(db[primary])
  BY Transactions, ProxyAssumption DEF Inv, TypeOK, OneHistory
<1>2. Len(db[n]) + 1 \in 1..MaxTx
  BY <1>1, ProxyAssumption
<1> DEFINE s == Append(db[n], Len(db[n]) + 1)
<1>3. /\ s \in Seq(1..MaxTx) /\ Len(s) = Len(db[n]) + 1
      /\ \A i \in 1..Len(db[n]) : s[i] = db[n][i]
      /\ s[Len(db[n]) + 1] = Len(db[n]) + 1
  BY <1>1, <1>2, AppendProperties
<1>4. db'[n] = s /\ \A m \in Node \ {n} : db'[m] = db[m]
  BY <1>1
<1> HIDE DEF s
<1>5. db' \in [Node -> Seq(1..MaxTx)]
  BY <1>1, <1>3, <1>4
<1>6. \A m \in Node : Len(db'[m]) \in Nat /\ Len(db[m]) <= Len(db'[m])
  BY <1>1, <1>3, <1>4
<1>7. \A i \in 1..Len(s) : s[i] = i
  BY <1>1, <1>3
<1>8. \A m \in Node : Len(db'[m]) >= 1 /\ \A i \in 1..Len(db'[m]) : db'[m][i] = i
  BY <1>1, <1>3, <1>4, <1>7
<1>9. \A m \in Node : Len(db'[m]) <= Len(db'[primary])
  <2>1. Len(db[primary]) <= Len(db'[primary])
    BY <1>6
  <2>2. Len(db'[n]) <= Len(db'[primary])
    BY <1>1, <1>3, <1>4
  <2>3. \A m \in Node \ {n} : Len(db'[m]) <= Len(db[primary])
    BY <1>1, <1>4
  <2>4. QED
    BY <1>6, <2>1, <2>2, <2>3
<1>10. \A r \in Request : RequestOK(req[r], db')
  BY <1>1, <1>5, <1>6, RequestGrows DEF Inv, TypeOK
<1>11. QED
  BY <1>3, <1>4, <1>5, <1>6, <1>8, <1>9, <1>10 DEF OneHistory

-----------------------------------------------------------------------------
\* A request that is not idle has all its fields.
LEMMA OnTheWay ==
  ASSUME Inv, NEW r \in Request, req[r].pc # "idle"
  PROVE  /\ req[r] \in UnderWay
         /\ RequestOK(req[r], db)
         /\ \A p \in {"proxy", "poll", "target", "answered", "respond"} :
              [req[r] EXCEPT !.pc = p] \in UnderWay
<1>1. req[r] \in UnderWay
  BY DEF Inv, TypeOK, Idle
<1>2. \A p \in {"proxy", "poll", "target", "answered", "respond"} :
              [req[r] EXCEPT !.pc = p] \in UnderWay
  BY <1>1 DEF UnderWay
<1>3. QED
  BY <1>1, <1>2 DEF Inv

\* A request goes on to its target, or into the poll loop of serveGet.
LEMMA GotoStep ==
  ASSUME Inv, NEW r \in Request, req[r].pc \in {"proxy", "poll"},
         NEW p \in {"poll", "target"}, Goto(r, p), UNCHANGED Env,
         ProxiedRead(req[r]) /\ p = "target" =>
           req[r].must \subseteq 1..Len(db[req[r].node])
  PROVE  Inv'
<1> DEFINE q == [req[r] EXCEPT !.pc = p]
<1>1. req[r] \in UnderWay /\ RequestOK(req[r], db) /\ q \in UnderWay
  BY OnTheWay
<1>2. /\ q.pc = p /\ q.method = req[r].method /\ q.pass = req[r].pass
      /\ q.must = req[r].must /\ q.txid = req[r].txid /\ q.node = req[r].node
      /\ q.wrote = req[r].wrote
  BY <1>1 DEF UnderWay
<1>3. req' = [req EXCEPT ![r] = q]
  BY DEF Goto
<1> HIDE DEF q
<1>4. RequestOK(q, db)
  BY <1>1, <1>2 DEF RequestOK, ProxiedRead
<1>5. QED
  BY <1>1, <1>3, <1>4, RequestStep

\* serveHTTP and its callees: a read reaches the target only on a node that has
\* what the read must see.
LEMMA ServeStep ==
  ASSUME Inv, NEW r \in Request,
         \/ Passthrough(r) \/ ServeGetNow(r) \/ ServeGetWait(r) \/ PollReady(r)
         \/ ServeNonGetHere(r)
  PROVE  Inv'
<1>1. CASE Passthrough(r)
  BY <1>1, GotoStep DEF Passthrough, ProxiedRead
<1>2. CASE ServeGetNow(r)
  <2>1. req[r] \in UnderWay /\ RequestOK(req[r], db)
    BY <1>2, OnTheWay DEF ServeGetNow
  <2>2. req[r].node \in Node
    BY <2>1 DEF UnderWay
  <2>3. db[req[r].node] # <<>>
    <3>1. Len(db[req[r].node]) \in 1..MaxTx
      BY <2>2, Transactions
    <3>2. QED
      BY <3>1
  <2>4. req[r].must = {}
    <3>1. req[r].txid = 0
      BY <1>2, <2>3 DEF ServeGetNow, Exists
    <3>2. req[r].must \subseteq 1..0
      BY <1>2, <2>1, <3>1 DEF ServeGetNow, RequestOK, ProxiedRead
    <3>3. QED
      BY <3>2
  <2>5. QED
    BY <1>2, <2>4, GotoStep DEF ServeGetNow
<1>3. CASE ServeGetWait(r)
  BY <1>3, GotoStep DEF ServeGetWait
<1>4. CASE PollReady(r)
  <2>1. req[r] \in UnderWay /\ RequestOK(req[r], db)
    BY <1>4, OnTheWay DEF PollReady
  <2>2. req[r].node \in Node /\ req[r].txid \in Nat
    BY <2>1, ProxyAssumption DEF UnderWay
  <2>3. Len(db[req[r].node]) \in 1..MaxTx
    BY <2>2, Transactions
  <2>4. 1..req[r].txid \subseteq 1..Len(db[req[r].node])
    BY <1>4, <2>2, <2>3, ProxyAssumption DEF PollReady, CaughtUp, TXID
  <2>5. ProxiedRead(req[r]) => req[r].must \subseteq 1..Len(db[req[r].node])
    BY <1>4, <2>1, <2>4 DEF PollReady, RequestOK
  <2>6. QED
    BY <1>4, <2>5, GotoStep DEF PollReady
<1>5. CASE ServeNonGetHere(r)
  BY <1>5, GotoStep DEF ServeNonGetHere, ProxiedRead
<1>6. QED
  BY <1>1, <1>2, <1>3, <1>4, <1>5

\* An error, a timeout or a failed round trip: the client has no answer to rely on.
LEMMA ErrorStep ==
  ASSUME Inv, NEW r \in Request, PollTimeout(r) \/ TargetError(r)
  PROVE  Inv'
<1>1. RequestOK(Idle, db)
  BY DEF RequestOK, Idle
<1>2. QED
  BY <1>1, RequestStep DEF PollTimeout, TargetError

\* A request starts with the cookie of its client, which covers what it must see.
LEMMA SendStep ==
  ASSUME Inv, NEW r \in Request, Send(r)
  PROVE  Inv'
<1>1. PICK n \in Node, m \in Method, pass \in BOOLEAN :
        req' = [req EXCEPT ![r] = Sent(r, n, m, pass)]
  BY DEF Send
<1> DEFINE q == Sent(r, n, m, pass)
<1>2. Owner[r] \in Client
  BY ProxyAssumption
<1>3. /\ cookie[Owner[r]] \in 0..MaxTx /\ acked[Owner[r]] \in SUBSET (1..MaxTx)
      /\ acked[Owner[r]] \subseteq 1..cookie[Owner[r]]
  BY <1>2 DEF Inv, TypeOK, CookieCovers
<1>4. /\ q.pc = "proxy" /\ q.wrote = {} /\ q.method = m /\ q.pass = pass
      /\ m = "GET" /\ ~pass => q.must = acked[Owner[r]] /\ q.txid = cookie[Owner[r]]
  BY DEF Sent
<1>5. q \in UnderWay
  BY <1>3, ProxyAssumption DEF Sent, UnderWay
<1> HIDE DEF q
<1>6. RequestOK(q, db)
  BY <1>3, <1>4 DEF RequestOK, ProxiedRead
<1>7. QED
  BY <1>1, <1>5, <1>6, RequestStep DEF Send, q

\* The router sends a write on to the node that a replica names.
LEMMA ReplayStep ==
  ASSUME Inv, NEW r \in Request, ServeNonGetReplay(r)
  PROVE  Inv'
<1> DEFINE q == [req[r] EXCEPT !.node = info[req[r].node]]
<1>1. req[r] \in UnderWay /\ RequestOK(req[r], db)
  BY OnTheWay DEF ServeNonGetReplay
<1>2. info[req[r].node] \in Node
  BY <1>1 DEF ServeNonGetReplay, UnderWay, Inv, TypeOK
<1>3. /\ q \in UnderWay
      /\ q.pc = "proxy" /\ q.method = req[r].method /\ q.pass = req[r].pass
      /\ q.wrote = req[r].wrote
  BY <1>1, <1>2 DEF UnderWay, ServeNonGetReplay
<1>4. req' = [req EXCEPT ![r] = q]
  BY DEF ServeNonGetReplay
<1> HIDE DEF q
<1>5. RequestOK(q, db)
  BY <1>1, <1>3 DEF RequestOK, ProxiedRead, ServeNonGetReplay
<1>6. QED
  BY <1>3, <1>4, <1>5, RequestStep DEF ServeNonGetReplay

\* The answer of a target that has read the database, and written nothing.
LEMMA TargetReads ==
  ASSUME Inv, NEW r \in Request, req[r].pc = "target", UNCHANGED Env,
         req' = [req EXCEPT ![r].pc = "answered",
                            ![r].seen = req[r].must \cap ToSet(db[req[r].node])]
  PROVE  Inv'
<1> DEFINE seen == req[r].must \cap ToSet(db[req[r].node])
<1> DEFINE q == [req[r] EXCEPT !.pc = "answered", !.seen = seen]
<1>1. req[r] \in UnderWay /\ RequestOK(req[r], db)
  BY OnTheWay
<1>2. ToSet(db[req[r].node]) = 1..Len(db[req[r].node])
  BY <1>1, Transactions DEF UnderWay
<1>3. /\ q \in UnderWay /\ q.pc = "answered" /\ q.seen = seen
      /\ q.method = req[r].method /\ q.pass = req[r].pass /\ q.must = req[r].must
      /\ q.txid = req[r].txid /\ q.wrote = req[r].wrote
  BY <1>1 DEF UnderWay
<1>4. req' = [req EXCEPT ![r] = q]
  OBVIOUS
<1>5. RequestOK(q, db)
  <2>1. req[r].wrote = {}
    BY <1>1 DEF RequestOK
  <2>2. ProxiedRead(req[r]) => req[r].must \subseteq seen
    BY <1>1, <1>2 DEF RequestOK
  <2> HIDE DEF q, seen
  <2>3. QED
    BY <1>1, <1>3, <2>1, <2>2 DEF RequestOK, ProxiedRead
<1>6. QED
  BY <1>3, <1>4, <1>5, RequestStep

\* The next transaction of the primary takes the next TXID.
LEMMA NextTx ==
  ASSUME Inv, primary \in Node, NEW t \in (1..MaxTx) \ Txs,
         \A u \in 1..(t - 1) : u \in Txs
  PROVE  t = Len(db[primary]) + 1
<1>1. /\ \A n \in Node : ToSet(db[n]) = 1..Len(db[n]) /\ Len(db[n]) \in Nat
      /\ \A n \in Node : Len(db[n]) <= Len(db[primary])
  BY Transactions, ProxyAssumption DEF Inv, OneHistory
<1>2. Txs = 1..Len(db[primary])
  <2>1. \A n \in Node : ToSet(db[n]) \subseteq 1..Len(db[primary])
    BY <1>1
  <2>2. QED
    BY <1>1, <2>1 DEF Txs
<1>3. t \in Nat /\ t >= 1 /\ ~(t \in 1..Len(db[primary])) /\ Len(db[primary]) \in Nat
  BY <1>1, <1>2, ProxyAssumption
<1>4. \A u \in 1..(t - 1) : u <= Len(db[primary])
  BY <1>1, <1>2
<1>5. t - 1 <= Len(db[primary])
  <2>1. CASE t = 1
    BY <2>1, <1>3
  <2>2. CASE t # 1
    BY <2>2, <1>3, <1>4
  <2>3. QED
    BY <2>1, <2>2
<1>6. QED
  BY <1>3, <1>5

\* The answer of a target that has written: its transaction is in the database of
\* the node by then.
LEMMA TargetWrites ==
  ASSUME Inv, NEW r \in Request, req[r].pc = "target",
         req[r].method = "POST", req[r].node = primary,
         NEW t \in (1..MaxTx) \ Txs, \A u \in 1..(t - 1) : u \in Txs,
         db' = [db EXCEPT ![primary] = Append(@, t)],
         req' = [req EXCEPT ![r].pc = "answered", ![r].wrote = {t}],
         UNCHANGED <<primary, info, cookie, acked, outages>>
  PROVE  Inv'
<1> DEFINE q == [req[r] EXCEPT !.pc = "answered", !.wrote = {t}]
<1>1. req[r] \in UnderWay /\ RequestOK(req[r], db)
  BY OnTheWay
<1>2. primary \in Node
  BY <1>1 DEF UnderWay
<1>3. t = Len(db[primary]) + 1 /\ Len(db[primary]) \in Nat
  BY <1>2, NextTx, Transactions, ProxyAssumption
<1>4. Len(db[primary]) < MaxTx
  BY <1>3, ProxyAssumption
<1>5. /\ OneHistory' /\ db' \in [Node -> Seq(1..MaxTx)]
      /\ Len(db'[primary]) = Len(db[primary]) + 1
      /\ \A p \in Request : RequestOK(req[p], db')
  BY <1>2, <1>3, <1>4, DatabaseStep
<1>6. /\ q \in UnderWay /\ q.pc = "answered" /\ q.wrote = {t}
      /\ q.method = "POST" /\ q.node = primary
  BY <1>1 DEF UnderWay
<1>7. req' = [req EXCEPT ![r] = q]
  OBVIOUS
<1>8. t \in 1..Len(db'[primary])
  BY <1>3, <1>5
<1> HIDE DEF q
<1>9. RequestOK(q, db')
  BY <1>6, <1>8 DEF RequestOK, ProxiedRead
<1>10. req \in [Request -> UnderWay \cup {Idle}]
  BY DEF Inv, TypeOK
<1>11. \A p \in Request : RequestOK(req'[p], db')
  BY <1>5, <1>7, <1>9, <1>10
<1>12. req' \in [Request -> UnderWay \cup {Idle}]
  BY <1>6, <1>7, <1>10
<1>13. TypeOK'
  BY <1>5, <1>12 DEF Inv, TypeOK
<1>14. CookieCovers'
  BY DEF Inv, CookieCovers
<1>15. QED
  BY <1>5, <1>11, <1>13, <1>14 DEF Inv

\* The cookie of an answer covers what the request wrote.
LEMMA SetCookieStep ==
  ASSUME Inv, NEW r \in Request, SetCookie(r)
  PROVE  Inv'
<1> DEFINE set == IF ~req[r].pass /\ req[r].method # "GET" THEN TXID(req[r].node) ELSE 0
<1> DEFINE q == [req[r] EXCEPT !.pc = "respond", !.set = set]
<1>1. req[r] \in UnderWay /\ RequestOK(req[r], db)
  BY OnTheWay DEF SetCookie
<1>2. Len(db[req[r].node]) \in 1..MaxTx
  BY <1>1, Transactions DEF UnderWay
<1>3. set \in 0..MaxTx
  BY <1>2, ProxyAssumption DEF TXID
<1>4. set # 0 => set = Len(db[req[r].node])
  BY DEF TXID
<1>5. req' = [req EXCEPT ![r] = q]
  BY DEF SetCookie
<1> HIDE DEF set
<1>6. /\ q \in UnderWay /\ q.pc = "respond" /\ q.set = set
      /\ q.method = req[r].method /\ q.pass = req[r].pass /\ q.must = req[r].must
      /\ q.txid = req[r].txid /\ q.wrote = req[r].wrote /\ q.seen = req[r].seen
  BY <1>1, <1>3 DEF UnderWay
<1> HIDE DEF q
<1>7. RequestOK(q, db)
  BY <1>1, <1>4, <1>6 DEF RequestOK, ProxiedRead, SetCookie
<1>8. QED
  BY <1>5, <1>6, <1>7, RequestStep DEF SetCookie

\* The client gets its cookie with the answer; a cookie that goes back covers what
\* this request wrote.
LEMMA DeliverStep ==
  ASSUME Inv, NEW r \in Request, Deliver(r)
  PROVE  Inv'
<1> DEFINE c == Owner[r]
<1>1. req[r] \in UnderWay /\ RequestOK(req[r], db) /\ c \in Client
  BY OnTheWay, ProxyAssumption DEF Deliver
<1>2. /\ req[r].set \in 0..MaxTx /\ req[r].wrote \subseteq 1..MaxTx
      /\ req[r].set # 0 => req[r].wrote \subseteq 1..req[r].set
  BY <1>1 DEF UnderWay, RequestOK, Deliver
<1>3. /\ cookie \in [Client -> 0..MaxTx] /\ acked \in [Client -> SUBSET (1..MaxTx)]
      /\ acked[c] \subseteq 1..cookie[c]
  BY <1>1 DEF Inv, TypeOK, CookieCovers
<1>4. CASE req[r].set = 0
  <2>1. req' = [req EXCEPT ![r] = Idle] /\ UNCHANGED <<primary, info, db, outages, cookie, acked>>
    BY <1>4 DEF Deliver
  <2>2. TypeOK'
    BY <2>1 DEF Inv, TypeOK
  <2>3. OneHistory' /\ CookieCovers'
    BY <2>1 DEF Inv, OneHistory, CookieCovers
  <2>4. \A x \in Request : RequestOK(req'[x], db')
    BY <2>1 DEF Inv, TypeOK, RequestOK, Idle
  <2>5. QED
    BY <2>2, <2>3, <2>4 DEF Inv
<1>5. CASE req[r].set # 0
  <2> DEFINE a == req[r].wrote \cup IF req[r].set < cookie[c] THEN {} ELSE acked[c]
  <2>1. /\ cookie' = [cookie EXCEPT ![c] = req[r].set]
        /\ acked' = [acked EXCEPT ![c] = a]
        /\ req' = [req EXCEPT ![r] = Idle]
        /\ UNCHANGED <<primary, info, db, outages>>
    BY <1>5 DEF Deliver
  <2>2. a \subseteq 1..req[r].set
    <3>1. CASE req[r].set < cookie[c]
      BY <3>1, <1>2, <1>5
    <3>2. CASE ~(req[r].set < cookie[c])
      <4>1. 1..cookie[c] \subseteq 1..req[r].set
        BY <3>2, <1>1, <1>2, <1>3, ProxyAssumption
      <4>2. QED
        BY <3>2, <4>1, <1>2, <1>3, <1>5
    <3>3. QED
      BY <3>1, <3>2
  <2>3. a \subseteq 1..MaxTx
    BY <1>1, <1>2, <1>3
  <2> HIDE DEF a, c
  <2>4. TypeOK' /\ CookieCovers'
    BY <1>1, <1>2, <1>3, <2>1, <2>2, <2>3 DEF Inv, TypeOK, CookieCovers
  <2>5. OneHistory' /\ \A p \in Request : RequestOK(req'[p], db')
    BY <2>1 DEF Inv, TypeOK, OneHistory, RequestOK, Idle
  <2>6. QED
    BY <2>4, <2>5 DEF Inv
<1>6. QED
  BY <1>4, <1>5

\* Replication copies the next transaction of the primary.
LEMMA ReplicateStep ==
  ASSUME Inv, NEW n \in Node, Replicate(n)
  PROVE  Inv'
<1>1. primary \in Node
  BY DEF Replicate, Inv, TypeOK
<1>2. /\ db[n] \in Seq(1..MaxTx) /\ db[primary] \in Seq(1..MaxTx)
      /\ Len(db[n]) \in 1..MaxTx /\ Len(db[primary]) \in 1..MaxTx
  BY <1>1, Transactions
<1>3. /\ \A i \in 1..Len(db[n]) : db[n][i] = i
      /\ \A i \in 1..Len(db[primary]) : db[primary][i] = i
      /\ Len(db[n]) <= Len(db[primary])
  BY <1>1, ProxyAssumption DEF Inv, OneHistory
<1>4. Len(db[n]) # Len(db[primary])
  <2>1. SUFFICES ASSUME Len(db[n]) = Len(db[primary]) PROVE FALSE
    OBVIOUS
  <2>2. \A i \in 1..Len(db[n]) : db[n][i] = db[primary][i]
    BY <1>3, <2>1
  <2>3. db[n] = db[primary]
    BY <1>2, <2>1, <2>2, SeqEqual
  <2>4. QED
    BY <2>3 DEF Replicate
<1>5. Len(db[n]) < Len(db[primary]) /\ Len(db[n]) < MaxTx
  BY <1>2, <1>3, <1>4, ProxyAssumption
<1>6. db[primary][Len(db[n]) + 1] = Len(db[n]) + 1
  BY <1>2, <1>3, <1>5, ProxyAssumption
<1>7. db' = [db EXCEPT ![n] = Append(@, Len(@) + 1)]
  BY <1>6 DEF Replicate
<1>8. /\ OneHistory' /\ db' \in [Node -> Seq(1..MaxTx)]
      /\ \A r \in Request : RequestOK(req[r], db')
  BY <1>1, <1>5, <1>7, DatabaseStep DEF Replicate
<1>9. QED
  BY <1>8 DEF Replicate, Inv, TypeOK, CookieCovers

\* The primary changes hands only to a node that has every transaction.
LEMMA LeaseStep ==
  ASSUME Inv, StepDown \/ \E n \in Node : Learn(n) \/ Disconnect(n) \/ Promote(n)
  PROVE  Inv'
<1>1. CASE StepDown
  BY <1>1, ProxyAssumption DEF StepDown, Inv, TypeOK, OneHistory, CookieCovers
<1>2. ASSUME NEW n \in Node, Learn(n) PROVE Inv'
  BY <1>2 DEF Learn, Inv, TypeOK, OneHistory, CookieCovers
<1>3. ASSUME NEW n \in Node, Disconnect(n) PROVE Inv'
  <2>1. OneHistory' /\ CookieCovers' /\ \A r \in Request : RequestOK(req'[r], db')
    BY <1>3 DEF Disconnect, Inv, OneHistory, CookieCovers
  <2>2. outages' \in 0..MaxOutage
    BY <1>3, ProxyAssumption DEF Disconnect, Inv, TypeOK
  <2>3. TypeOK'
    BY <1>3, <2>2 DEF Disconnect, Inv, TypeOK
  <2>4. QED
    BY <2>1, <2>3 DEF Inv
<1>4. ASSUME NEW n \in Node, Promote(n) PROVE Inv'
  BY <1>4 DEF Promote, IsPrefix, Inv, TypeOK, OneHistory, CookieCovers
<1>5. QED
  BY <1>1, <1>2, <1>3, <1>4

\* A client that has no cookie is owed nothing.
LEMMA CookieExpiresStep ==
  ASSUME Inv, NEW c \in Client, CookieExpires(c)
  PROVE  Inv'
<1>1. TypeOK' /\ OneHistory' /\ \A r \in Request : RequestOK(req'[r], db')
  BY ProxyAssumption DEF CookieExpires, Inv, TypeOK, OneHistory
<1>2. CookieCovers'
  BY DEF CookieExpires, Inv, TypeOK, CookieCovers
<1>3. QED
  BY <1>1, <1>2 DEF Inv

-----------------------------------------------------------------------------
\* Every node starts with the first transaction, no cookie and no request.
LEMMA InitInv == Init => Inv
<1> SUFFICES ASSUME Init PROVE Inv
  OBVIOUS
<1>1. <<1>> \in Seq(1..MaxTx) /\ Len(<<1>>) = 1
  BY ProxyAssumption
<1>2. TypeOK
  BY <1>1, ProxyAssumption DEF Init, TypeOK
<1>3. OneHistory /\ CookieCovers
  BY <1>1 DEF Init, OneHistory, CookieCovers
<1>4. \A r \in Request : RequestOK(req[r], db)
  BY DEF Init, RequestOK, Idle
<1>5. QED
  BY <1>2, <1>3, <1>4 DEF Inv

\* No step of a proxy, an application, a client or the cluster breaks the invariant.
LEMMA StepInv == Inv /\ [Next]_vars => Inv'
<1> SUFFICES ASSUME Inv, [Next]_vars PROVE Inv'
  OBVIOUS
<1>1. CASE UNCHANGED vars
  BY <1>1 DEF vars, Inv, TypeOK, OneHistory, CookieCovers
<1>2. ASSUME NEW r \in Request, Serve(r) PROVE Inv'
  <2>1. CASE Target(r)
    <3>1. CASE req' = [req EXCEPT ![r].pc = "answered",
                                  ![r].seen = req[r].must \cap ToSet(db[req[r].node])]
               /\ UNCHANGED db
      BY <2>1, <3>1, TargetReads DEF Target, Env
    <3>2. CASE \E t \in (1..MaxTx) \ Txs :
                 /\ req[r].method = "POST" /\ req[r].node = primary
                 /\ \A u \in 1..(t - 1) : u \in Txs
                 /\ db' = [db EXCEPT ![primary] = Append(@, t)]
                 /\ req' = [req EXCEPT ![r].pc = "answered", ![r].wrote = {t}]
      BY <2>1, <3>2, TargetWrites DEF Target
    <3>3. QED
      BY <2>1, <3>1, <3>2 DEF Target
  <2>2. QED
    BY <1>2, <2>1, ServeStep, ErrorStep, ReplayStep, SetCookieStep, DeliverStep DEF Serve
<1>3. QED
  BY <1>1, <1>2, SendStep, CookieExpiresStep, ReplicateStep, LeaseStep DEF Next

\* The variables keep their types: no cookie and no database is ever ahead of the
\* transactions that exist.
THEOREM ProxyTypeCorrect == Spec => []TypeOK
<1>1. Inv => TypeOK
  BY DEF Inv
<1>2. QED
  BY <1>1, InitInv, StepInv, PTL DEF Spec

\* A read through the proxy of any node sees every transaction that its client had been
\* told of when it sent the request, for any number of nodes, clients and overlapping
\* requests, and through any number of failovers (serveGet, proxyToTarget).
THEOREM ProxyReadsYourWrites == Spec => []ReadYourWrites
<1>1. Inv => ReadYourWrites
  BY DEF Inv, RequestOK, ProxiedRead, ReadYourWrites
<1>2. QED
  BY <1>1, InitInv, StepInv, PTL DEF Spec
=============================================================================
