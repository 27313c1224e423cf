--------------------------- MODULE MCReplication ----------------------------
(* Replication on small instances. *)
EXTENDS Replication, TLC

CONSTANTS Tx, Grants, Expires, Crashes, Cuts, Drops, Reaps

MCBudget == [tx |-> Tx, grant |-> Grants, expire |-> Expires, crash |-> Crashes,
             cut |-> Cuts, drop |-> Drops, reap |-> Reaps]

Symmetry == Permutations(Node)

\* The three nodes of the starting states below.
A == CHOOSE n \in Node : TRUE
B == CHOOSE n \in Node \ {A} : TRUE
C == CHOOSE n \in Node \ {A, B} : TRUE

\* The files of a database that got tx 1, and maybe tx 2, from node n.
One(n) == [min |-> 1, post |-> <<1>>, node |-> n]
Two(n) == [min |-> 2, post |-> <<1, 2>>, node |-> n]
DBAt(pos, files) == [exists |-> TRUE, pages |-> {pos}, pos |-> pos, ltx |-> files]

\* The nodes in U have just been started, the others are down.
Started(U) ==
  /\ lease = None
  /\ up = U
  /\ isPrimary = [n \in Node |-> FALSE]
  /\ ready = [n \in Node |-> FALSE]
  /\ step = [n \in Node |-> Free]
  /\ conn = [n \in Node |-> None]

\* What is left of the budget: t transactions, g leases, and the events in E.
Left(t, g, E) ==
  left = [e \in Event |-> CASE e = "tx" -> t [] e = "grant" -> g
                            [] e \in E -> Budget[e] [] OTHER -> 0]

\* A cluster that is started again in a state that three leases can reach: B has
\* tx 2, which A wrote and then lost to a snapshot of C.
RegressedInit ==
  /\ Started(Node)
  /\ db = [n \in Node |-> CASE n = A -> DBAt(<<1>>, {One(C)})
                            [] n = B -> DBAt(<<1, 2>>, {One(A), Two(A)})
                            [] OTHER -> DBAt(<<1>>, {One(A)})]
  /\ Left(1, 1, {})

\* A cluster that is started again when C cannot open its database any more and the
\* others have dropped theirs.  C took a snapshot with tx 1 and 3, crashed inside
\* removeFilesExcept, started, and EnforceRetention left it with a file of tx 2.
BrokenInit ==
  /\ Started({A, B})
  /\ db = [n \in Node |-> IF n = C THEN [DBAt(<<1, 3>>, {Two(A)}) EXCEPT !.pos = <<>>]
                                   ELSE NoDB]
  /\ \/ Left(1, 2, {"crash", "expire"})
     \/ Left(2, 2, {"expire"})
     \/ Left(2, 2, {"reap"})
     \/ Left(1, 2, {"drop", "cut"})
     \/ Left(3, 2, {})

RestartedSpec == (RegressedInit \/ BrokenInit) /\ [][Next]_vars /\ Fairness
=============================================================================
