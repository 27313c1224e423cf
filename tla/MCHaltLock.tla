---------------------------- MODULE MCHaltLock ------------------------------
(* HaltLock on small instances. *)
EXTENDS HaltLock, TLC

\* Every handle is one of the only replica.
OneReplica == [h \in Handle |-> CHOOSE r \in Replica : TRUE]

Symmetry == Permutations(Handle)

\* Halt locks that are left to take, and transactions that are left to start.
Left == {[locks |-> 1, txs |-> 2], [locks |-> 2, txs |-> 1], [locks |-> 3, txs |-> 0]}

\* A free database after some halt locks were released and some commits failed:
\* Spec reaches these states from Init.
UsedInit ==
  /\ ppos = <<>> /\ had = {<<>>} /\ pbase = None /\ wlock = None /\ halt = None
  /\ monitor = None
  /\ req = [h \in Handle |-> [s \in Slot |-> None]]
  /\ pc = [u \in Handle \cup Replica |-> "idle"]
  /\ loaded = [u \in Handle \cup Replica |-> None]
  /\ target = [h \in Handle |-> <<>>]
  /\ rpos = [r \in Replica |-> <<>>]
  /\ remote = [r \in Replica |-> None]
  /\ rlock = [r \in Replica |-> None]
  /\ rtx = [r \in Replica |-> "none"]
  /\ built = [r \in Replica |-> <<>>]
  /\ sent = [r \in Replica |-> 0]
  /\ frame = [r \in Replica |-> <<>>]
  /\ breaks = 0
  /\ \E l \in Left : guards = MaxGuard - l.locks /\ txs = MaxTx - l.txs

UsedSpec == UsedInit /\ [][Next]_vars
=============================================================================
