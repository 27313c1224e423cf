-------------------------- MODULE RWMutexOpsProofs --------------------------
(***************************************************************************)
(* What the methods of rwmutex.go do to a mutex whose bookkeeping is in    *)
(* order, for any finite set of guards: the facts on which the proofs      *)
(* about one mutex (RWMutexProofs) and about the twelve mutexes of a       *)
(* database (DBLocksProofs) rest.                                          *)
(***************************************************************************)
EXTENDS RWMutexOps, FiniteSetTheorems, TLAPS

-----------------------------------------------------------------------------
(* Holders of a lock, as guards change state. *)

\* The sets of holders of a mutex are finite, so that sharedN can count them.
LEMMA HoldersFinite ==
  ASSUME NEW m, NEW s
  PROVE  /\ IsFiniteSet(Holders(m, s))
         /\ Cardinality(Holders(m, s)) \in Nat
         /\ Cardinality(Holders(m, s)) = 0 <=> Holders(m, s) = {}
<1>1. Holders(m, s) \in SUBSET Guard
  BY DEF Holders
<1>2. IsFiniteSet(Holders(m, s))
  BY <1>1, GuardAssumption, FS_Subset
<1>3. QED
  BY <1>2, FS_CardinalityType, FS_EmptySet

\* A guard that turns shared, or stops being shared, changes the count by one.
LEMMA CountChange ==
  ASSUME NEW m \in Mutex, NEW n \in Mutex, NEW g \in Guard, NEW s \in GuardState,
         n.state = [m.state EXCEPT ![g] = s]
  PROVE  /\ m.state[g] # Shared /\ s = Shared =>
              Cardinality(Holders(n, Shared)) = Cardinality(Holders(m, Shared)) + 1
         /\ m.state[g] = Shared /\ s # Shared =>
              Cardinality(Holders(n, Shared)) = Cardinality(Holders(m, Shared)) - 1
         /\ (m.state[g] = Shared <=> s = Shared) =>
              Holders(n, Shared) = Holders(m, Shared)
<1> DEFINE A == Holders(m, Shared)
<1> DEFINE B == Holders(n, Shared)
<1>1. IsFiniteSet(A)
  BY HoldersFinite
<1>2. ASSUME m.state[g] # Shared, s = Shared
      PROVE  Cardinality(B) = Cardinality(A) + 1
  <2>1. B = A \cup {g} /\ g \notin A
    BY <1>2 DEF Holders, Mutex
  <2>2. QED
    BY <2>1, <1>1, FS_AddElement, Zenon
<1>3. ASSUME m.state[g] = Shared, s # Shared
      PROVE  Cardinality(B) = Cardinality(A) - 1
  <2>1. B = A \ {g} /\ g \in A
    BY <1>3 DEF Holders, Mutex
  <2>2. QED
    BY <2>1, <1>1, FS_RemoveElement, Zenon
<1>4. ASSUME m.state[g] = Shared <=> s = Shared
      PROVE  B = A
  BY <1>4 DEF Holders, Mutex
<1>5. QED
  BY <1>2, <1>3, <1>4

\* If one guard is shared and the count is one, it is the only one.
LEMMA OnlySharer ==
  ASSUME NEW m \in Mutex, Consistent(m), NEW g \in Guard, m.state[g] = Shared
  PROVE  /\ m.sharedN >= 1
         /\ m.sharedN = 1 <=> \A h \in Guard \ {g} : m.state[h] # Shared
<1> DEFINE A == Holders(m, Shared)
<1>0. g \in A /\ m.sharedN = Cardinality(A)
  BY DEF Holders, Consistent
<1>1. IsFiniteSet(A) /\ Cardinality(A) \in Nat /\ g \in A
  BY <1>0, HoldersFinite
<1>2. Cardinality(A) # 0
  BY <1>1, FS_EmptySet
<1>3. Cardinality(A) = 1 <=> \E x : A = {x}
  BY <1>1, FS_Singleton
<1>4. (\E x : A = {x}) <=> A = {g}
  BY <1>1
<1>5. A = {g} <=> \A h \in Guard \ {g} : m.state[h] # Shared
  BY <1>1 DEF Holders
<1> HIDE DEF A
<1>6. QED
  BY <1>0, <1>1, <1>2, <1>3, <1>4, <1>5

-----------------------------------------------------------------------------
(* Every method keeps the bookkeeping and meets its assertions. *)

\* TryLock, whether it succeeds or fails.
LEMMA TryLockCorrect ==
  ASSUME NEW m \in Mutex, Consistent(m), NEW g \in Guard
  PROVE  /\ TryLock(m, g) \in Mutex
         /\ Consistent(TryLock(m, g))
         /\ TryLockAsserts(m, g)
<1> DEFINE n == TryLock(m, g)
<1>1. TryLockAsserts(m, g)
  <2>1. SUFFICES ASSUME m.state[g] = Shared
                 PROVE  m.excl = NoGuard /\ (m.sharedN <= 1 => m.sharedN = 1)
    BY DEF TryLockAsserts
  <2>2. m.sharedN >= 1
    BY <2>1, OnlySharer
  <2>3. Holders(m, Shared) # {}
    BY <2>1 DEF Holders
  <2>4. QED
    BY <2>2, <2>3 DEF Consistent, Mutex
<1>2. CASE ~TryLockOK(m, g) \/ m.state[g] = Exclusive
  <2>1. n = m
    BY <1>2 DEF TryLock, Locked, Mutex
  <2>2. QED
    BY <2>1, <1>1
<1>3. CASE TryLockOK(m, g) /\ m.state[g] # Exclusive
  <2>1. /\ n = [sharedN |-> 0, excl |-> g, state |-> [m.state EXCEPT ![g] = Exclusive]]
        /\ n \in Mutex
    BY <1>3 DEF TryLock, Locked, Mutex, GuardState, Unlocked, Shared, Exclusive
  <2>2. Holders(n, Shared) = {}
    <3>1. CASE m.state[g] = Shared
      <4>1. m.sharedN = 1
        BY <3>1, <1>1, <1>3 DEF TryLockOK, TryLockAsserts, Unlocked, Shared, Exclusive
      <4>2. \A h \in Guard \ {g} : m.state[h] # Shared
        BY <3>1, <4>1, OnlySharer
      <4>3. QED
        BY <2>1, <4>2 DEF Holders, Mutex, Shared, Exclusive
    <3>2. CASE m.state[g] # Shared
      <4>1. Holders(m, Shared) = {}
        BY <3>2, <1>3, HoldersFinite DEF TryLockOK, Consistent, Mutex
      <4>2. QED
        BY <2>1, <4>1 DEF Holders, Mutex, Shared, Exclusive
    <3>3. QED
      BY <3>1, <3>2
  <2>3. \A h \in Guard : m.state[h] # Exclusive
    <3>1. m.excl = NoGuard
      BY <1>1, <1>3 DEF TryLockOK, TryLockAsserts
    <3>2. QED
      BY <3>1, GuardAssumption DEF Consistent
  <2>4. \A h \in Guard : n.excl = h <=> n.state[h] = Exclusive
    BY <2>1, <2>3 DEF Mutex
  <2>5. n.sharedN = Cardinality(Holders(n, Shared))
    <3>1. n.sharedN = 0
      BY <2>1
    <3>2. QED
      BY <3>1, <2>2, FS_EmptySet, Zenon
  <2>6. QED
    BY <1>1, <2>1, <2>2, <2>4, <2>5 DEF Consistent
<1>4. QED
  BY <1>2, <1>3

\* TryRLock, whether it succeeds or fails.
LEMMA TryRLockCorrect ==
  ASSUME NEW m \in Mutex, Consistent(m), NEW g \in Guard
  PROVE  /\ TryRLock(m, g) \in Mutex
         /\ Consistent(TryRLock(m, g))
         /\ TryRLockAsserts(m, g)
<1> DEFINE n == TryRLock(m, g)
<1>1. TryRLockAsserts(m, g)
  BY DEF TryRLockAsserts, Consistent
<1>2. CASE ~TryRLockOK(m, g) \/ m.state[g] = Shared
  <2>1. n = m
    BY <1>2 DEF TryRLock, RLocked, Unlocked, Shared, Exclusive
  <2>2. QED
    BY <2>1, <1>1
<1>3. CASE m.state[g] = Unlocked /\ TryRLockOK(m, g)
  <2>1. /\ n = [sharedN |-> m.sharedN + 1, excl |-> m.excl,
                 state |-> [m.state EXCEPT ![g] = Shared]]
        /\ m.excl = NoGuard
    BY <1>3 DEF TryRLock, RLocked, TryRLockOK, Mutex, Unlocked, Shared, Exclusive
  <2>2. n \in Mutex /\ n.sharedN = m.sharedN + 1 /\ n.excl = NoGuard
        /\ n.state = [m.state EXCEPT ![g] = Shared]
    BY <2>1 DEF Mutex, GuardState
  <2>3. Cardinality(Holders(n, Shared)) = Cardinality(Holders(m, Shared)) + 1
    BY <2>2, <1>3, CountChange DEF GuardState, Unlocked, Shared, Exclusive
  <2>4. \A h \in Guard : n.excl = h <=> n.state[h] = Exclusive
    BY <2>1, <2>2, <1>3, GuardAssumption DEF Consistent, Mutex, Unlocked, Shared, Exclusive
  <2>5. n.sharedN = Cardinality(Holders(n, Shared))
    BY <2>2, <2>3 DEF Consistent
  <2>6. QED
    BY <1>1, <2>2, <2>4, <2>5 DEF Consistent
<1>4. CASE m.state[g] = Exclusive
  <2>1. n = [sharedN |-> 1, excl |-> NoGuard, state |-> [m.state EXCEPT ![g] = Shared]]
    BY <1>4 DEF TryRLock, RLocked, TryRLockOK, Mutex, Unlocked, Shared, Exclusive
  <2>2. n \in Mutex /\ n.sharedN = 1 /\ n.excl = NoGuard
        /\ n.state = [m.state EXCEPT ![g] = Shared]
    BY <2>1 DEF Mutex, GuardState
  <2>3. m.excl = g /\ m.excl # NoGuard /\ Holders(m, Shared) = {}
    BY <1>4, GuardAssumption DEF Consistent
  <2>4. Cardinality(Holders(n, Shared)) = Cardinality(Holders(m, Shared)) + 1
    BY <2>2, <1>4, CountChange DEF GuardState, Unlocked, Shared, Exclusive
  <2>5. Cardinality(Holders(m, Shared)) = 0
    BY <2>3, FS_EmptySet
  <2>6. \A h \in Guard : n.excl = h <=> n.state[h] = Exclusive
    BY <2>2, <2>3, GuardAssumption DEF Consistent, Mutex, Unlocked, Shared, Exclusive
  <2>7. n.sharedN = Cardinality(Holders(n, Shared))
    BY <2>2, <2>4, <2>5
  <2>8. QED
    BY <1>1, <2>2, <2>6, <2>7 DEF Consistent
<1>5. QED
  BY <1>2, <1>3, <1>4 DEF Mutex, GuardState

\* Unlock, of a guard that holds the lock or not.
LEMMA UnlockCorrect ==
  ASSUME NEW m \in Mutex, Consistent(m), NEW g \in Guard
  PROVE  /\ Unlock(m, g) \in Mutex
         /\ Consistent(Unlock(m, g))
         /\ UnlockAsserts(m, g)
<1> DEFINE n == Unlock(m, g)
<1>1. UnlockAsserts(m, g)
  <2>1. m.state[g] = Shared => m.sharedN >= 1
    BY OnlySharer
  <2>2. QED
    BY <2>1 DEF UnlockAsserts, Consistent, Mutex
<1>2. CASE m.state[g] = Unlocked
  <2>1. n = m
    BY <1>2 DEF Unlock, Unlocked, Shared, Exclusive
  <2>2. QED
    BY <2>1, <1>1
<1>3. CASE m.state[g] = Shared
  <2>1. /\ n = [sharedN |-> m.sharedN - 1, excl |-> m.excl,
                 state |-> [m.state EXCEPT ![g] = Unlocked]]
        /\ m.sharedN >= 1
    <3>1. m.sharedN \in Nat /\ m.sharedN > 0
      BY <1>1, <1>3 DEF UnlockAsserts, Mutex
    <3>2. n = [m EXCEPT !.sharedN = m.sharedN - 1, !.state[g] = Unlocked]
      BY <1>3 DEF Unlock, Unlocked, Shared, Exclusive
    <3>3. n = [sharedN |-> m.sharedN - 1, excl |-> m.excl,
               state |-> [m.state EXCEPT ![g] = Unlocked]]
      BY <3>2 DEF Mutex
    <3>4. m.sharedN >= 1
      BY <3>1
    <3>5. QED
      BY <3>3, <3>4, Zenon
  <2>2. n \in Mutex /\ n.sharedN = m.sharedN - 1 /\ n.excl = m.excl
        /\ n.state = [m.state EXCEPT ![g] = Unlocked]
    BY <2>1 DEF Mutex, GuardState
  <2>3. Cardinality(Holders(n, Shared)) = Cardinality(Holders(m, Shared)) - 1
    BY <2>2, <1>3, CountChange DEF GuardState, Unlocked, Shared, Exclusive
  <2>4. n.excl = NoGuard
    BY <2>2, <1>3 DEF Consistent, Holders
  <2>5. \A h \in Guard : n.excl = h <=> n.state[h] = Exclusive
    BY <2>2, <1>3 DEF Consistent, Mutex, Unlocked, Shared, Exclusive
  <2>6. n.sharedN = Cardinality(Holders(n, Shared))
    BY <2>2, <2>3 DEF Consistent
  <2>7. QED
    BY <1>1, <2>2, <2>4, <2>5, <2>6 DEF Consistent
<1>4. CASE m.state[g] = Exclusive
  <2>1. n = [sharedN |-> 0, excl |-> NoGuard, state |-> [m.state EXCEPT ![g] = Unlocked]]
    BY <1>4 DEF Unlock, Mutex, Unlocked, Shared, Exclusive
  <2>2. n \in Mutex /\ n.sharedN = 0 /\ n.excl = NoGuard
        /\ n.state = [m.state EXCEPT ![g] = Unlocked]
    BY <2>1 DEF Mutex, GuardState
  <2>3. m.excl = g /\ Holders(m, Shared) = {}
    BY <1>4, GuardAssumption DEF Consistent
  <2>4. Holders(n, Shared) = Holders(m, Shared)
    BY <2>2, <1>4, CountChange DEF GuardState, Unlocked, Shared, Exclusive
  <2>5. \A h \in Guard : n.excl = h <=> n.state[h] = Exclusive
    BY <2>2, <2>3, GuardAssumption DEF Consistent, Mutex, Unlocked, Shared, Exclusive
  <2>6. n.sharedN = Cardinality(Holders(n, Shared))
    BY <2>2, <2>3, <2>4, FS_EmptySet, Zenon
  <2>7. QED
    BY <1>1, <2>2, <2>5, <2>6 DEF Consistent
<1>5. QED
  BY <1>2, <1>3, <1>4 DEF Mutex, GuardState

-----------------------------------------------------------------------------
\* CanLock and CanRLock answer what TryLock and TryRLock would.
LEMMA QueriesCorrect ==
  ASSUME NEW m \in Mutex, Consistent(m), NEW g \in Guard
  PROVE  /\ CanLock(m, g) <=> TryLockOK(m, g)
         /\ CanLock(m, g) <=> \A h \in Guard \ {g} : m.state[h] = Unlocked
         /\ CanRLock(m, g) <=> \A h \in Guard \ {g} : m.state[h] # Exclusive
<1>1. m \in Mutex /\ Consistent(m) /\ m.state[g] \in GuardState
  BY DEF Mutex
<1>2. CanRLock(m, g) <=> \A h \in Guard \ {g} : m.state[h] # Exclusive
  BY <1>1, GuardAssumption
  DEF CanRLock, Consistent, Holders, Mutex, GuardState, Unlocked, Shared, Exclusive
<1>3. CASE m.state[g] = Unlocked
  <2>1. m.sharedN = 0 <=> \A h \in Guard : m.state[h] # Shared
    <3>1. Cardinality(Holders(m, Shared)) = 0 <=> Holders(m, Shared) = {}
      BY HoldersFinite, Zenon
    <3>2. QED
      BY <1>1, <3>1 DEF Consistent, Holders
  <2>2. m.excl = NoGuard <=> \A h \in Guard : m.state[h] # Exclusive
    BY <1>1, GuardAssumption DEF Consistent, Mutex
  <2>3. QED
    BY <1>1, <1>2, <1>3, <2>1, <2>2
    DEF CanLock, TryLockOK, Mutex, GuardState, Unlocked, Shared, Exclusive
<1>4. CASE m.state[g] = Shared
  <2>1. /\ m.sharedN >= 1
        /\ m.sharedN = 1 <=> \A h \in Guard \ {g} : m.state[h] # Shared
    BY <1>1, <1>4, OnlySharer
  <2>2. m.excl = NoGuard /\ \A h \in Guard : m.state[h] # Exclusive
    BY <1>1, <1>4, GuardAssumption DEF Consistent, Holders, Mutex
  <2>3. QED
    BY <1>1, <1>2, <1>4, <2>1, <2>2
    DEF CanLock, TryLockOK, Mutex, GuardState, Unlocked, Shared, Exclusive
<1>5. CASE m.state[g] = Exclusive
  <2>1. m.excl = g /\ Holders(m, Shared) = {}
    BY <1>1, <1>5, GuardAssumption DEF Consistent
  <2>2. \A h \in Guard \ {g} : m.state[h] = Unlocked
    BY <1>1, <2>1 DEF Consistent, Holders, Mutex, GuardState
  <2>3. QED
    BY <1>2, <1>5, <2>2 DEF CanLock, TryLockOK, Unlocked, Shared, Exclusive
<1>6. QED
  BY <1>1, <1>3, <1>4, <1>5 DEF GuardState

\* A mutex that grants TryLock has no other holder, and then has this one.
LEMMA LockedEffect ==
  ASSUME NEW m \in Mutex, Consistent(m), NEW g \in Guard, TryLockOK(m, g)
  PROVE  /\ Locked(m, g) \in Mutex
         /\ Consistent(Locked(m, g))
         /\ Locked(m, g).state = [m.state EXCEPT ![g] = Exclusive]
BY TryLockCorrect DEF TryLock, Locked, Mutex

\* A mutex that grants TryRLock has no other writer, and then has this reader.
LEMMA RLockedEffect ==
  ASSUME NEW m \in Mutex, Consistent(m), NEW g \in Guard, TryRLockOK(m, g)
  PROVE  /\ RLocked(m, g) \in Mutex
         /\ Consistent(RLocked(m, g))
         /\ RLocked(m, g).state = [m.state EXCEPT ![g] = Shared]
<1>1. RLocked(m, g).state = [m.state EXCEPT ![g] = Shared]
  BY DEF RLocked, Mutex, GuardState, Unlocked, Shared, Exclusive
<1>2. QED
  BY <1>1, TryRLockCorrect DEF TryRLock

\* Unlock leaves the guard unlocked and the others as they are.
LEMMA UnlockEffect ==
  ASSUME NEW m \in Mutex, Consistent(m), NEW g \in Guard
  PROVE  /\ Unlock(m, g) \in Mutex
         /\ Consistent(Unlock(m, g))
         /\ Unlock(m, g).state = [m.state EXCEPT ![g] = Unlocked]
<1>1. Unlock(m, g).state = [m.state EXCEPT ![g] = Unlocked]
  BY DEF Unlock, Mutex, GuardState, Unlocked, Shared, Exclusive
<1>2. QED
  BY <1>1, UnlockCorrect

\* A new mutex is in order.
LEMMA NewMutexCorrect == NewMutex \in Mutex /\ Consistent(NewMutex)
<1>1. NewMutex \in Mutex
  BY DEF NewMutex, Mutex, GuardState, Unlocked
<1>2. Holders(NewMutex, Shared) = {}
  BY DEF NewMutex, Holders, Unlocked, Shared
<1>3. QED
  BY <1>1, <1>2, FS_EmptySet, GuardAssumption DEF Consistent, NewMutex, Unlocked, Exclusive

\* The mutex says that it is free when no guard holds it.
LEMMA FreeMutex ==
  ASSUME NEW m \in Mutex, Consistent(m), \A g \in Guard : m.state[g] = Unlocked
  PROVE  MutexState(m) = Unlocked
<1>1. m.excl = NoGuard
  BY DEF Mutex, Consistent, Unlocked, Exclusive
<1>2. Holders(m, Shared) = {}
  BY DEF Holders, Unlocked, Shared
<1>3. m.sharedN = 0
  BY <1>2, FS_EmptySet DEF Consistent
<1>4. QED
  BY <1>1, <1>3 DEF MutexState
=============================================================================
