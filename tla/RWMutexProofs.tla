--------------------------- MODULE RWMutexProofs ----------------------------
(***************************************************************************)
(* RWMutex for any finite set of guards: type correctness, the bookkeeping *)
(* that makes every assertion of rwmutex.go true, the answers of the lock  *)
(* queries, and the refinement of PosixLock.                               *)
(***************************************************************************)
EXTENDS RWMutex, RWMutexOpsProofs

(* The inductive invariant: the assertions look at one guard and the       *)
(* counter, so they are inductive only together with the agreement between *)
(* the counter, the owner pointer and all the guards.                      *)
Inv == TypeOK /\ Consistent(mutex) /\ ~failed

-----------------------------------------------------------------------------
\* The mutex starts consistent.
LEMMA InitInv == Init => Inv
<1> SUFFICES ASSUME Init PROVE Inv
  OBVIOUS
<1>1. mutex \in Mutex /\ TypeOK
  BY DEF Init, TypeOK, NewMutex, Mutex, GuardState, Unlocked, Idle
<1>2. Holders(mutex, Shared) = {}
  BY DEF Init, NewMutex, Holders, Unlocked, Shared
<1>3. QED
  BY <1>1, <1>2, FS_EmptySet, GuardAssumption
  DEF Init, Inv, Consistent, NewMutex, Unlocked, Exclusive

\* No step of any goroutine breaks the invariant.
LEMMA StepInv == Inv /\ [Next]_vars => Inv'
<1> SUFFICES ASSUME Inv, [Next]_vars PROVE Inv'
  OBVIOUS
<1> USE DEF Inv
<1>1. CASE UNCHANGED vars
  BY <1>1 DEF vars, TypeOK
<1>2. CASE Next
  <2>1. PICK g \in Guard : GuardStep(g)
    BY <1>2 DEF Next
  <2>2. /\ TryLock(mutex, g) \in Mutex /\ Consistent(TryLock(mutex, g))
        /\ TryLockAsserts(mutex, g)
    BY TryLockCorrect DEF TypeOK
  <2>3. /\ TryRLock(mutex, g) \in Mutex /\ Consistent(TryRLock(mutex, g))
        /\ TryRLockAsserts(mutex, g)
    BY TryRLockCorrect DEF TypeOK
  <2>4. /\ Unlock(mutex, g) \in Mutex /\ Consistent(Unlock(mutex, g))
        /\ UnlockAsserts(mutex, g)
    BY UnlockCorrect DEF TypeOK
  <2>5. CASE CallTryLock(g) \/ CallLock(g) \/ PollLock(g)
    BY <2>5, <2>2 DEF CallTryLock, CallLock, PollLock, TypeOK
  <2>6. CASE CallTryRLock(g) \/ CallRLock(g) \/ PollRLock(g)
    BY <2>6, <2>3 DEF CallTryRLock, CallRLock, PollRLock, TypeOK
  <2>7. CASE CallUnlock(g)
    BY <2>7, <2>4 DEF CallUnlock, TypeOK
  <2>8. CASE PollCanceled(g)
    BY <2>8 DEF PollCanceled, TypeOK
  <2>9. QED
    BY <2>1, <2>5, <2>6, <2>7, <2>8 DEF GuardStep
<1>3. QED
  BY <1>1, <1>2

\* The variables of a mutex keep their types: sharedN never goes below zero.
THEOREM TypeCorrect == Spec => []TypeOK
<1>1. Inv => TypeOK
  BY DEF Inv
<1>2. QED
  BY <1>1, InitInv, StepInv, PTL DEF Spec

\* No assertion of rwmutex.go fails, for any number of guards used in any order.
THEOREM AssertionsHold == Spec => []NoAssertionFails
<1>1. Inv => NoAssertionFails
  BY DEF Inv, NoAssertionFails
<1>2. QED
  BY <1>1, InitInv, StepInv, PTL DEF Spec

-----------------------------------------------------------------------------
\* CanLock and CanRLock answer what TryLock and TryRLock would.
LEMMA InvQuery == Inv => QueryAgreesWithTry
BY QueriesCorrect DEF Inv, TypeOK, QueryAgreesWithTry

\* A lock query always agrees with the lock call it stands for.
THEOREM QueriesAgree == Spec => []QueryAgreesWithTry
<1>1. QED
  BY InvQuery, InitInv, StepInv, PTL DEF Spec

-----------------------------------------------------------------------------
\* What the methods do to the guards is what a POSIX byte lock allows.
LEMMA StepPosix == Inv /\ [Next]_vars => [Posix!Next]_(mutex.state)
<1> SUFFICES ASSUME Inv, Next PROVE Posix!Next \/ UNCHANGED mutex.state
  BY DEF vars
<1>1. PICK g \in Guard : GuardStep(g)
  BY DEF Next
<1>2. QueryAgreesWithTry /\ mutex \in Mutex /\ Consistent(mutex)
  BY InvQuery DEF Inv, TypeOK
<1>3. CASE mutex' = TryLock(mutex, g)
  <2>1. CASE ~TryLockOK(mutex, g)
    BY <1>3, <2>1 DEF TryLock
  <2>2. CASE TryLockOK(mutex, g)
    <3>1. mutex.state' = [mutex.state EXCEPT ![g] = Exclusive]
      BY <1>2, <1>3, <2>2 DEF TryLock, Locked, Mutex
    <3>2. \A h \in Guard \ {g} : mutex.state[h] = Unlocked
      BY <1>2, <2>2 DEF QueryAgreesWithTry
    <3>3. Posix!SetLock(g, Exclusive)
      BY <3>1, <3>2 DEF Posix!SetLock, Posix!Conflict, Unlocked, Exclusive
    <3>4. QED
      BY <3>3 DEF Posix!Next, Posix!LockKind, Exclusive
  <2>3. QED
    BY <2>1, <2>2
<1>4. CASE mutex' = TryRLock(mutex, g)
  <2>1. CASE ~TryRLockOK(mutex, g)
    BY <1>4, <2>1 DEF TryRLock
  <2>2. CASE TryRLockOK(mutex, g)
    <3>1. mutex.state' = [mutex.state EXCEPT ![g] = Shared]
      BY <1>2, <1>4, <2>2 DEF TryRLock, RLocked, Mutex, GuardState, Unlocked, Shared, Exclusive
    <3>2. \A h \in Guard \ {g} : mutex.state[h] # Exclusive
      BY <1>2, <2>2 DEF QueryAgreesWithTry, CanRLock, TryRLockOK
    <3>3. Posix!SetLock(g, Shared)
      BY <3>1, <3>2, <1>2
      DEF Posix!SetLock, Posix!Conflict, Mutex, GuardState, Unlocked, Shared, Exclusive
    <3>4. QED
      BY <3>3 DEF Posix!Next, Posix!LockKind, Shared
  <2>3. QED
    BY <2>1, <2>2
<1>5. CASE mutex' = Unlock(mutex, g)
  <2>1. mutex.state' = [mutex.state EXCEPT ![g] = Unlocked]
    BY <1>2, <1>5 DEF Unlock, Mutex, GuardState, Unlocked, Shared, Exclusive
  <2>2. Posix!SetLock(g, Unlocked)
    BY <2>1, <1>2
    DEF Posix!SetLock, Posix!Conflict, Mutex, GuardState, Unlocked, Shared, Exclusive
  <2>3. QED
    BY <2>2 DEF Posix!Next, Posix!LockKind, Unlocked
<1>6. CASE UNCHANGED mutex
  BY <1>6
<1>7. QED
  BY <1>1, <1>3, <1>4, <1>5, <1>6
  DEF GuardStep, CallTryLock, CallTryRLock, CallUnlock, CallLock, CallRLock,
      PollLock, PollRLock, PollCanceled

\* The mutex implements the POSIX byte lock its guards are modelled on: no two
\* guards ever hold conflicting locks and every conversion is one step.
THEOREM Refinement == Spec => ImplementsPosixLock
<1>1. Init => Posix!Init
  BY DEF Init, NewMutex, Posix!Init, Unlocked
<1>2. QED
  BY <1>1, InitInv, StepInv, StepPosix, PTL DEF Spec, ImplementsPosixLock, Posix!Spec
=============================================================================
