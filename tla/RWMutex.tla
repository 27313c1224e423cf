------------------------------ MODULE RWMutex -------------------------------
(***************************************************************************)
(* One RWMutex and the goroutines that use its guards (rwmutex.go).        *)
(*                                                                         *)
(* The methods that do not block are one step each.  Lock and RLock try    *)
(* once and then poll on a ticker until the try succeeds or the context is *)
(* done; between two polls the goroutine waits and any other method, on    *)
(* the same guard too, may run.                                            *)
(***************************************************************************)
EXTENDS RWMutexOps

VARIABLES
  mutex,     \* the RWMutex and the states of its guards
  polling,   \* polling[g]: the lock the Lock/RLock loop running on g waits for
  failed     \* an assertion of rwmutex.go failed: the process panicked

vars == <<mutex, polling, failed>>

Idle == "idle"

TypeOK ==
  /\ mutex \in Mutex
  /\ polling \in [Guard -> {Idle, Shared, Exclusive}]
  /\ failed \in BOOLEAN

Init ==
  /\ mutex = NewMutex
  /\ polling = [g \in Guard |-> Idle]
  /\ failed = FALSE

-----------------------------------------------------------------------------
\* TryLock and the other methods that do not block, called on guard g.
CallTryLock(g) ==
  /\ mutex' = TryLock(mutex, g)
  /\ failed' = (failed \/ ~TryLockAsserts(mutex, g))
  /\ UNCHANGED polling

CallTryRLock(g) ==
  /\ mutex' = TryRLock(mutex, g)
  /\ failed' = (failed \/ ~TryRLockAsserts(mutex, g))
  /\ UNCHANGED polling

CallUnlock(g) ==
  /\ mutex' = Unlock(mutex, g)
  /\ failed' = (failed \/ ~UnlockAsserts(mutex, g))
  /\ UNCHANGED polling

\* Lock(ctx): the first try.  A goroutine whose try fails starts to poll.
CallLock(g) ==
  /\ polling[g] = Idle
  /\ mutex' = TryLock(mutex, g)
  /\ failed' = (failed \/ ~TryLockAsserts(mutex, g))
  /\ polling' = [polling EXCEPT ![g] = IF TryLockOK(mutex, g) THEN Idle ELSE Exclusive]

\* RLock(ctx): the first try.
CallRLock(g) ==
  /\ polling[g] = Idle
  /\ mutex' = TryRLock(mutex, g)
  /\ failed' = (failed \/ ~TryRLockAsserts(mutex, g))
  /\ polling' = [polling EXCEPT ![g] = IF TryRLockOK(mutex, g) THEN Idle ELSE Shared]

\* Mutant of PollLock: the loop waits for the mutex to be entirely free, its own
\* shared lock included.
PollLockUntilFree(g) ==
  /\ polling[g] = Exclusive
  /\ MutexState(mutex) = Unlocked
  /\ mutex' = Locked(mutex, g)
  /\ polling' = [polling EXCEPT ![g] = Idle]
  /\ UNCHANGED failed

\* A tick of the loop in Lock.
PollLock(g) ==
  /\ polling[g] = Exclusive
  /\ mutex' = TryLock(mutex, g)
  /\ failed' = (failed \/ ~TryLockAsserts(mutex, g))
  /\ polling' = [polling EXCEPT ![g] = IF TryLockOK(mutex, g) THEN Idle ELSE @]

\* A tick of the loop in RLock.
PollRLock(g) ==
  /\ polling[g] = Shared
  /\ mutex' = TryRLock(mutex, g)
  /\ failed' = (failed \/ ~TryRLockAsserts(mutex, g))
  /\ polling' = [polling EXCEPT ![g] = IF TryRLockOK(mutex, g) THEN Idle ELSE @]

\* The context of a Lock or RLock is done before the lock is free.
PollCanceled(g) ==
  /\ polling[g] # Idle
  /\ polling' = [polling EXCEPT ![g] = Idle]
  /\ UNCHANGED <<mutex, failed>>

GuardStep(g) ==
  \/ CallTryLock(g) \/ CallTryRLock(g) \/ CallUnlock(g)
  \/ CallLock(g) \/ CallRLock(g)
  \/ PollLock(g) \/ PollRLock(g) \/ PollCanceled(g)

Next == \E g \in Guard : GuardStep(g)

Spec == Init /\ [][Next]_vars

\* The ticker of a polling goroutine keeps firing.
FairSpec == Spec /\ \A g \in Guard : WF_vars(PollLock(g)) /\ WF_vars(PollRLock(g))

-----------------------------------------------------------------------------
\* The counter and the owner pointer kept by the mutex always agree with the
\* states of the guards, so no assertion of rwmutex.go (lines 111, 116, 201,
\* 242, 246) ever fails, whatever order the methods are called in.
NoAssertionFails == Consistent(mutex) /\ ~failed

\* A query (CanLock, CanRLock: F_GETLK) answers what the lock call itself would
\* have answered, and CanLock is true exactly when no other guard holds the lock.
QueryAgreesWithTry ==
  \A g \in Guard :
    /\ CanLock(mutex, g) <=> TryLockOK(mutex, g)
    /\ CanLock(mutex, g) <=> \A h \in Guard \ {g} : mutex.state[h] = Unlocked
    /\ CanRLock(mutex, g) <=> \A h \in Guard \ {g} : mutex.state[h] # Exclusive

\* The guards of a mutex behave like the owners of a POSIX byte lock.
Posix == INSTANCE PosixLock WITH Owner <- Guard, lock <- mutex.state

ImplementsPosixLock == Posix!Spec

\* A goroutine in Lock or RLock returns once the other guards stay unlocked: the
\* loop does not miss the release of the lock it waits for.
PollReturns ==
  \A g \in Guard :
    <>[](\A h \in Guard \ {g} : mutex.state[h] = Unlocked) => []<>(polling[g] = Idle)
=============================================================================
