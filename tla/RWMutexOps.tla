----------------------------- MODULE RWMutexOps -----------------------------
(***************************************************************************)
(* The reader/writer mutex of rwmutex.go as operators on its state.        *)
(*                                                                         *)
(* A mutex is a record: rw.sharedN, rw.excl and, for every guard handed    *)
(* out by RWMutex.Guard(), the guard's own g.state.  Every exported method *)
(* holds rw.mu from its first to its last access to this record, so a      *)
(* method call is one step.  The module has no variables: RWMutex makes a  *)
(* state machine of one mutex, DBLocks of the twelve mutexes of a database.*)
(***************************************************************************)
EXTENDS Integers, FiniteSets

CONSTANTS
  Guard,      \* the guards of the mutex
  NoGuard     \* the nil of rw.excl

ASSUME GuardAssumption == IsFiniteSet(Guard) /\ NoGuard \notin Guard

Unlocked  == "unlocked"
Shared    == "shared"
Exclusive == "exclusive"

GuardState == {Unlocked, Shared, Exclusive}

Mutex == [sharedN : Nat, excl : Guard \cup {NoGuard}, state : [Guard -> GuardState]]

NewMutex == [sharedN |-> 0, excl |-> NoGuard, state |-> [g \in Guard |-> Unlocked]]

\* RWMutex.state(): what the mutex itself says about its holders.
MutexState(m) ==
  IF m.excl # NoGuard THEN Exclusive
  ELSE IF m.sharedN > 0 THEN Shared
  ELSE Unlocked

-----------------------------------------------------------------------------
(* tryLock *)

\* The assertions tryLock makes before it upgrades a shared guard.
TryLockAsserts(m, g) ==
  m.state[g] = Shared =>
    /\ m.excl = NoGuard
    /\ m.sharedN <= 1 => m.sharedN = 1

\* The value TryLock returns.
TryLockOK(m, g) ==
  \/ m.state[g] = Unlocked /\ m.sharedN = 0 /\ m.excl = NoGuard
  \/ m.state[g] = Shared /\ m.sharedN <= 1
  \/ m.state[g] = Exclusive

\* Mutant of Locked: an upgrade that forgets to clear the reader count.
LockedKeepsCount(m, g) ==
  [m EXCEPT !.excl = g, !.state[g] = Exclusive]

\* The mutex after a successful TryLock.
Locked(m, g) ==
  [m EXCEPT !.sharedN = IF m.state[g] = Exclusive THEN @ ELSE 0,
            !.excl    = IF m.state[g] = Exclusive THEN @ ELSE g,
            !.state[g] = Exclusive]

TryLock(m, g) == IF TryLockOK(m, g) THEN Locked(m, g) ELSE m

\* Mutant of CanLock: the query forgets the other readers.
CanLockIgnoresReaders(m, g) == m.excl \in {NoGuard, g}

\* CanLock: the answer to a lock query, without taking the lock.
CanLock(m, g) ==
  CASE m.state[g] = Unlocked  -> m.sharedN = 0 /\ m.excl = NoGuard
    [] m.state[g] = Shared    -> m.sharedN = 1
    [] m.state[g] = Exclusive -> TRUE

-----------------------------------------------------------------------------
(* tryRLock *)

\* The assertion tryRLock makes before it downgrades an exclusive guard.
TryRLockAsserts(m, g) == m.state[g] = Exclusive => m.excl = g

\* Mutant of TryRLockOK: a reader let in beside a writer.
TryRLockAlways(m, g) == TRUE

\* The value TryRLock returns.
TryRLockOK(m, g) == m.state[g] = Unlocked => m.excl = NoGuard

\* The mutex after a successful TryRLock.
RLocked(m, g) ==
  CASE m.state[g] = Unlocked  -> [m EXCEPT !.sharedN = @ + 1, !.state[g] = Shared]
    [] m.state[g] = Shared    -> m
    [] m.state[g] = Exclusive -> [m EXCEPT !.sharedN = 1, !.excl = NoGuard,
                                           !.state[g] = Shared]

TryRLock(m, g) == IF TryRLockOK(m, g) THEN RLocked(m, g) ELSE m

\* CanRLock: the answer to a read-lock query.
CanRLock(m, g) == m.state[g] = Unlocked => m.excl = NoGuard

-----------------------------------------------------------------------------
(* unlock *)

\* The assertions unlock makes.
UnlockAsserts(m, g) ==
  /\ m.state[g] = Shared    => m.sharedN > 0
  /\ m.state[g] = Exclusive => m.excl = g

\* Mutant of Unlock: unlocking an unlocked guard is counted too.
UnlockTwice(m, g) ==
  IF m.state[g] = Exclusive
  THEN [m EXCEPT !.sharedN = 0, !.excl = NoGuard, !.state[g] = Unlocked]
  ELSE [m EXCEPT !.sharedN = @ - 1, !.state[g] = Unlocked]

Unlock(m, g) ==
  CASE m.state[g] = Unlocked  -> m
    [] m.state[g] = Shared    -> [m EXCEPT !.sharedN = @ - 1, !.state[g] = Unlocked]
    [] m.state[g] = Exclusive -> [m EXCEPT !.sharedN = 0, !.excl = NoGuard,
                                           !.state[g] = Unlocked]

-----------------------------------------------------------------------------
\* The guards in a given state.
Holders(m, s) == {g \in Guard : m.state[g] = s}

\* The bookkeeping of the mutex agrees with the states of its guards.
Consistent(m) ==
  /\ m.sharedN = Cardinality(Holders(m, Shared))
  /\ \A g \in Guard : m.excl = g <=> m.state[g] = Exclusive
  /\ m.excl # NoGuard => Holders(m, Shared) = {}
=============================================================================
