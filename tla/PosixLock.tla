----------------------------- MODULE PosixLock ------------------------------
(***************************************************************************)
(* What a POSIX advisory lock on one byte promises, which rwmutex.go says  *)
(* its guards work like: an owner's lock is set to read, write or none in  *)
(* one step, converting the lock it had, and it is set only if no other    *)
(* owner holds a conflicting one.                                          *)
(***************************************************************************)
CONSTANT Owner

VARIABLE lock      \* the lock every owner has on the byte

LockKind == {"unlocked", "shared", "exclusive"}

Conflict(a, b) == {a, b} \in {{"shared", "exclusive"}, {"exclusive"}}

Init == lock = [o \in Owner |-> "unlocked"]

SetLock(o, kind) ==
  /\ \A p \in Owner \ {o} : ~Conflict(kind, lock[p])
  /\ lock' = [lock EXCEPT ![o] = kind]

Next == \E o \in Owner, kind \in LockKind : SetLock(o, kind)

Spec == Init /\ [][Next]_lock
=============================================================================
