---------------------------- MODULE AccountLock -----------------------------
(***************************************************************************)
(* What locking accounts against password guessing promises, whatever else *)
(* the service does at the time.  An attempt gets its password tried only  *)
(* while the account is not locked, and is counted at most once.  A wrong  *)
(* password counts one failure; from the limit on each failure locks the   *)
(* account anew; a right password clears the count and the lock.  Nothing  *)
(* but such an outcome touches either, and only those of its own account.  *)
(***************************************************************************)
EXTENDS Integers

CONSTANTS Users, Attempts, Limit, Duration, None

VARIABLES
    clock,      \* the time
    failures,   \* failures[u]: wrong passwords since the last right one
    until,      \* until[u]: the end of the last lock set, or None
    trying,     \* trying[u]: attempts on u whose outcome is yet to be written
    fresh       \* attempts that are yet to be made

lock == <<clock, failures, until, trying, fresh>>

Init ==
    /\ clock = 0
    /\ failures = [u \in Users |-> 0]
    /\ until = [u \in Users |-> None]
    /\ trying = [u \in Users |-> {}]
    /\ fresh \subseteq Attempts

Locked(u) == until[u] # None /\ until[u] > clock

\* Attempt a is let in to try a password of u.
Enter(a, u) ==
    /\ ~Locked(u)
    /\ a \in fresh
    /\ fresh' = fresh \ {a}
    /\ trying' = [trying EXCEPT ![u] = @ \cup {a}]
    /\ UNCHANGED <<clock, failures, until>>

\* Attempt a is turned away, or was no attempt on a password.
TurnAway(a) ==
    /\ fresh' = fresh \ {a}
    /\ UNCHANGED <<clock, failures, until, trying>>

\* The password was wrong.  The lock may have been set since a was let in.
Fail(a, u) ==
    /\ a \in trying[u]
    /\ trying' = [trying EXCEPT ![u] = @ \ {a}]
    /\ failures' = [failures EXCEPT ![u] = @ + 1]
    /\ until' = [until EXCEPT ![u] = IF failures[u] + 1 >= Limit THEN clock + Duration ELSE @]
    /\ UNCHANGED <<clock, fresh>>

\* The password was right.
Succeed(a, u) ==
    /\ a \in trying[u]
    /\ trying' = [trying EXCEPT ![u] = @ \ {a}]
    /\ failures' = [failures EXCEPT ![u] = 0]
    /\ until' = [until EXCEPT ![u] = None]
    /\ UNCHANGED <<clock, fresh>>

\* Attempt a is cut short: its outcome is never written.
Abandon(a, u) ==
    /\ trying' = [trying EXCEPT ![u] = @ \ {a}]
    /\ UNCHANGED <<clock, failures, until, fresh>>

Pass ==
    /\ clock' = clock + 1
    /\ UNCHANGED <<failures, until, trying, fresh>>

Next ==
    \/ \E a \in Attempts : TurnAway(a)
    \/ \E a \in Attempts, u \in Users :
           Enter(a, u) \/ Fail(a, u) \/ Succeed(a, u) \/ Abandon(a, u)
    \/ Pass

Spec == Init /\ [][Next]_lock
=============================================================================
