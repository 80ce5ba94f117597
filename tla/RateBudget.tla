----------------------------- MODULE RateBudget -----------------------------
(***************************************************************************)
(* What a rate limit promises its clients, without a word of buckets: over *)
(* any stretch of time up to now a client gets a burst of calls and one    *)
(* more per interval, is refused exactly when another call would exceed    *)
(* that, and never on account of other clients or of refused calls.        *)
(***************************************************************************)
EXTENDS Integers

CONSTANTS Clients, Times

VARIABLES
    clock,    \* the time
    limit,    \* on: whether there is a limit; burst and interval: what it is
    calls,    \* calls[c][s]: calls of c that were let through since s
    answer    \* answer[c]: what became of the last call of c

budget == <<clock, limit, calls, answer>>

Init ==
    /\ clock = 0
    /\ limit \in [on: BOOLEAN, burst: Nat, interval: Nat]
    /\ calls = [c \in Clients |-> [s \in Times |-> 0]]
    /\ answer = [c \in Clients |-> "none"]

\* The stretch of time since s has room for n calls.
Room(n, s) == n * limit.interval <= limit.burst * limit.interval + (clock - s)

\* Every stretch of time has room for another call of c.
MayCall(c) == \A s \in 0..clock : Room(calls[c][s] + 1, s)

Answer(c, a) ==
    /\ answer' = [answer EXCEPT ![c] = a]
    /\ UNCHANGED <<clock, limit>>

\* A call that counts is let through; one that does not count always is.
Let(c) ==
    /\ limit.on => MayCall(c)
    /\ calls' = [calls EXCEPT ![c] = [s \in Times |-> IF s <= clock THEN @[s] + 1 ELSE @[s]]]
    /\ Answer(c, "pass")
LetUncounted(c) ==
    /\ UNCHANGED calls
    /\ Answer(c, "pass")

Refuse(c) ==
    /\ limit.on
    /\ ~MayCall(c)
    /\ UNCHANGED calls
    /\ Answer(c, "429")

\* The client cannot be told from others.
Fail(c) ==
    /\ limit.on
    /\ UNCHANGED calls
    /\ Answer(c, "500")

Pass ==
    /\ clock' = clock + 1
    /\ UNCHANGED <<limit, calls, answer>>

Next ==
    \/ \E c \in Clients : Let(c) \/ LetUncounted(c) \/ Refuse(c) \/ Fail(c)
    \/ Pass

Spec == Init /\ [][Next]_budget
=============================================================================
