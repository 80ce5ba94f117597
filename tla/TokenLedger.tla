---------------------------- MODULE TokenLedger -----------------------------
(***************************************************************************)
(* What a table of one-shot tokens promises, whatever it is used for.  A   *)
(* token is issued once to one user and is spent for good; a request is    *)
(* admitted on the strength of a token only while the token is live and    *)
(* has not run out.  AuthService implements this three times: with         *)
(* refresh_tokens, password_reset_tokens and email_verification_tokens.    *)
(***************************************************************************)
EXTENDS Integers

CONSTANTS Tokens, Users, Bearers

VARIABLES
    clock,     \* the time
    rows,      \* rows[t]: state, user and expires_at of token t
    bearers    \* bearers[t]: requests admitted with t that have not failed

ledger == <<clock, rows, bearers>>

Init ==
    /\ clock = 0
    /\ \A t \in Tokens : rows[t].state \in {"none", "live"}
    /\ bearers = [t \in Tokens |-> {}]

\* Token t is issued to user u, with whatever expiry.
Issue(t, u) ==
    /\ rows[t].state = "none"
    /\ rows' = [rows EXCEPT ![t] = rows'[t]]
    /\ rows'[t].state = "live"
    /\ rows'[t].user = u
    /\ UNCHANGED <<clock, bearers>>

\* Request b is admitted with token t.
Admit(b, t) ==
    /\ rows[t].state = "live"
    /\ rows[t].expires_at >= clock
    /\ bearers' = [bearers EXCEPT ![t] = @ \cup {b}]
    /\ UNCHANGED <<clock, rows>>

\* Request b, admitted with t, fails.
Release(b, t) ==
    /\ bearers' = [bearers EXCEPT ![t] = @ \ {b}]
    /\ UNCHANGED <<clock, rows>>

\* The live tokens in S are spent: one by its bearer, or all of a user's.
Spend(S) ==
    /\ rows' = [t \in Tokens |-> IF t \in S /\ rows[t].state = "live"
                                 THEN [rows[t] EXCEPT !.state = "spent"] ELSE rows[t]]
    /\ UNCHANGED <<clock, bearers>>

Pass ==
    /\ clock' = clock + 1
    /\ UNCHANGED <<rows, bearers>>

Next ==
    \/ \E t \in Tokens, u \in Users : Issue(t, u)
    \/ \E t \in Tokens, b \in Bearers : Admit(b, t) \/ Release(b, t)
    \/ \E S \in SUBSET Tokens : Spend(S)
    \/ Pass

Spec == Init /\ [][Next]_ledger
=============================================================================
