--------------------------- MODULE MCAuthService ----------------------------
(***************************************************************************)
(* Small instances of AuthService for TLC.                                 *)
(***************************************************************************)
EXTENDS AuthService, TLC

CONSTANTS u1, u2, r1, r2, r3, r4, r5

\* u1 has logged in once, or twice, before the model starts; or nobody has.
PriorNone == [r \in Requests |-> None]
PriorOne == [r \in Requests |-> IF r = r1 THEN u1 ELSE None]
PriorTwo == [r \in Requests |-> IF r \in {r1, r2} THEN u1 ELSE None]

\* Requests that are yet to come are interchangeable.
SymNone == Permutations(Requests)
SymOne == Permutations(Requests \ {r1})
SymTwo == Permutations(Requests \ {r1, r2})
=============================================================================
