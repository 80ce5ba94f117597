---------------------------- MODULE MCDeployment ----------------------------
(***************************************************************************)
(* Small instances of Deployment for TLC.                                  *)
(***************************************************************************)
EXTENDS Deployment, TLC

CONSTANTS a1, a2, d1, d2, p1, p2, t1, k1, k2, short

\* An environment with this secret, issuer, audience and nothing else.
Env(secret, issuer, audience) ==
    [JWT_SECRET |-> secret, JWT_ACCESS_EXPIRATION |-> Unset, JWT_REFRESH_EXPIRATION |-> Unset,
     JWT_ISSUER |-> issuer, JWT_AUDIENCE |-> audience, MIN_PASSWORD_LENGTH |-> Unset]

\* One secret with two issuers, another one with another audience, and one that is too
\* short.  (No secret at all ends a call in the same place, with a panic.)
FewEnvironments ==
    {Env(k1, Unset, Unset), Env(k1, "site", Unset), Env(k2, Unset, "host"),
     Env(short, Unset, Unset)}

Symmetry == Permutations(Activations) \cup Permutations(Deactivations) \cup Permutations(Pools)
=============================================================================
