--------------------------- MODULE MCRateLimiter ----------------------------
(***************************************************************************)
(* Small instances of RateLimiter for TLC.                                 *)
(***************************************************************************)
EXTENDS RateLimiter, TLC

CONSTANTS c1, c2

\* Rates around the rounding of 60000 / rate, as the library's caller may give them.
ExplicitConfigs ==
    LET Limit(r, b) == [per_minute |-> r, burst |-> b, disabled |-> FALSE] IN
    {Limit(r, b) : r \in {0, 17000, 30000, 40000, 60000, 70000}, b \in {0, 2}}
        \cup {Limit(30000, 1)}

SymClients == Permutations(Clients)
=============================================================================
