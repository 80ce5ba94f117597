--------------------------- MODULE MCAccessControl ---------------------------
(***************************************************************************)
(* Small instances of AccessControl for TLC.                               *)
(***************************************************************************)
EXTENDS AccessControl, MCAuthService

CONSTANT v1
=============================================================================
