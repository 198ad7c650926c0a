------------------------------- MODULE Callers -------------------------------
(***************************************************************************)
(* The accounts whose calls a component serves.                            *)
(***************************************************************************)
EXTENDS Calls

CONSTANTS
    Users,      \* users rows
    Managers    \* users holding evaluation_groups:manage
=============================================================================
