-------------------------------- MODULE Calls --------------------------------
(***************************************************************************)
(* What every component's calls share.                                     *)
(***************************************************************************)

CONSTANTS
    Requests,   \* requests in flight at the same time
    None        \* SQL NULL, no row
=============================================================================
