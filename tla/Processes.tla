----------------------------- MODULE Processes -----------------------------
(***************************************************************************)
(* What Identity and Discovery, the two halves of cmd/mac, both speak of.  *)
(***************************************************************************)
CONSTANTS
    Process,    \* processes that run the program
    Key,        \* keys that may be generated
    None

ASSUME NoneAssumption == None \notin Key
=============================================================================
