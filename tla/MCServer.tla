------------------------------ MODULE MCServer ------------------------------
(* TLC instance of Server: two characters, one of them a member of staff.   *)
EXTENDS Server
=============================================================================
