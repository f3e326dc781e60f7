------------------------------ MODULE MCFileSend ------------------------------
(* Instances of FileSend for TLC: alice sends, bob and carol receive. *)
EXTENDS FileSend

CONSTANTS alice, bob, carol

=============================================================================
