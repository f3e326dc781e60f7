---------------------------- MODULE MCFileTransfer ----------------------------
(* Instances of FileTransfer for TLC: alice sends, bob and carol receive. *)
EXTENDS FileTransfer

CONSTANTS alice, bob, carol

=============================================================================
