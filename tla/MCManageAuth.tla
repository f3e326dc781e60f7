---------------------------- MODULE MCManageAuth ----------------------------
(* The instance of ManageAuth for TLC; its constants are in the .cfg file. *)
EXTENDS ManageAuth

=============================================================================
