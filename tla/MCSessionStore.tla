--------------------------- MODULE MCSessionStore ---------------------------
(* The instance of SessionStore for TLC; its constants are in the .cfg files. *)
EXTENDS SessionStore

=============================================================================
