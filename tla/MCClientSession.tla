--------------------------- MODULE MCClientSession ---------------------------
(* Instances of ClientSession for TLC. *)
EXTENDS ClientSession, TLC

CONSTANTS ask, order, answer1, answer2, answer3

\* Two results answer a command sent to everyone, a third one another command.
TwoCommands == answer1 :> ask @@ answer2 :> ask @@ answer3 :> order

=============================================================================
