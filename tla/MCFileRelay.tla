----------------------------- MODULE MCFileRelay -----------------------------
(* Instances of FileRelay for TLC. *)
EXTENDS FileRelay, TLC

CONSTANTS alice, bob, carol, fileA

\* Every client has a name of its own, written like its first socket.
DistinctNames == [c \in Conns |-> c]

\* Alice is the sender.
SentByAlice == [f \in Files |-> alice]

\* Two receivers with names of their own are interchangeable.
ReceiverSymmetry == Permutations({bob, carol})

=============================================================================
