--------------------------- MODULE MCFirstContact ---------------------------
(***************************************************************************)
(* Instances of FirstContact for TLC: Sender is a function, which a .cfg   *)
(* cannot write down, and messages of one sender are interchangeable.      *)
(***************************************************************************)
EXTENDS FirstContact, TLC

CONSTANTS m1, m2, m3, s1

\* Every message is from the same sender.
OneSender == [m \in Messages |-> s1]

MessageSymmetry == Permutations(Messages)
=============================================================================
