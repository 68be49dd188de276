--------------------------- MODULE MCCallSession ---------------------------
(***************************************************************************)
(* Instances of CallSession for TLC: UserOf is a function, which a .cfg    *)
(* cannot write down.                                                      *)
(***************************************************************************)
EXTENDS CallSession

CONSTANTS c1, c2, u1

\* Every call is a call with the same user.
SameUserOf == [c \in Calls |-> u1]
============================================================================
