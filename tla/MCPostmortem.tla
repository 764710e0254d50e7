---------------------------- MODULE MCPostmortem ----------------------------
(* Small instances of Postmortem for TLC. *)
EXTENDS Postmortem, TLC

\* A correction of the cause cites what is known, one of the title nothing.
MCCited == [c \in Corrections |-> IF c = "cause" THEN Facts ELSE {}]

OperatorSymmetry == Permutations(Editors)
=============================================================================
