--------------------------- MODULE MCInvestigation ---------------------------
(* Small instances of Investigation. *)
EXTENDS Investigation, TLC

WorkerSymmetry == Permutations(Workers)
=============================================================================
