---------------------------- MODULE MCSlackReply ----------------------------
(* Small instances of SlackReply for TLC. *)
EXTENDS SlackReply, TLC

\* Workers differ in nothing but their name.
WorkerSymmetry == Permutations(Workers)
=============================================================================
