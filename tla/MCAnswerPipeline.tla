--------------------------- MODULE MCAnswerPipeline ---------------------------
(* Values for TLC.  The answers are alike, and so are the clients.           *)
EXTENDS AnswerPipeline, TLC

Symmetry == Permutations(Answers) \cup Permutations(Clients)
=============================================================================
