-------------------------- MODULE MCCommandHandler --------------------------
(* CommandHandler with interchangeable paths.                              *)
EXTENDS CommandHandler, TLC

PathSymmetry == Permutations(Paths)
=============================================================================
