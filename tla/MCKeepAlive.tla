---------------------------- MODULE MCKeepAlive ----------------------------
(* KeepAliveSessions with the values of its constants left to the cfg.     *)
EXTENDS KeepAliveSessions, TLC

FdSymmetry == Permutations(Fds)
============================================================================
