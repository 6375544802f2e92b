-------------------------- MODULE MCDeviceRegistry --------------------------
(* DeviceRegistry with the values of its constants left to the cfg.        *)
EXTENDS DeviceRegistry, TLC

Symmetry == Permutations(Ids) \cup Permutations(CapIds) \cup Permutations(Targets)
============================================================================
