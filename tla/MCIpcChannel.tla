---------------------------- MODULE MCIpcChannel ----------------------------
(* IpcChannel for TLC.                                                     *)
EXTENDS IpcChannel, TLC

\* Callers are interchangeable; used only where no liveness is checked.
Symmetry == Permutations(Callers)
=============================================================================
