--------------------------- MODULE MCSpaceSession ---------------------------
(* SpaceSession for TLC: one space that every pair of commands may meet at, *)
(* with the kind of server that two owners start and one other kind.        *)
EXTENDS SpaceSession, TLC

CONSTANT A
MCMay == A :> OpNames
MCResidue == A :> 900
=============================================================================
