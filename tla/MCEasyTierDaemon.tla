-------------------------- MODULE MCEasyTierDaemon --------------------------
(* EasyTierDaemon for TLC: two spaces, two overlapping handlers, and a     *)
(* patch of three fields: one that is applied, one that is saved and not   *)
(* sent to the core, and one that is passed over.                          *)
EXTENDS EasyTierDaemon, FiniteSets, TLC

\* Spaces and handlers are interchangeable; the checks are safety checks.
Symmetry == Permutations(Spaces) \cup Permutations(Handlers)

\* No action reads connected_spaces, so it does not distinguish states.
View == <<core, inst, toml, json, pc, req, excuse>>

\* Histories with more than MaxAnomalies anomalies since the last undisturbed
\* clear are checked and not continued; an overlap, which always comes with
\* "torn", is one.
MaxAnomalies == 1
Anomalies == IF "overlap" \in excuse THEN excuse \ {"torn"} ELSE excuse
FewAnomalies == Cardinality(Anomalies) <= MaxAnomalies
=============================================================================
