---------------------------- MODULE MCScoredRun ----------------------------
(* Two cases, so that a run has a case that is not its last.                *)
EXTENDS ScoredRun
=============================================================================
