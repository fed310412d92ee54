--------------------------- MODULE MCCalibrationRun ---------------------------
(* Two cases tried in up to two documents, with one fault. *)
EXTENDS CalibrationRun
=============================================================================
