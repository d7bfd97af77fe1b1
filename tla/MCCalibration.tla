---------------------------- MODULE MCCalibration ----------------------------
(* Instances of CmididCalibration: the velocity curves over stroke times. *)
EXTENDS CmididCalibration

(* Strokes around the default minimum, inside the span and beyond it. *)
MCStrokeTimes == {0, 1, 3, 4, 5, 9, 20, 21, 133, 260, 261, 300}

(* The code's curves at times of the default magnitude. *)
MCRealTimes == {500, 1000, 1001, 2000, 3000, 4099, 4100, 9000}

=============================================================================
