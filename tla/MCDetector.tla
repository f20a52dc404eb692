------------------------------ MODULE MCDetector ------------------------------
(* Instances of Detector: an electorate of three, and one observer outside.  *)
EXTENDS Detector

CONSTANTS a, b, c, x

=============================================================================
