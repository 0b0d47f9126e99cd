---------------------------- MODULE MCKafkaTrigger ----------------------------
(* Constants for KafkaTrigger.                                               *)
EXTENDS KafkaTrigger

CONSTANTS podA, podB, run1, Foreign

TwoPods   == {podA, podB}
OneRun    == {run1}
AllStrays == {Foreign, Scalar}
=============================================================================
