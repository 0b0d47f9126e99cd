---------------------------- MODULE MCSelfService ----------------------------
(* Constants for SelfService.                                                *)
EXTENDS SelfService, TLC

CONSTANTS p1, p2, n1, n2, r1, r2, r3

OneProduct    == {p1}
TwoProducts   == {p1, p2}
OneName       == {n1}
TwoNames      == {n1, n2}
OneRequest    == {r1}
TwoRequests   == {r1, r2}
ThreeRequests == {r1, r2, r3}

\* Threads of the pool are interchangeable.
SomeThread == Permutations(Requests)
=============================================================================
