--------------------------- MODULE MCRunLifecycle ---------------------------
(* Small instances of RunLifecycle for TLC.                                *)
EXTENDS RunLifecycle, TLC

CONSTANTS r1, r2, q1, q2, i1, i2, n1

\* Two requests under ids of their own, so that both can be parked at once.
DistinctKeys == [q \in Requests |-> IF q = q1 THEN i1 ELSE i2]

\* Runs are interchangeable; requests are not once Key tells them apart.
RunSymmetry == Permutations(Runs)
=============================================================================
