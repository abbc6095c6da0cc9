-------------------------- MODULE MCSessionManager --------------------------
(* Small instances of SessionManager for TLC.                              *)
EXTENDS SessionManager, TLC

CONSTANTS t1, t2, t3, s1, s2

\* Requests are interchangeable, and so are the ids the agent gives out.
ManagerSymmetry == Permutations(Tasks) \cup Permutations(Sessions)
=============================================================================
