--------------------------- MODULE MCSessionState ---------------------------
(* Small instances of SessionState for TLC.                                *)
EXTENDS SessionState

CONSTANTS mode, opt, hidden, plan, usage, v1, v2

\* Values of different settings are never compared, so that any one may be
\* called v1 to begin with.
MCInit == Init /\ \A s \in Settings : agent[s] = v1

MCSpec == MCInit /\ [][Next]_vars /\ Fairness
=============================================================================
