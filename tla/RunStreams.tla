----------------------------- MODULE RunStreams -----------------------------
(***************************************************************************)
(* What a session's runs look like to its clients: a run's stream goes     *)
(* from unborn to live to closed and never back, and at any time at most   *)
(* one run is attached, which is live.  Only the attached run can be       *)
(* closed.  A live run that another one detaches stays live for good: its  *)
(* client has to give up on it, and RunLifecycle says which clients never  *)
(* get there.                                                              *)
(***************************************************************************)
CONSTANTS Runs, Nil

VARIABLES
    phase,      \* where each run's stream is in its life
    attached    \* the run whose stream the agent's turn is shown on

streamVars == <<phase, attached>>

Init ==
    /\ phase = [r \in Runs |-> "unborn"]
    /\ attached = Nil

\* A new run takes over, whatever was attached.
Attach(r) ==
    /\ phase[r] = "unborn"
    /\ phase' = [phase EXCEPT ![r] = "live"]
    /\ attached' = r

\* The attached run finishes, fails or is suspended by an interrupt.
Close ==
    /\ attached # Nil
    /\ phase[attached] = "live"
    /\ phase' = [phase EXCEPT ![attached] = "closed"]
    /\ attached' = Nil

Next == Close \/ \E r \in Runs : Attach(r)

Spec == Init /\ [][Next]_streamVars
=============================================================================
