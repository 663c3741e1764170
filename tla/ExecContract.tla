---------------------------- MODULE ExecContract ----------------------------
(* What HostControlService promises its callers: it admits a run only while  *)
(* fewer than MaxConcurrentExecs are admitted, reports at most one outcome   *)
(* per run, and gives the slot back once the run is reported.                *)
EXTENDS Naturals, FiniteSets

CONSTANTS Execs, MaxConcurrentExecs, Outcomes, NoOutcome

VARIABLES state,    \* each run is "unused", "active" or "done"
          outcome   \* the outcome reported for it, or NoOutcome

vars == <<state, outcome>>

Active == {e \in Execs : state[e] = "active"}

Init ==
    /\ state = [e \in Execs |-> "unused"]
    /\ outcome = [e \in Execs |-> NoOutcome]

Admit(e) ==
    /\ state[e] = "unused"
    /\ Cardinality(Active) < MaxConcurrentExecs
    /\ state' = [state EXCEPT ![e] = "active"]
    /\ UNCHANGED outcome

\* The run never starts: its handle fails and nothing is reported.
Refuse(e) ==
    /\ state[e] = "unused"
    /\ state' = [state EXCEPT ![e] = "done"]
    /\ UNCHANGED outcome

Report(e) ==
    /\ state[e] = "active"
    /\ outcome[e] = NoOutcome
    /\ \E o \in Outcomes : outcome' = [outcome EXCEPT ![e] = o]
    /\ \/ UNCHANGED state
       \/ state' = [state EXCEPT ![e] = "done"]

Release(e) ==
    /\ state[e] = "active"
    /\ outcome[e] # NoOutcome
    /\ state' = [state EXCEPT ![e] = "done"]
    /\ UNCHANGED outcome

Next == \E e \in Execs : Admit(e) \/ Refuse(e) \/ Report(e) \/ Release(e)

Safety == Init /\ [][Next]_vars

\* Every admitted run is reported and released.
FairSpec == Safety /\ \A e \in Execs : WF_vars(Report(e)) /\ WF_vars(Release(e))
=============================================================================
