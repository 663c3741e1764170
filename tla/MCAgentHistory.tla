--------------------------- MODULE MCAgentHistory ---------------------------
(* AgentHistory with one execute request beside session_exec requests.       *)
EXTENDS AgentHistory, TLC

CONSTANTS e1, j1

MCJobOf == e1 :> j1

ASSUME UniqueJobs
=============================================================================
