----------------------------- MODULE MCAgentRun -----------------------------
(* Instances of AgentRun for TLC. *)
EXTENDS AgentRun

CONSTANTS u1, u2, u3

\* A single run, for the configurations that exercise every step of it.
OneRun == <<u1>>

\* Two runs of one account, which may never be served together.
OneAccount == <<u1, u1>>

\* Three accounts competing for the slots.
ThreeAccounts == <<u1, u2, u3>>
=============================================================================
