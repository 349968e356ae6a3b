---------------------------- MODULE MCAutomation ----------------------------
(* An instance of Automation for TLC. *)
EXTENDS Automation

\* Two minutes and then none for a long time, as an expression for February 29 has.
FiresAt == [c \in Crons |-> {1, 2, 40}]
=============================================================================
