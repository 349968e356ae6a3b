----------------------------- MODULE MCRunEvents -----------------------------
(* An instance of RunEvents for TLC. *)
EXTENDS RunEvents

CONSTANT u1

OneRun == <<u1>>
=============================================================================
