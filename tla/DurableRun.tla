----------------------------- MODULE DurableRun -----------------------------
(***************************************************************************)
(* What the durable WorkSpaces queue promises, without the daemon: a run   *)
(* is queued, served, handed back, parked for an approval, done, failed or *)
(* stopped, and a tool call whose result was never recorded is "lost" for  *)
(* good: the run may be served again only to fail or to be stopped; it     *)
(* never calls a tool again and never passes for answered.                 *)
(***************************************************************************)
CONSTANTS
    Runs,   \* run identifiers
    Owner   \* Owner[r]: the account that queued r

VARIABLES
    phase,  \* phase[r]: where the run stands, as every client is told
    call    \* call[r]: the tool call that has left and is not yet recorded

vars == <<phase, call>>

Phases == {"absent", "queued", "running", "parked", "done", "failed",
           "stopped"}
Calls  == {"none", "held", "lost"}

TypeOK ==
    /\ phase \in [Runs -> Phases]
    /\ call \in [Runs -> Calls]

Init ==
    /\ phase = [r \in Runs |-> "absent"]
    /\ call = [r \in Runs |-> "none"]

Move(r, from, to) ==
    /\ phase[r] \in from
    /\ phase' = [phase EXCEPT ![r] = to]

Submit(r) == Move(r, {"absent"}, "queued") /\ UNCHANGED call

\* One run of an account is served at a time.
Start(r) ==
    /\ Move(r, {"queued"}, "running")
    /\ \A s \in Runs \ {r} : phase[s] = "running" => Owner[s] # Owner[r]
    /\ UNCHANGED call

\* One retry, or every row a sweep found abandoned.
GiveBack(S) ==
    /\ \A r \in S : phase[r] = "running" /\ call[r] # "held"
    /\ phase' = [r \in Runs |-> IF r \in S THEN "queued" ELSE phase[r]]
    /\ UNCHANGED call

\* A run that succeeds, or waits for the user, owes no answer to any call.
Answered(r) == call[r] = "none"

Park(r) == Answered(r) /\ Move(r, {"running"}, "parked") /\ UNCHANGED call

Finish(r) == Answered(r) /\ Move(r, {"running"}, "done") /\ UNCHANGED call

Fail(r) ==
    /\ Move(r, {"running"}, "failed")
    /\ call[r] # "held"
    /\ UNCHANGED call

Stop(r) == Move(r, {"queued", "running", "parked"}, "stopped") /\ UNCHANGED call

\* A stop may cross a call that is on its way out, hence "stopped" here.
Open(r) ==
    /\ phase[r] \in {"running", "stopped"}
    /\ call[r] = "none"
    /\ call' = [call EXCEPT ![r] = "held"]
    /\ UNCHANGED phase

Settle(r) ==
    /\ call[r] = "held"
    /\ call' = [call EXCEPT ![r] = "none"]
    /\ UNCHANGED phase

\* The process that held the calls of S is gone, or gave up on them.
Lose(S) ==
    /\ \A r \in S : call[r] = "held"
    /\ call' = [r \in Runs |-> IF r \in S THEN "lost" ELSE call[r]]
    /\ UNCHANGED phase

Next ==
    \/ \E r \in Runs :
          \/ Submit(r) \/ Start(r) \/ Park(r) \/ Finish(r) \/ Fail(r) \/ Stop(r)
          \/ Open(r) \/ Settle(r)
    \/ \E S \in SUBSET Runs : GiveBack(S) \/ Lose(S)

Spec == Init /\ [][Next]_vars
=============================================================================
