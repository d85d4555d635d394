----------------------------- MODULE RunVerdict -----------------------------
(***************************************************************************)
(* What an agent run promises (services/run_finality.py): it is begun, it   *)
(* gets one verdict, and that verdict stands; it is announced at most once  *)
(* (the AgentRunCompleted event), with the verdict that stands, never       *)
(* before it.  Who settles the run, and how they race, is RunLifecycle.     *)
(***************************************************************************)
EXTENDS Sequences

CONSTANT Runs

VARIABLES
    verdict,    \* of each run: none before it begins, running until settled
    announced   \* the completion events of each run, oldest first

vars == <<verdict, announced>>

Verdicts == {"succeeded", "failed", "cancelled"}

Init ==
    /\ verdict = [r \in Runs |-> "none"]
    /\ announced = [r \in Runs |-> <<>>]

Begin(r) ==
    /\ verdict[r] = "none"
    /\ verdict' = [verdict EXCEPT ![r] = "running"]
    /\ UNCHANGED announced

Settle(r) ==
    /\ verdict[r] = "running"
    /\ \E v \in Verdicts : verdict' = [verdict EXCEPT ![r] = v]
    /\ UNCHANGED announced

Announce(r) ==
    /\ verdict[r] \in Verdicts
    /\ announced[r] = <<>>
    /\ announced' = [announced EXCEPT ![r] = <<verdict[r]>>]
    /\ UNCHANGED verdict

Next == \E r \in Runs : Begin(r) \/ Settle(r) \/ Announce(r)

(* Safety alone, and with the promise that a run that began is settled.     *)
Safe == Init /\ [][Next]_vars

Settled == \A r \in Runs : []<>(verdict[r] # "running")

Spec == Safe /\ Settled
=============================================================================
