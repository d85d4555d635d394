---------------------------- MODULE RunLifecycle ----------------------------
(***************************************************************************)
(* The life of the agent runs of one workflow stage: the thread that        *)
(* supervises a run (services/run_lease.py, agents/executors/cli.py and     *)
(* print_mode.py), the one way a run is settled (orchestration.complete_run, *)
(* run_finality.py, run_completion.py), the thread that adopts a run whose  *)
(* agent outlived the server (run_reattach.py, run_resupervise.py), the     *)
(* boot and the reconcile pass that settle what nobody supervises           *)
(* (run_service.py, main.py), a stop (run_cancellation.py) and the          *)
(* orchestration that drives the stage (builtin_orchestrator.py,            *)
(* orchestration_callbacks.py).                                             *)
(*                                                                         *)
(* An action is one committed transaction, one `ps', or one step of an      *)
(* agent process; whatever lies between two of them may interleave.         *)
(* The agents ask nothing (print mode): an interactive run, and what its    *)
(* questions make of its status, is PermissionBridge.                       *)
(***************************************************************************)
EXTENDS Naturals, FiniteSets, Sequences

CONSTANTS
    Runs,      \* ids of agent_runs rows, in the order they are created
    Budgets    \* bound: how often each trouble may happen, one or more scenarios

(* start: the stage is dispatched from the board; drive: an orchestration   *)
(* is started; retry: a failure is judged transient; crash: the server      *)
(* dies; drain: it stops taking work; mute: `ps' does not answer; missed: a *)
(* live renewer misses the lease; cancel: an operator stops a run; over:    *)
(* the orchestration is ended from outside; raise: a completion raises.     *)
Events == {"start", "drive", "retry", "crash", "drain", "mute", "missed", "cancel", "over",
           "raise"}

ASSUME RunsAssumption ==
    /\ Runs \subseteq Nat \ {0}
    /\ Budgets \subseteq [Events -> Nat]

VARIABLES
    run,        \* the table agent_runs
    completed,  \* the AgentRunCompleted events of each run
    stage,      \* the status of the stage
    orch,       \* the orchestration that drives it
    agent,      \* the agent process of each run, outside the server
    th,         \* each thread: program counter and locals
    server,     \* up, draining, booting or down
    left        \* what remains of the budget

vars == <<run, completed, stage, orch, agent, th, server, left>>

Verdicts == {"succeeded", "failed", "cancelled"}

Stage == {"pending", "running", "done", "blocked"}

(* working: alive; passed, failed: it left exit code 0, or not.             *)
Agent == {"none", "working", "passed", "failed"}

(* pid: its identity is recorded; fresh: the lease holds; finished: the row *)
(* has finished_at; cancel: cancel_requested_at; driven: it has a parent    *)
(* orchestration.  AWAITING_PERMISSION counts as running.                   *)
Row == [status : {"none", "running"} \cup Verdicts, pid : BOOLEAN, fresh : BOOLEAN,
        finished : BOOLEAN, cancel : BOOLEAN, driven : BOOLEAN]

NoRow == [status |-> "none", pid |-> FALSE, fresh |-> FALSE, finished |-> FALSE,
          cancel |-> FALSE, driven |-> FALSE]

(* A supervisor and a resupervisor for each run, a thread of the web        *)
(* server, the reconcile timer, and the boot.                               *)
Thread == ({"sup", "res"} \X Runs) \cup ({"web", "sweep", "boot"} \X {0})
sup(r) == <<"sup", r>>
res(r) == <<"res", r>>
web    == <<"web", 0>>
sweep  == <<"sweep", 0>>
boot   == <<"boot", 0>>

Settling == {"claim", "tail", "route", "announce"}

Pc == {"idle", "reap", "mark", "insert", "wait", "check", "spawn", "record", "watch", "after",
       "follow", "seize", "signal", "children", "expired", "orphaned", "leases", "stranded",
       "block", "reattach", "interrupted", "parents"} \cup Settling

(* What was read of a process before its run is failed: none, because the   *)
(* row names none or nobody asks; what `ps' answered; or nothing, because   *)
(* `ps' was silent, while the lease was renewed or after it had lapsed.     *)
Saw == {"none", "answered", "silent", "lapsed"}

(* Who calls complete_run, and then goes on.                                *)
Callers == {"idle", "reap", "after", "children", "expired", "orphaned", "interrupted"}

(* run, verdict, adv: the arguments of complete_run; back: where it returns *)
(* to; todo: the rows a loop still has to visit; saw: history, what was     *)
(* read of the row that a reaper is about to fail.                          *)
Local == [pc : Pc, run : Runs \cup {0}, verdict : Verdicts \cup {"none"}, adv : BOOLEAN,
          saw : Saw, todo : SUBSET Runs, back : Callers]

Idle == [pc |-> "idle", run |-> 0, verdict |-> "none", adv |-> FALSE, saw |-> "none",
         todo |-> {}, back |-> "idle"]

-----------------------------------------------------------------------------
(* Reading the rows.                                                        *)

InFlight == {r \in Runs : run[r].status = "running"}

Driven == {r \in InFlight : run[r].driven}

Unanswered == IF left["mute"] > 0 THEN BOOLEAN ELSE {FALSE}

(* Mutant: a `ps' that could not answer reads as a death.                   *)
liveness_Guess(r, mute) ==
    IF run[r].pid /\ ~mute /\ agent[r] = "working" THEN "alive" ELSE "gone"

(* What the recorded identity says about the process, given whether `ps'    *)
(* answered: without an identity nothing can vouch for it.                  *)
liveness(r, mute) ==
    IF ~run[r].pid THEN "gone"
    ELSE IF mute THEN "unknown"
    ELSE IF agent[r] = "working" THEN "alive" ELSE "gone"

(* What a reaper that asks has read.                                        *)
Seen(r, mute) ==
    IF ~run[r].pid THEN "none"
    ELSE IF ~mute THEN "answered" ELSE IF run[r].fresh THEN "silent" ELSE "lapsed"

(* Something in this server is renewing the lease of r: its supervisor from *)
(* before the capacity wait until it has settled, its resupervisor while it *)
(* follows the process.                                                     *)
Renewed(r) ==
    \/ th[sup(r)].pc \notin {"idle", "reap", "mark", "insert", "after"}
    \/ th[res(r)].pc = "follow"

Spend(e) == left[e] > 0 /\ left' = [left EXCEPT ![e] = @ - 1]

Asked(mute) == left' = IF mute THEN [left EXCEPT !["mute"] = @ - 1] ELSE left

Serving == server \in {"up", "draining"}

-----------------------------------------------------------------------------
(* Calling complete_run: the thread's next local state.                     *)

Goto(t, pc) == th' = [th EXCEPT ![t].pc = pc]

Complete(t, r, v, adv, saw, back) ==
    [th[t] EXCEPT !.pc = "claim", !.run = r, !.verdict = v, !.adv = adv, !.saw = saw,
                  !.back = back]

(* A loop takes a row: it passes over it, or fails its run.                  *)
Skip(t, r) == [th[t] EXCEPT !.todo = @ \ {r}]

Fail(t, r, adv, saw, back) ==
    [Complete(t, r, "failed", adv, saw, back) EXCEPT !.todo = th[t].todo \ {r}]

Return(t) ==
    IF th[t].back = "idle" THEN Idle
    ELSE [Idle EXCEPT !.pc = th[t].back, !.todo = th[t].todo,
                      !.back = IF t = boot THEN th[t].back ELSE "idle"]

(* Mutant: read, then write whatever status was handed in.                  *)
claim_completion_Blind(t) ==
    /\ th[t].pc = "claim"
    /\ run' = [run EXCEPT ![th[t].run].status = th[t].verdict, ![th[t].run].finished = TRUE]
    /\ Goto(t, "tail")
    /\ UNCHANGED <<completed, stage, orch, agent, server, left>>

(* One UPDATE guarded on the in-flight statuses, and the rest of the row in *)
(* the same transaction: whoever matches the row goes on to the tail.       *)
claim_completion(t) ==
    /\ th[t].pc = "claim"
    /\ LET r == th[t].run IN
         IF run[r].status = "running"
         THEN /\ run' = [run EXCEPT ![r].status = th[t].verdict, ![r].finished = TRUE]
              /\ Goto(t, "tail")
         ELSE /\ th' = [th EXCEPT ![t] = Return(t)]
              /\ UNCHANGED run
    /\ UNCHANGED <<completed, stage, orch, agent, server, left>>

FINISHED == {"done", "blocked"}

(* The tail reads the stage, and leaves one alone that was settled while a  *)
(* verdict was on its way; a run that died goes on, whatever the stage.     *)
_stop_if_already_settled(t) ==
    /\ th[t].pc = "tail"
    /\ Goto(t, IF ~th[t].adv \/ (th[t].verdict = "succeeded" /\ stage \in FINISHED)
               THEN "announce" ELSE "route")
    /\ UNCHANGED <<run, completed, stage, orch, agent, server, left>>

(* Where the stage goes: a success passes its gates or is held by one, a    *)
(* failure judged transient re-arms it.                                     *)
advance_stage_after_run(t) ==
    /\ th[t].pc = "route"
    /\ \/ th[t].verdict = "succeeded" /\ stage' \in {"done", "blocked"} /\ UNCHANGED left
       \/ th[t].verdict = "cancelled" /\ stage' = "pending" /\ UNCHANGED left
       \/ th[t].verdict = "failed" /\ stage' = "blocked" /\ UNCHANGED left
       \/ th[t].verdict = "failed" /\ Spend("retry") /\ stage' = "pending"
    /\ Goto(t, "announce")
    /\ UNCHANGED <<run, completed, orch, agent, server>>

(* The completion event, and the end of the tail.                           *)
complete_run_tail(t) ==
    /\ th[t].pc = "announce"
    /\ completed' = [completed EXCEPT ![th[t].run] = Append(@, th[t].verdict)]
    /\ th' = [th EXCEPT ![t] = Return(t)]
    /\ UNCHANGED <<run, stage, orch, agent, server, left>>

(* The tail raised: the stage is blocked, unless the ticket cannot be read  *)
(* at all.                                                                  *)
settle_stage_after_failed_completion(t) ==
    /\ th[t].pc \in {"tail", "route", "announce"}
    /\ Spend("raise")
    /\ stage' \in {"blocked", stage}
    /\ th' = [th EXCEPT ![t] = Return(t)]
    /\ UNCHANGED <<run, completed, orch, agent, server>>

Settle(t) ==
    \/ claim_completion(t)
    \/ _stop_if_already_settled(t)
    \/ advance_stage_after_run(t)
    \/ complete_run_tail(t)
    \/ settle_stage_after_failed_completion(t)

-----------------------------------------------------------------------------
(* Dispatching the stage, and supervising the run it creates.               *)

Unused(r) == run[r].status = "none" /\ th[sup(r)] = Idle

Next_id(r) == Unused(r) /\ \A q \in Runs : q < r => ~Unused(q)

(* The board's start: every run in flight on the stage is superseded first. *)
start_run_async(r) ==
    /\ Serving /\ Next_id(r) /\ Spend("start")
    /\ th' = [th EXCEPT ![sup(r)] = [Idle EXCEPT !.pc = "reap", !.run = r, !.todo = InFlight]]
    /\ UNCHANGED <<run, completed, stage, orch, agent, server>>

(* The ticket-scoped fail_interrupted_runs spares nobody.                   *)
Supersede(r) ==
    LET t == sup(r) IN
    /\ th[t].pc = "reap"
    /\ IF th[t].todo = {}
       THEN th' = [th EXCEPT ![t] = [Idle EXCEPT !.pc = "mark"]]
       ELSE \E q \in th[t].todo :
              th' = [th EXCEPT ![t] = Fail(t, q, TRUE, "none", "reap")]
    /\ UNCHANGED <<run, completed, stage, orch, agent, server, left>>

(* An orchestration is claimed and its driver reaches the stage.            *)
start_orchestration_run(r) ==
    /\ server = "up" /\ Next_id(r) /\ Spend("drive")
    /\ orch = "none" /\ stage \in {"pending", "blocked"}
    /\ orch' = "live"
    /\ th' = [th EXCEPT ![sup(r)] = [Idle EXCEPT !.pc = "mark", !.adv = TRUE]]
    /\ UNCHANGED <<run, completed, stage, agent, server>>

(* The first commit of start_run: the stage reads running.  A driver whose  *)
(* orchestration is over is refused, and blocks the ticket.  (adv marks a   *)
(* driver until its row exists.)                                            *)
Mark(r) ==
    LET t == sup(r) IN
    /\ th[t].pc = "mark"
    /\ IF th[t].adv /\ orch # "live"
       THEN stage' = "blocked" /\ Goto(t, "children")
       ELSE stage' = "running" /\ Goto(t, "insert")
    /\ UNCHANGED <<run, completed, orch, agent, server, left>>

(* The second: the run's row.  A drain refuses the thread of a run started  *)
(* from the board, whose row stands.                                        *)
Insert(r) ==
    LET t == sup(r) IN
    /\ th[t].pc = "insert"
    /\ run' = [run EXCEPT ![r] = [NoRow EXCEPT !.status = "running", !.fresh = TRUE,
                                               !.driven = th[t].adv]]
    /\ th' = [th EXCEPT ![t] = IF server = "draining" /\ ~th[t].adv THEN Idle
                               ELSE [Idle EXCEPT !.pc = "wait", !.run = r]]
    /\ UNCHANGED <<completed, stage, orch, agent, server, left>>

(* A driver stops: it ends its orchestration, and fails the rows under it.  *)
EndDrive(t, s) ==
    /\ stage' = s
    /\ orch' = "over"
    /\ th' = [th EXCEPT ![t] = [Idle EXCEPT !.pc = "children", !.todo = Driven]]

(* Host capacity is granted, or the wait for it raises.                     *)
Admitted(r) ==
    /\ th[sup(r)].pc = "wait"
    /\ Goto(sup(r), "check")
    /\ UNCHANGED <<run, completed, stage, orch, agent, server, left>>

NotAdmitted(r) ==
    LET t == sup(r) IN
    /\ th[t].pc = "wait"
    /\ Spend("raise")
    /\ IF run[r].driven
       THEN EndDrive(t, "blocked")
       ELSE /\ th' = [th EXCEPT ![t] = Complete(t, r, "failed", TRUE, "none", "idle")]
            /\ UNCHANGED <<stage, orch>>
    /\ UNCHANGED <<run, completed, agent, server>>

(* A run settled while it waited is not started.                            *)
ensure_still_in_flight(r) ==
    LET t == sup(r) IN
    /\ th[t].pc = "check"
    /\ CASE run[r].status = "running" -> Goto(t, "spawn") /\ UNCHANGED <<stage, orch>>
         [] run[r].status # "running" /\ ~run[r].driven ->
              th' = [th EXCEPT ![t] = Idle] /\ UNCHANGED <<stage, orch>>
         [] OTHER -> EndDrive(t, "blocked")
    /\ UNCHANGED <<run, completed, agent, server, left>>

AfterRun(r) == IF run[r].driven THEN "after" ELSE "idle"

(* The agent is spawned in a session of its own, or what comes before the   *)
(* spawn fails.                                                             *)
Spawn(r) ==
    LET t == sup(r) IN
    /\ th[t].pc = "spawn"
    /\ \/ agent' = [agent EXCEPT ![r] = "working"] /\ Goto(t, "record")
       \/ /\ th' = [th EXCEPT ![t] = Complete(t, r, "failed", TRUE, "none", AfterRun(r))]
          /\ UNCHANGED agent
    /\ UNCHANGED <<run, completed, stage, orch, server, left>>

(* Its pid and start time, in one write; without the start time the pid     *)
(* vouches for nothing.                                                     *)
record_process_identity(r) ==
    /\ th[sup(r)].pc = "record"
    /\ \E mute \in Unanswered :
         /\ run' = [run EXCEPT ![r].pid = ~mute /\ agent[r] = "working"]
         /\ Asked(mute)
    /\ Goto(sup(r), "watch")
    /\ UNCHANGED <<completed, stage, orch, agent, server>>

(* The poll of the supervisor: an exit, a stop asked for, a budget spent.   *)
run_print_mode(r) ==
    LET t == sup(r)
        End(v) == th' = [th EXCEPT ![t] = Complete(t, r, v, TRUE, "none", AfterRun(r))]
    IN
    /\ th[t].pc = "watch"
    /\ \/ /\ agent[r] \in {"passed", "failed"}
          /\ End(IF agent[r] = "passed" THEN "succeeded" ELSE "failed")
          /\ UNCHANGED agent
       \/ /\ run[r].cancel
          /\ agent' = [agent EXCEPT ![r] = IF @ = "working" THEN "failed" ELSE @]
          /\ End("cancelled")
       \/ /\ agent[r] = "working"
          /\ agent' = [agent EXCEPT ![r] = "failed"]
          /\ End("failed")
    /\ UNCHANGED <<run, completed, stage, orch, server, left>>

(* What the driver makes of its run: a success, or a stage nothing re-armed *)
(* ends the drive; a stage re-armed for a failure of its run is run again   *)
(* (bound: while there is an id left).                                      *)
AfterStage(r) ==
    LET t == sup(r) IN
    /\ th[t].pc = "after"
    /\ \/ run[r].status = "succeeded" /\ EndDrive(t, stage)
       \/ /\ run[r].status = "failed" /\ stage = "pending"
          /\ \E q \in Runs :
               /\ Next_id(q)
               /\ th' = [th EXCEPT ![t] = Idle,
                                   ![sup(q)] = [Idle EXCEPT !.pc = "mark", !.adv = TRUE]]
          /\ UNCHANGED <<stage, orch>>
       \/ /\ run[r].status \in {"failed", "cancelled"}
          /\ ~(run[r].status = "failed" /\ stage = "pending" /\ \E q \in Runs : Next_id(q))
          /\ EndDrive(t, "blocked")
    /\ UNCHANGED <<run, completed, agent, server, left>>

(* The end of an orchestration fails the rows under it, except those whose  *)
(* process lives or may live: the stage is not theirs to move any more.     *)
AfterChildren(t) == IF t \in {sweep, boot} THEN "stranded" ELSE "idle"

_fail_in_flight_children(t) ==
    /\ th[t].pc = "children"
    /\ IF th[t].todo = {}
       THEN th' = [th EXCEPT ![t] = [Idle EXCEPT !.pc = AfterChildren(t)]] /\ UNCHANGED left
       ELSE \E r \in th[t].todo, mute \in Unanswered :
              /\ th' = [th EXCEPT ![t] =
                   IF liveness(r, mute) = "gone"
                   THEN Fail(t, r, FALSE, Seen(r, mute), "children") ELSE Skip(t, r)]
              /\ Asked(mute)
    /\ UNCHANGED <<run, completed, stage, orch, agent, server>>

-----------------------------------------------------------------------------
(* The agent, the lease, and people.                                        *)

AgentExits(r) ==
    /\ agent[r] = "working"
    /\ agent' = [agent EXCEPT ![r] = "passed"] \/ agent' = [agent EXCEPT ![r] = "failed"]
    /\ UNCHANGED <<run, completed, stage, orch, th, server, left>>

renew_agent_run_lease(r) ==
    /\ run[r].status = "running" /\ ~run[r].fresh /\ Renewed(r)
    /\ run' = [run EXCEPT ![r].fresh = TRUE]
    /\ UNCHANGED <<completed, stage, orch, agent, th, server, left>>

(* Ten minutes pass without a renewal: nobody renews, or the renewer's      *)
(* writes fail.                                                             *)
LeaseLapses(r) ==
    /\ run[r].status = "running" /\ run[r].fresh /\ ~Renewed(r)
    /\ run' = [run EXCEPT ![r].fresh = FALSE]
    /\ UNCHANGED <<completed, stage, orch, agent, th, server, left>>

RenewalMissed(r) ==
    /\ run[r].status = "running" /\ run[r].fresh /\ Renewed(r)
    /\ Spend("missed")
    /\ run' = [run EXCEPT ![r].fresh = FALSE]
    /\ UNCHANGED <<completed, stage, orch, agent, th, server>>

(* A stop is recorded, then signalled to the process if its identity still  *)
(* holds.                                                                   *)
request_cancel(r) ==
    /\ Serving /\ th[web].pc = "idle"
    /\ run[r].status = "running" /\ ~run[r].cancel
    /\ Spend("cancel")
    /\ run' = [run EXCEPT ![r].cancel = TRUE]
    /\ th' = [th EXCEPT ![web] = [Idle EXCEPT !.pc = "signal", !.run = r]]
    /\ UNCHANGED <<completed, stage, orch, agent, server>>

stop_detached_process ==
    /\ th[web].pc = "signal"
    /\ \E mute \in Unanswered :
         /\ agent' = IF liveness(th[web].run, mute) = "alive"
                     THEN [agent EXCEPT ![th[web].run] = "failed"] ELSE agent
         /\ Asked(mute)
    /\ th' = [th EXCEPT ![web] = Idle]
    /\ UNCHANGED <<run, completed, stage, orch, server>>

(* An agent or a person ends the orchestration: completed, or blocked.      *)
EndFromOutside ==
    /\ Serving /\ th[web].pc = "idle" /\ orch = "live"
    /\ Spend("over")
    /\ \E s \in {stage, "blocked"} : EndDrive(web, s)
    /\ UNCHANGED <<run, completed, agent, server>>

-----------------------------------------------------------------------------
(* The resupervisor of an adopted run.                                      *)

(* It leaves its loop only on a death: an unanswered `ps' is not one.       *)
_supervise_until_gone(r) ==
    /\ th[res(r)].pc = "follow"
    /\ \E mute \in Unanswered : liveness(r, mute) = "gone" /\ Asked(mute)
    /\ Goto(res(r), "seize")
    /\ UNCHANGED <<run, completed, stage, orch, agent, server>>

(* Mutant: what the process left behind is handed on as the verdict.        *)
_claim_settlement_Raw(r) ==
    LET t == res(r) IN
    /\ th[t].pc = "seize"
    /\ run' = [run EXCEPT ![r].finished = TRUE]
    /\ th' = [th EXCEPT ![t] = Complete(t, r, agent[r], TRUE, "none", "idle")]
    /\ UNCHANGED <<completed, stage, orch, agent, server, left>>

(* _settle: finished_at is the claim, one UPDATE; then the exit code is the *)
(* verdict.                                                                 *)
_claim_settlement(r) ==
    LET t == res(r) IN
    /\ th[t].pc = "seize"
    /\ IF run[r].status = "running" /\ ~run[r].finished
       THEN /\ run' = [run EXCEPT ![r].finished = TRUE]
            /\ th' = [th EXCEPT ![t] =
                 Complete(t, r, IF agent[r] = "passed" THEN "succeeded" ELSE "failed",
                          TRUE, "none", "idle")]
       ELSE UNCHANGED run /\ th' = [th EXCEPT ![t] = Idle]
    /\ UNCHANGED <<completed, stage, orch, agent, server, left>>

-----------------------------------------------------------------------------
(* The reconcile pass: the four steps that settle runs, in their order.     *)

reconcile_once ==
    /\ Serving /\ th[sweep].pc = "idle"
    /\ th' = [th EXCEPT ![sweep] = [Idle EXCEPT !.pc = "expired", !.todo = InFlight]]
    /\ UNCHANGED <<run, completed, stage, orch, agent, server, left>>

(* Mutant: a run whose agent was never recorded is not looked at.           *)
Expired_Recorded(r, mute) ==
    run[r].status = "running" /\ run[r].pid /\ liveness(r, mute) # "alive" /\ ~run[r].fresh

(* A process that is verifiably there outranks the lease; a `ps' that could *)
(* not answer vouches for nothing.                                          *)
Expired(r, mute) ==
    run[r].status = "running" /\ liveness(r, mute) # "alive" /\ ~run[r].fresh

settle_expired_agent_runs ==
    /\ th[sweep].pc = "expired"
    /\ IF th[sweep].todo = {}
       THEN /\ th' = [th EXCEPT ![sweep] = [Idle EXCEPT !.pc = "orphaned", !.todo = Driven]]
            /\ UNCHANGED left
       ELSE \E r \in th[sweep].todo, mute \in Unanswered :
              /\ th' = [th EXCEPT ![sweep] =
                   IF Expired(r, mute)
                   THEN Fail(sweep, r, TRUE, Seen(r, mute), "expired")
                   ELSE Skip(sweep, r)]
              /\ Asked(mute)
    /\ UNCHANGED <<run, completed, stage, orch, agent, server>>

(* A run under an orchestration that is over is residue once its process is *)
(* knowably gone.                                                           *)
settle_orphaned_agent_runs ==
    /\ th[sweep].pc = "orphaned"
    /\ IF th[sweep].todo = {}
       THEN th' = [th EXCEPT ![sweep] = [Idle EXCEPT !.pc = "leases"]] /\ UNCHANGED left
       ELSE \E r \in th[sweep].todo, mute \in Unanswered :
              /\ th' = [th EXCEPT ![sweep] =
                   IF orch = "over" /\ liveness(r, mute) = "gone"
                   THEN Fail(sweep, r, FALSE, Seen(r, mute), "orphaned") ELSE Skip(sweep, r)]
              /\ Asked(mute)
    /\ UNCHANGED <<run, completed, stage, orch, agent, server>>

(* Mutant: a run that has ended still counts as its driver.                 *)
Undriven_Ended ==
    orch = "live" /\ \A r \in Runs : ~run[r].driven /\ th[sup(r)].pc = "idle"

(* An orchestration with no run in flight and no driver to renew it.        *)
Undriven ==
    /\ orch = "live" /\ Driven = {}
    /\ \A r \in Runs : th[sup(r)].pc # "idle" =>
         ~run[r].driven /\ ~(th[sup(r)].pc \in {"mark", "insert"} /\ th[sup(r)].adv)

settle_expired_orchestration_leases ==
    /\ th[sweep].pc = "leases" /\ Undriven
    /\ EndDrive(sweep, stage)
    /\ UNCHANGED <<run, completed, agent, server, left>>

(* Its lease has not run out yet, or is renewed.                            *)
NoLeaseExpired ==
    /\ th[sweep].pc = "leases"
    /\ th' = [th EXCEPT ![sweep] = [Idle EXCEPT !.pc = "stranded"]]
    /\ UNCHANGED <<run, completed, stage, orch, agent, server, left>>

(* Mutants: selecting on runs alone; only the next boot looks.              *)
Stranded_RunsAlone == stage = "running" /\ InFlight = {}

Stranded_AtBoot == stage = "running" /\ InFlight = {} /\ orch # "live" /\ server = "booting"

(* A stage left running with no run in flight and no orchestration: read in *)
(* one query, blocked in a later transaction.                               *)
Stranded == stage = "running" /\ InFlight = {} /\ orch # "live"

settle_stranded_stages(t) ==
    /\ th[t].pc = "stranded"
    /\ Goto(t, IF Stranded THEN "block" ELSE "idle")
    /\ server' = IF t = boot /\ th'[t].pc = "idle" THEN "up" ELSE server
    /\ UNCHANGED <<run, completed, stage, orch, agent, left>>

BlockStranded(t) ==
    /\ th[t].pc = "block"
    /\ stage' = "blocked"
    /\ th' = [th EXCEPT ![t] = Idle]
    /\ server' = IF t = boot THEN "up" ELSE server
    /\ UNCHANGED <<run, completed, orch, agent, left>>

-----------------------------------------------------------------------------
(* The server goes, and comes back.                                         *)

Drain ==
    /\ server = "up" /\ Spend("drain")
    /\ server' = "draining"
    /\ UNCHANGED <<run, completed, stage, orch, agent, th>>

end_drain ==
    /\ server = "draining"
    /\ server' = "up"
    /\ UNCHANGED <<run, completed, stage, orch, agent, th, left>>

(* Its threads go with it; the agents are in sessions of their own, and may *)
(* or may not survive.                                                      *)
Crash ==
    /\ server \in {"up", "draining", "booting"}
    /\ Spend("crash")
    /\ server' = "down"
    /\ th' = [t \in Thread |-> Idle]
    /\ \E S \in SUBSET {r \in Runs : agent[r] = "working"} :
         agent' = [r \in Runs |-> IF r \in S THEN "failed" ELSE agent[r]]
    /\ UNCHANGED <<run, completed, stage, orch>>

Boot ==
    /\ server = "down"
    /\ server' = "booting"
    /\ th' = [th EXCEPT ![boot] = [Idle EXCEPT !.pc = "reattach"]]
    /\ UNCHANGED <<run, completed, stage, orch, agent, left>>

(* Which runs `ps' says nothing about, when a sweep asks about all of them. *)
Mutes == IF left["mute"] > 0 THEN SUBSET {r \in InFlight : run[r].pid} ELSE {{}}

(* Every run whose process is verifiably there gets a resupervisor.         *)
reattach_surviving_runs ==
    /\ th[boot].pc = "reattach"
    /\ \E M \in Mutes :
         LET alive == {r \in InFlight : liveness(r, r \in M) = "alive"} IN
         /\ run' = [r \in Runs |-> [run[r] EXCEPT !.fresh = @ \/ r \in alive]]
         /\ th' = [t \in Thread |->
              IF t = boot THEN [Idle EXCEPT !.pc = "interrupted"]
              ELSE IF t[1] = "res" /\ t[2] \in alive
                   THEN [Idle EXCEPT !.pc = "follow", !.run = t[2]]
              ELSE th[t]]
         /\ Asked(M # {})
    /\ UNCHANGED <<completed, stage, orch, agent, server>>

(* Then every run that is not spared is failed: in flight at boot, it is an *)
(* orphan of the process that died.  todo is the runs to fail.              *)
runs_to_spare(M) == {r \in InFlight : liveness(r, r \in M) # "gone"}

fail_interrupted_runs ==
    /\ th[boot].pc = "interrupted"
    /\ \/ /\ th[boot].back = "idle"
          /\ \E M \in Mutes :
               /\ th' = [th EXCEPT ![boot].todo = InFlight \ runs_to_spare(M),
                                   ![boot].back = "interrupted"]
               /\ Asked(M # {})
       \/ /\ th[boot].back = "interrupted" /\ th[boot].todo # {}
          /\ \E r \in th[boot].todo :
               th' = [th EXCEPT ![boot] = Fail(boot, r, TRUE, Seen(r, FALSE), "interrupted")]
          /\ UNCHANGED left
       \/ /\ th[boot].back = "interrupted" /\ th[boot].todo = {}
          /\ th' = [th EXCEPT ![boot] = [Idle EXCEPT !.pc = "parents"]]
          /\ UNCHANGED left
    /\ UNCHANGED <<run, completed, stage, orch, agent, server>>

(* An orchestration is spared while an agent beneath it may be alive.       *)
fail_interrupted_orchestration_runs ==
    /\ th[boot].pc = "parents"
    /\ \E M \in Mutes :
         /\ IF orch = "live" /\ {r \in runs_to_spare(M) : run[r].driven} = {}
            THEN EndDrive(boot, stage)
            ELSE th' = [th EXCEPT ![boot] = [Idle EXCEPT !.pc = "stranded"]]
                 /\ UNCHANGED <<stage, orch>>
         /\ Asked(M # {})
    /\ UNCHANGED <<run, completed, agent, server>>


-----------------------------------------------------------------------------
Init ==
    /\ run = [r \in Runs |-> NoRow]
    /\ completed = [r \in Runs |-> <<>>]
    /\ stage = "pending"
    /\ orch = "none"
    /\ agent = [r \in Runs |-> "none"]
    /\ th = [t \in Thread |-> Idle]
    /\ server = "up"
    /\ left \in Budgets

(* What a thread does next.                                                 *)
Supervise(r) ==
    \/ Supersede(r) \/ Mark(r) \/ Insert(r) \/ Admitted(r) \/ ensure_still_in_flight(r)
    \/ Spawn(r) \/ record_process_identity(r) \/ run_print_mode(r) \/ AfterStage(r)

Resupervise(r) == _supervise_until_gone(r) \/ _claim_settlement(r)

Sweep ==
    \/ settle_expired_agent_runs \/ settle_orphaned_agent_runs
    \/ settle_expired_orchestration_leases \/ NoLeaseExpired

Restart ==
    \/ reattach_surviving_runs \/ fail_interrupted_runs
    \/ fail_interrupted_orchestration_runs

Strand(t) == settle_stranded_stages(t) \/ BlockStranded(t)

Next ==
    \/ \E r \in Runs : start_run_async(r) \/ start_orchestration_run(r)
    \/ \E r \in Runs : Supervise(r) \/ NotAdmitted(r) \/ Resupervise(r)
    \/ \E r \in Runs : AgentExits(r) \/ renew_agent_run_lease(r) \/ LeaseLapses(r)
    \/ \E r \in Runs : RenewalMissed(r) \/ request_cancel(r)
    \/ \E t \in Thread : Settle(t) \/ _fail_in_flight_children(t)
    \/ \E t \in {sweep, boot} : Strand(t)
    \/ stop_detached_process \/ EndFromOutside
    \/ reconcile_once \/ Sweep \/ Restart
    \/ Drain \/ end_drain \/ Crash \/ Boot

(* Threads run; a lease nobody renews lapses; an agent ends one day (the    *)
(* supervisor's time budget kills it, its provider gives up); the reconcile *)
(* timer fires, the lease of an orchestration nobody renews runs out, and a *)
(* server that is down is started again.                                    *)
Fairness ==
    /\ \A r \in Runs : WF_vars(Supervise(r)) /\ WF_vars(Resupervise(r))
    /\ \A r \in Runs : WF_vars(AgentExits(r)) /\ WF_vars(LeaseLapses(r))
    /\ \A t \in Thread : WF_vars(Settle(t) \/ _fail_in_flight_children(t))
    /\ WF_vars(stop_detached_process)
    /\ WF_vars(reconcile_once) /\ WF_vars(Sweep) /\ WF_vars(Restart)
    /\ SF_vars(settle_expired_orchestration_leases)
    /\ WF_vars(Strand(sweep)) /\ WF_vars(Strand(boot))
    /\ WF_vars(Boot)

Safety == Init /\ [][Next]_vars

Spec == Safety /\ Fairness

-----------------------------------------------------------------------------
(* Every variable stays in its domain.                                      *)
TypeOK ==
    /\ run \in [Runs -> Row]
    /\ completed \in [Runs -> Seq(Verdicts)]
    /\ stage \in Stage
    /\ orch \in {"none", "live", "over"}
    /\ agent \in [Runs -> Agent]
    /\ th \in [Thread -> Local]
    /\ server \in {"up", "draining", "booting", "down"}
    /\ left \in [Events -> Nat]

(* What a run promises to whoever reads its row or its events.              *)
Verdict == INSTANCE RunVerdict WITH
    verdict   <- [r \in Runs |-> run[r].status],
    announced <- completed

(* A supervisor, a resupervisor, a stop, a superseding start, the sweep and *)
(* the boot race to settle a run: one verdict, the first, stands, and no    *)
(* other is announced (run_finality.claim_completion).                      *)
OneVerdict == Verdict!Safe

(* Whatever dies, every run that began is settled (run_service.py's reapers *)
(* and run_resupervise.py).                                                 *)
EveryRunSettles == Verdict!Settled

(* Nor is its stage left running for ever with nothing behind it, or its    *)
(* orchestration live with nothing that drives it.                          *)
StageNotStranded == []<>(stage # "running")

EveryDriveEnds == []<>(orch # "live")

(* Of the reapers that ask about the process a row names, only one may fail *)
(* the run of an agent that is at work: the sweep of expired leases, when   *)
(* `ps' did not answer and the lease had lapsed (agent_run_lease_expired:   *)
(* "the lease decides").  No other does, a silent `ps' included, nor that   *)
(* sweep while `ps' answers or the lease is renewed, nor any of them of an  *)
(* agent that is recorded while it is on its way.  (A second start asks     *)
(* nobody.)                                                                 *)
NoLiveAgentReaped ==
    \A t \in Thread :
        th[t].pc = "claim" /\ agent[th[t].run] = "working" =>
          \/ th[t].saw = "none"
          \/ th[t].saw = "lapsed" /\ th[t].back = "expired"

(* While an orchestration lives, the reconcile pass leaves the stage of a   *)
(* run that has just succeeded alone, although for a moment neither a run   *)
(* nor a verdict is behind it: unless the board started the stage as well,  *)
(* or the completion of an earlier run re-armed it and then raised, the     *)
(* success decides where the stage goes (settle_stranded_stages).           *)
SuccessCounts ==
    [][\A t \in Thread :
          LET r == th[t].run IN
          /\ th[t].pc = "tail" /\ th'[t].pc = "announce"
          /\ th[t].verdict = "succeeded"
          /\ \A q \in Runs : run[q].status # "none" => run[q].driven
          => orch # "live"]_vars
=============================================================================
