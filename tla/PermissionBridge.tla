--------------------------- MODULE PermissionBridge ---------------------------
(***************************************************************************)
(* An interactive run: its agent asks before it uses a tool, and the run's  *)
(* thread answers on the agent's stdin, at once or once a person has        *)
(* answered a card (agents/executors/permission_bridge.py, cli.py).  Beside *)
(* it: the people who answer, the stop (run_cancellation.py), whoever else  *)
(* settles the run, and the reconcile pass that blocks a stage that awaits  *)
(* a person nobody asked (unasked_awaits.py).                               *)
(*                                                                         *)
(* RunLifecycle is the life of a run whose agent asks nothing (print_mode); *)
(* this one's agent is recorded nowhere, so nothing but its thread stops it.*)
(*                                                                         *)
(* Who decides a card reads that it is pending, and writes its answer later *)
(* and without looking again, so that two of them may both answer it.       *)
(***************************************************************************)
EXTENDS Naturals, Sequences

CONSTANTS
    Requests,  \* the permission requests of the agent, in the order it makes them
    Budget     \* bound: how often each trouble may happen

(* cancel: an operator stops the run; other: a superseding start, a reaper  *)
(* or a sweep settles it; crash: the server dies.                           *)
Events == {"cancel", "other", "crash"}

ASSUME BridgeAssumption ==
    /\ Requests \subseteq Nat \ {0}
    /\ Budget \in [Events -> Nat]

VARIABLES
    run,        \* the row of agent_runs
    completed,  \* its AgentRunCompleted events
    stage,      \* the status of its stage
    card,       \* the approval that asks a person about a request
    given,      \* history: the answers its card was ever given
    told,       \* what the agent has been told about a request
    agent,      \* the agent's process
    lines,      \* what it wrote on stdout and nobody has read
    bridge,     \* the run's thread: program counter and locals
    other,      \* whoever else settles the run
    sweep,      \* the reconcile pass has found the stage awaiting nobody
    deciding,   \* the cards that somebody has read as pending, and may yet answer
    stop,       \* the call that stops the run: where it is, the cards it selected
    left        \* what remains of the budget

cards == <<card, given>>
rows == <<run, completed, stage, cards>>
proc == <<told, agent, lines>>
people == <<deciding, stop>>
vars == <<rows, proc, bridge, other, sweep, people, left>>

Verdicts == {"succeeded", "failed", "cancelled"}

IN_FLIGHT == {"running", "awaiting"}

(* refused: denied by a person, or out of the agent's scope, which ends the *)
(* run; denied: by a policy, and the agent goes on.                         *)
Told == {"unasked", "waiting", "allowed", "denied", "refused"}

(* wrote_*: it has written its result and not exited; exit*: how it ended.  *)
Agent == {"working", "wrote_ok", "wrote_error", "exit_ok", "exit_error"}

Alive == agent \in {"working", "wrote_ok", "wrote_error"}

Killed == IF Alive THEN "exit_error" ELSE agent

(* A line of its stdout: a request, or its result.                          *)
Line == [kind : {"ask", "ok", "error"}, request : Requests \cup {0}]

Result(kind) == [kind |-> kind, request |-> 0]

PC == {"loop", "turn", "answer", "raised", "resume", "resumed", "refuse", "refused",
       "claim", "tail", "over", "dead"}

(* card: pending_approval; request: pending_request_id.                     *)
Local == [pc : PC, card : Requests \cup {0}, request : Requests \cup {0},
          verdict : Verdicts \cup {"none"}]

NoStop == [pc |-> "idle", cards |-> {}]

Goto(pc) == bridge' = [bridge EXCEPT !.pc = pc]

(* The bridge returns, and cli.py completes the run.                        *)
Return(v) == bridge' = [bridge EXCEPT !.pc = "claim", !.verdict = v]

Spend(e) == left[e] > 0 /\ left' = [left EXCEPT ![e] = @ - 1]

-----------------------------------------------------------------------------
(* The agent.  It may ask again while an earlier request stands.            *)

Ask(q) ==
    /\ agent = "working"
    /\ told[q] = "unasked" /\ \A p \in Requests : p < q => told[p] # "unasked"
    /\ told' = [told EXCEPT ![q] = "waiting"]
    /\ lines' = Append(lines, [kind |-> "ask", request |-> q])
    /\ UNCHANGED <<rows, agent, bridge, other, sweep, people, left>>

WriteResult ==
    /\ agent = "working" /\ \A q \in Requests : told[q] # "waiting"
    /\ \/ agent' = "wrote_ok" /\ lines' = Append(lines, Result("ok"))
       \/ agent' = "wrote_error" /\ lines' = Append(lines, Result("error"))
    /\ UNCHANGED <<rows, told, bridge, other, sweep, people, left>>

Exit ==
    /\ \/ agent \in {"working", "wrote_error"} /\ agent' = "exit_error"
       \/ agent = "wrote_ok" /\ agent' = "exit_ok"
    /\ UNCHANGED <<rows, told, lines, bridge, other, sweep, people, left>>

-----------------------------------------------------------------------------
(* The loop of PermissionBridgeRunner.run, from its top.                    *)

(* Mutant: a timeout writes its verdict on the row, as a refusal does.      *)
OutOfTime_Written ==
    /\ \/ bridge.pc = "loop" /\ Alive
       \/ bridge.pc = "turn" /\ bridge.card # 0
    /\ agent' = Killed
    /\ run' = [run EXCEPT !.status = "failed"]
    /\ Return("failed")
    /\ UNCHANGED <<completed, stage, cards, told, lines, other, sweep, people, left>>

(* Mutant: no clock runs while a person is asked.                           *)
OutOfTime_Idle ==
    /\ bridge.pc = "loop" /\ Alive /\ bridge.card = 0
    /\ agent' = Killed
    /\ Return("failed")
    /\ UNCHANGED <<rows, told, lines, other, sweep, people, left>>

(* The idle or the hard deadline has passed, or the approval's.             *)
OutOfTime ==
    /\ \/ bridge.pc = "loop" /\ Alive
       \/ bridge.pc = "turn" /\ bridge.card # 0
    /\ agent' = Killed
    /\ Return("failed")
    /\ UNCHANGED <<rows, told, lines, other, sweep, people, left>>

(* The agent is gone: its exit code decides, and what it wrote last is not  *)
(* read.                                                                    *)
_finalize ==
    /\ bridge.pc = "loop" /\ ~Alive
    /\ Return(IF agent = "exit_ok" THEN "succeeded" ELSE "failed")
    /\ UNCHANGED <<rows, proc, other, sweep, people, left>>

_check_cancel ==
    /\ bridge.pc = "loop" /\ Alive /\ run.cancel
    /\ agent' = Killed
    /\ Return("cancelled")
    /\ UNCHANGED <<rows, told, lines, other, sweep, people, left>>

(* The cancel is not due to be polled, or was not asked for.                *)
TakeTurn ==
    /\ bridge.pc = "loop" /\ Alive
    /\ Goto("turn")
    /\ UNCHANGED <<rows, proc, other, sweep, people, left>>

(* Mutant: a request that arrives meanwhile takes over the answer.          *)
_continue_while_awaiting_Newest ==
    /\ bridge.pc = "turn" /\ bridge.card # 0 /\ card[bridge.card] = "pending"
    /\ bridge' = [bridge EXCEPT !.pc = "loop",
         !.request = IF lines # <<>> /\ Head(lines).kind = "ask" THEN Head(lines).request ELSE @]
    /\ lines' = IF lines = <<>> THEN lines ELSE Tail(lines)
    /\ UNCHANGED <<rows, told, agent, other, sweep, people, left>>

(* While the card is pending a line is read and let go, a second request    *)
(* and a result too.                                                        *)
_continue_while_awaiting ==
    /\ bridge.pc = "turn" /\ bridge.card # 0 /\ card[bridge.card] = "pending"
    /\ Goto("loop")
    /\ lines' = IF lines = <<>> THEN lines ELSE Tail(lines)
    /\ UNCHANGED <<rows, told, agent, other, sweep, people, left>>

(* Mutant: the card is not let go of once it is answered.                   *)
_handle_pending_approval_Kept ==
    LET q == bridge.request
        approved == card[bridge.card] = "approved"
    IN  /\ bridge.pc = "turn" /\ bridge.card # 0 /\ card[bridge.card] # "pending"
        /\ \/ Alive /\ approved /\ Goto("resume") /\ UNCHANGED agent
           \/ Alive /\ ~approved /\ Goto("refuse") /\ agent' = Killed
           \/ ~Alive /\ Return("failed") /\ UNCHANGED agent
        /\ told' = IF Alive THEN [told EXCEPT ![q] = IF approved THEN "allowed" ELSE "refused"]
                   ELSE told
        /\ UNCHANGED <<rows, lines, other, sweep, people, left>>

(* The answer is written to the agent, whom a refusal ends; a pipe broken   *)
(* by then fails the run.                                                   *)
_handle_pending_approval ==
    LET q == bridge.request
        approved == card[bridge.card] = "approved"
    IN  /\ bridge.pc = "turn" /\ bridge.card # 0 /\ card[bridge.card] # "pending"
        /\ \/ /\ Alive /\ approved
              /\ told' = [told EXCEPT ![q] = "allowed"]
              /\ bridge' = [bridge EXCEPT !.pc = "resume", !.card = 0]
              /\ UNCHANGED agent
           \/ /\ Alive /\ ~approved
              /\ told' = [told EXCEPT ![q] = "refused"]
              /\ agent' = Killed
              /\ bridge' = [bridge EXCEPT !.pc = "refuse", !.card = 0]
           \/ ~Alive /\ Return("failed") /\ UNCHANGED <<told, agent>>
        /\ UNCHANGED <<rows, lines, other, sweep, people, left>>

(* Two commits: the stage, and the run.                                     *)
_resume_after_approval ==
    /\ \/ /\ bridge.pc = "resume"
          /\ stage' = "running"
          /\ Goto("resumed")
          /\ UNCHANGED run
       \/ /\ bridge.pc = "resumed"
          /\ run' = [run EXCEPT !.status = "running"]
          /\ Goto("loop")
          /\ UNCHANGED stage
    /\ UNCHANGED <<completed, cards, proc, other, sweep, people, left>>

(* _fail_after_rejection: the stage, then the run, whose verdict is written *)
(* on the row itself.                                                       *)
_fail_after_rejection ==
    /\ bridge.pc = "refuse"
    /\ stage' = "blocked"
    /\ Goto("refused")
    /\ UNCHANGED <<run, completed, cards, proc, other, sweep, people, left>>

WriteFailed ==
    /\ bridge.pc = "refused"
    /\ run' = [run EXCEPT !.status = "failed"]
    /\ agent' = Killed
    /\ Return("failed")
    /\ UNCHANGED <<completed, stage, cards, told, lines, other, sweep, people, left>>

(* A line is read when nobody is asked: none yet, or the result, whose      *)
(* writer is drained and killed.                                            *)
_handle_next_line ==
    /\ bridge.pc = "turn" /\ bridge.card = 0
    /\ \/ lines = <<>> /\ Goto("loop") /\ UNCHANGED <<agent, lines>>
       \/ /\ lines # <<>> /\ Head(lines).kind # "ask"
          /\ lines' = Tail(lines)
          /\ agent' = Killed
          /\ Return(IF Head(lines).kind = "ok" THEN "succeeded" ELSE "failed")
       \/ /\ lines # <<>> /\ Head(lines).kind = "ask"
          /\ lines' = Tail(lines)
          /\ bridge' = [bridge EXCEPT !.pc = "answer", !.request = Head(lines).request]
          /\ UNCHANGED agent
    /\ UNCHANGED <<rows, told, other, sweep, people, left>>

(* _scope_denial_result: outside the agent's scope; the stage goes to a     *)
(* sibling or to a person.                                                  *)
_scope_denial_result ==
    /\ bridge.pc = "answer" /\ Alive
    /\ told' = [told EXCEPT ![bridge.request] = "refused"]
    /\ stage' \in {"blocked", "pending"}
    /\ Goto("refused")
    /\ UNCHANGED <<run, completed, cards, agent, lines, other, sweep, people, left>>

(* A policy, an allowlist or the run's own flag answers.                    *)
_try_fast_approve ==
    /\ bridge.pc = "answer" /\ Alive
    /\ \E a \in {"allowed", "denied"} : told' = [told EXCEPT ![bridge.request] = a]
    /\ Goto("loop")
    /\ UNCHANGED <<rows, agent, lines, other, sweep, people, left>>

(* The agent was gone before its answer: the write fails, and the run.      *)
BrokenPipe ==
    /\ bridge.pc = "answer" /\ ~Alive
    /\ Return("failed")
    /\ UNCHANGED <<rows, proc, other, sweep, people, left>>

(* A person is asked: the stage and the card in one commit, then the run.   *)
_create_permission_approval ==
    /\ \/ /\ bridge.pc = "answer"
          /\ stage' = "awaiting"
          /\ card' = [card EXCEPT ![bridge.request] = "pending"]
          /\ Goto("raised")
          /\ UNCHANGED run
       \/ /\ bridge.pc = "raised"
          /\ run' = [run EXCEPT !.status = "awaiting"]
          /\ bridge' = [bridge EXCEPT !.pc = "loop", !.card = bridge.request]
          /\ UNCHANGED <<stage, card>>
    /\ UNCHANGED <<completed, given, proc, other, sweep, people, left>>

-----------------------------------------------------------------------------
(* complete_run, for the bridge and for whoever else settles the run: the   *)
(* claim, and the tail (in full in RunLifecycle).                           *)

Route(v) ==
    \/ v = "succeeded" /\ stage' \in IF stage \in {"done", "blocked"} THEN {stage}
                                     ELSE {"done", "blocked"}
    \/ v = "failed" /\ stage' \in {"blocked", "pending"}
    \/ v = "cancelled" /\ stage' = "pending"

claim_completion ==
    /\ bridge.pc = "claim"
    /\ IF run.status \in IN_FLIGHT
       THEN run' = [run EXCEPT !.status = bridge.verdict] /\ Goto("tail")
       ELSE Goto("over") /\ UNCHANGED run
    /\ UNCHANGED <<completed, stage, cards, proc, other, sweep, people, left>>

complete_run_tail ==
    /\ bridge.pc = "tail"
    /\ Route(bridge.verdict)
    /\ completed' = Append(completed, bridge.verdict)
    /\ Goto("over")
    /\ UNCHANGED <<run, cards, proc, other, sweep, people, left>>

(* A superseding start or a sweep gives the run up, or a boot whose         *)
(* predecessor died with it.                                                *)
fail_interrupted_runs ==
    /\ other = "idle" /\ run.status \in IN_FLIGHT
    /\ IF bridge.pc = "dead" THEN UNCHANGED left ELSE Spend("other")
    /\ run' = [run EXCEPT !.status = "failed"]
    /\ other' = "tail"
    /\ UNCHANGED <<completed, stage, cards, proc, bridge, sweep, people>>

OtherTail ==
    /\ other = "tail"
    /\ Route("failed")
    /\ completed' = Append(completed, "failed")
    /\ other' = "idle"
    /\ UNCHANGED <<run, cards, proc, bridge, sweep, people, left>>

-----------------------------------------------------------------------------
(* People, and the reconcile pass.                                          *)

(* By the ids of cards, whatever they say by now.                           *)
Answer(S, a) ==
    /\ card' = [q \in Requests |-> IF q \in S THEN a ELSE card[q]]
    /\ given' = [q \in Requests |-> IF q \in S THEN given[q] \cup {a} ELSE given[q]]

(* A person answers a card, or ignores it, which the bridge reads as a      *)
(* rejection: the card is read, and refused when it was resolved by then;   *)
(* the run is not looked at.                                                *)
ReadPending(q) ==
    /\ card[q] = "pending"
    /\ deciding' = deciding \cup {q}
    /\ UNCHANGED <<rows, proc, bridge, other, sweep, stop, left>>

(* Then the answer is committed, if none of the further checks raises: by   *)
(* any number of people, of whom each has read the card.                    *)
resolve(q) ==
    /\ q \in deciding
    /\ \E a \in {"approved", "rejected"} : Answer({q}, a)
    /\ UNCHANGED <<run, completed, stage, proc, bridge, other, sweep, people, left>>

(* The stop: a run that reads awaiting has its pending cards selected, and  *)
(* what was selected is rejected with the commit of the cancel.  There is   *)
(* no pid on the row to signal.                                             *)
request_cancel ==
    /\ stop.pc = "idle" /\ run.status \in IN_FLIGHT /\ ~run.cancel /\ Spend("cancel")
    /\ stop' = [stop EXCEPT !.pc = IF run.status = "awaiting" THEN "select" ELSE "commit"]
    /\ UNCHANGED <<rows, proc, bridge, other, sweep, deciding>>

_reject_pending_approvals ==
    /\ stop.pc = "select"
    /\ stop' = [pc |-> "commit", cards |-> {q \in Requests : card[q] = "pending"}]
    /\ UNCHANGED <<rows, proc, bridge, other, sweep, deciding, left>>

CommitCancel ==
    /\ stop.pc = "commit"
    /\ run' = [run EXCEPT !.cancel = TRUE]
    /\ Answer(stop.cards, "rejected")
    /\ stop' = NoStop
    /\ UNCHANGED <<completed, stage, proc, bridge, other, sweep, deciding, left>>

(* Mutant: a card that was answered still counts as asking.                 *)
unasked_awaits_Answered == stage = "awaiting" /\ \A q \in Requests : card[q] = "none"

(* The stage awaits a person, and no card asks one.                         *)
unasked_awaits == stage = "awaiting" /\ \A q \in Requests : card[q] # "pending"

Detect ==
    /\ ~sweep /\ unasked_awaits
    /\ sweep' = TRUE
    /\ UNCHANGED <<rows, proc, bridge, other, people, left>>

(* The repair looks again, and blocks what it still finds.                  *)
block_unasked_awaits ==
    /\ sweep
    /\ sweep' = FALSE
    /\ stage' = IF unasked_awaits THEN "blocked" ELSE stage
    /\ UNCHANGED <<run, completed, cards, proc, bridge, other, people, left>>

(* The server's threads go, the calls of people and of the stop with them;  *)
(* the agent, whose pipes are gone, may go later.                           *)
Crash ==
    /\ bridge.pc # "dead" /\ Spend("crash")
    /\ bridge' = [bridge EXCEPT !.pc = "dead", !.card = 0]
    /\ other' = "idle"
    /\ sweep' = FALSE
    /\ deciding' = {} /\ stop' = NoStop
    /\ UNCHANGED <<rows, proc>>

-----------------------------------------------------------------------------
Init ==
    /\ run = [status |-> "running", cancel |-> FALSE]
    /\ completed = <<>>
    /\ stage = "running"
    /\ card = [q \in Requests |-> "none"] /\ given = [q \in Requests |-> {}]
    /\ told = [q \in Requests |-> "unasked"]
    /\ agent = "working"
    /\ lines = <<>>
    /\ bridge = [pc |-> "loop", card |-> 0, request |-> 0, verdict |-> "none"]
    /\ other = "idle"
    /\ sweep = FALSE
    /\ deciding = {} /\ stop = NoStop
    /\ left = Budget

(* What the thread does next, clocks and throttled polls aside.             *)
Bridge ==
    \/ _finalize \/ TakeTurn \/ _continue_while_awaiting \/ _handle_pending_approval
    \/ _resume_after_approval \/ _fail_after_rejection \/ WriteFailed \/ _handle_next_line
    \/ _scope_denial_result \/ _try_fast_approve \/ BrokenPipe
    \/ _create_permission_approval \/ claim_completion \/ complete_run_tail

Settlers == fail_interrupted_runs \/ OtherTail

Stopping == request_cancel \/ _reject_pending_approvals \/ CommitCancel

Reconcile == Detect \/ block_unasked_awaits

Next ==
    \/ \E q \in Requests : Ask(q) \/ ReadPending(q) \/ resolve(q)
    \/ WriteResult \/ Exit
    \/ Bridge \/ OutOfTime \/ _check_cancel
    \/ Settlers \/ Stopping \/ Reconcile \/ Crash

(* The thread runs, and its clocks run out however often it looks; a boot   *)
(* settles what a dead server left, the reconcile timer fires, and an agent *)
(* nobody reads from any more exits.                                        *)
Fairness ==
    /\ WF_vars(Bridge)
    /\ SF_vars(OutOfTime)
    /\ WF_vars(bridge.pc = "dead" /\ fail_interrupted_runs)
    /\ WF_vars(OtherTail)
    /\ WF_vars(Reconcile)
    /\ WF_vars(bridge.pc = "dead" /\ Exit)

Spec == Init /\ [][Next]_vars /\ Fairness

-----------------------------------------------------------------------------
(* Shapes, and what the thread waits for: a card it raised itself, for the  *)
(* request it will answer, and none once it has begun to answer             *)
(* (state.pending_approval).                                                *)
TypeOK ==
    /\ run \in [status : IN_FLIGHT \cup Verdicts, cancel : BOOLEAN]
    /\ completed \in Seq(Verdicts)
    /\ stage \in {"pending", "running", "awaiting", "blocked", "done"}
    /\ card \in [Requests -> {"none", "pending", "approved", "rejected"}]
    /\ given \in [Requests -> SUBSET {"approved", "rejected"}]
    /\ told \in [Requests -> Told]
    /\ agent \in Agent
    /\ lines \in Seq(Line)
    /\ bridge \in Local
    /\ bridge.card # 0 =>
         /\ bridge.card = bridge.request /\ card[bridge.card] # "none"
         /\ bridge.pc \in {"loop", "turn", "claim", "tail", "over"}
    /\ other \in {"idle", "tail"}
    /\ sweep \in BOOLEAN
    /\ deciding \subseteq Requests
    /\ stop \in [pc : {"idle", "select", "commit"}, cards : SUBSET Requests]
    /\ left \in [Events -> Nat]

(* What the agent is told about a request is an answer that somebody gave   *)
(* on that request's own card, however many it has made meanwhile, or a     *)
(* policy's, and then no card was raised about it; it is told nothing while *)
(* the card is pending, and what the thread acts on is what it told         *)
(* (_handle_pending_approval).  A card says the last answer it was given,   *)
(* so that it may say otherwise than the agent was told only when it was    *)
(* answered twice: by two deciders who had both read it as pending          *)
(* (ApprovalService.resolve, _reject_pending_approvals).                    *)
AnswersAreTheirOwn ==
    /\ \A q \in Requests :
         /\ card[q] = "pending" => told[q] = "waiting" /\ given[q] = {}
         /\ card[q] \in {"approved", "rejected"} => card[q] \in given[q]
         /\ told[q] = "allowed" => card[q] = "none" \/ "approved" \in given[q]
         /\ told[q] = "denied" => card[q] = "none"
         /\ told[q] = "refused" => card[q] = "none" \/ "rejected" \in given[q]
    /\ bridge.pc \in {"resume", "resumed"} =>
         told[bridge.request] = "allowed" /\ "approved" \in given[bridge.request]
    /\ bridge.pc = "refuse" =>
         told[bridge.request] = "refused" /\ "rejected" \in given[bridge.request]

(* A run whose thread has come home was announced, by it or by whoever      *)
(* settled the run first, unless a request of its agent was refused: the    *)
(* verdict is then on the row before complete_run can claim it, and nothing *)
(* of its tail runs.                                                        *)
SilentOnlyIfRefused ==
    bridge.pc = "over" /\ other = "idle" =>
        completed # <<>> \/ \E q \in Requests : told[q] = "refused"

(* Nobody answers, a second request is let go unread, the server dies: the  *)
(* agent does not run on for ever, waiting (the deadlines of                *)
(* PermissionBridgeRunner.run), nor does the stage stay awaiting a person   *)
(* whom no pending card asks (AWAITING_STAGES_ARE_ASKED).                   *)
NobodyIsLeftWaiting ==
    /\ Alive ~> ~Alive
    /\ (stage = "awaiting" /\ \A q \in Requests : card[q] # "pending")
         ~> (stage # "awaiting" \/ \E q \in Requests : card[q] = "pending")

(* run_finality.py:1: "A run's first final status is its verdict; a later   *)
(* completion is refused."                                                  *)
FirstVerdictStands == [][run.status \in Verdicts => run'.status = run.status]_vars
=============================================================================
