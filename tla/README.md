# Verification of Loregarden's control plane

Loregarden is a control plane for agent work: tickets run through workflow
stages in worktrees, several runs at a time, and what they produce is landed,
published and merged without anybody watching.  This directory holds TLA+
models of the parts where several threads, processes and remote services share
state, the TLC runs that check them on small instances, and TLAPS proofs of the
properties that hold for every instance.

Paths below are relative to `src/server/loregarden/services/` unless they start
with `src/`.

| Module | What it is |
| --- | --- |
| `CapacityLedger` | the ledger of host and docker capacity: claims, the line, drains, nested claims, release, the reaper |
| `MergeQueue` | the merge queue of one workspace: admission, the loop that stages, tests and lands, operators, GitHub |
| `TreePublish` | when landed work is published: the scheduler and its threads, the failure cards, the reconcile pass |
| `RunLifecycle` | the agent runs of one stage: supervisors, the one way a run is settled, adoption after a restart, reapers, the drive |
| `RunVerdict` | what a run promises whoever reads it; `RunLifecycle` implements it |
| `SlotPool` | the agent slots and their lanes: requests, dispatch, completions, the reconcile pass, drain and restart |
| `PermissionBridge` | an interactive run: its agent's requests, the cards that ask people, the deadlines, who settles it meanwhile |
| `MC...` | small instances of each for TLC |
| `CapacityLedgerProofs`, `CapacityAccountProofs`, `MergeQueueProofs`, `TreePublishProofs`, `RunLifecycleProofs`, `RunReaperProofs`, `PermissionBridgeProofs`, `SlotPoolProofs` | theorems, for any value of the constants |

`PROJECT.json` says for each definition which lines it models, lists the runs,
the mutants that show each property can fail, the findings, the hazards and the
theorems.

## 1. Inventory

### The parts that are modelled

**Capacity ledger** (`docker_leases.py`, `docker_ledger.py`,
`capacity_children.py`, `capacity_run.py`, `capacity_line.py`,
`docker_reaper.py`).
*State*: one row per lease (waiting, held, orphaned, released; holder, price,
the part its parent covers, position in line) and the running totals of each
pool, in a SQLite file that server threads, CLI processes and git hooks open at
the same time.  *Operations*: `reserve` and the polling loops, `drain_waiters`,
`reserve_child`, `release_lease`, `renew_lease`, `reclaim_dead_holders`,
`reap_docker_leases`, `repair_pool`, an operator's forced release.
*Interaction*: shared rows only; no process talks to another.
*Hard*: a booking, the row it is for and the refund are separate commits, so
drains race drains, releases and repairs; a process may be killed between any
two; the reaper judges what it read before a slow probe.
*Correct when*: the totals are what the rows and the bookings in flight add up
to, nothing is admitted past the ceiling, nobody is overtaken in line, a
parent's allotment is lent once, and a waiter is served whoever dies.

**Merge queue** (`merge_queue.py`, `merge_queue_loop.py`,
`merge_queue_reports.py`, `merge_queue_github.py`, `merge_queue_requests.py`,
`publish_tree.py`, `git_automation.py`, `pull_request_merge.py`,
`git_merge_noco.py`, `ci_poll_scheduler.py`).
*State*: entries with a state and a position, inbox cards, conflict tickets;
on the remote the base, one publish head per tree, pull requests and their
checks.  *Operations*: admit, re-point, withdraw, retry; one cycle of the loop:
remind, pick, stage, wait, land, confirm, resume, clean up.
*Interaction*: the loop is one thread of the CI poll tick; publishes and the
board admit and operate on the same rows; GitHub is asked with `gh` and answers,
fails, or acts and then fails to answer.
*Hard*: every transition is a compare-and-swap on the state alone, with remote
calls in between; a restart may fall between a merge and its record; people
merge, close and push behind the queue's back.
*Correct when*: one entry is active, it is the first in line, what lands is what
was tested and what the row names, nothing withdrawn lands, whatever stops is
reported, and every entry settles.

**Tree publish scheduling** (`landing.py`, `tree_publish_scheduler.py`,
`unpublished_trees.py`, the head of `publish_tree.py`).
*State*: the integration branches, `landed_sha`, pending failure cards, and in
memory `_IN_FLIGHT`, `_AGAIN`, `_ATTEMPTED` and the drain flag.
*Operations*: land, complete, schedule, publish and settle, go again, report,
close a card, detect and repair, drain, restart.
*Interaction*: landings and the reconcile pass call the scheduler, the scheduler
starts threads; a published pull request goes to the merge queue.
*Hard*: the sets are read and written under a lock that is dropped in between;
they are lost at a restart; a completion publishes past them.
*Correct when*: no root has two scheduled publishes and none is stuck in flight,
the published tip only advances, and every landing is published, on the base, or
on a card in front of a person in the end.

**Run lifecycle** (`orchestration.py` `complete_run`, `run_finality.py`,
`run_completion.py`, `run_lease.py`, `run_service.py`, `run_reattach.py`,
`run_resupervise.py`, `run_cancellation.py`, `run_detached_stop.py`,
`process_identity.py`, the start of `builtin_orchestrator.py`,
`src/server/loregarden/agents/executors/cli.py` and `print_mode.py`).
*State*: a run's row (status, process identity, lease, cancel request), its
completion events, the stage, the orchestration that drives it; outside the
server, the agent process.  *Operations*: start (and supersede), wait for
capacity, spawn, record, watch, renew, complete, cancel, expire, adopt, and at
boot reattach and fail what is gone.
*Interaction*: threads of one server share the rows; the agent is a process
that outlives it; `ps` answers or does not.
*Hard*: the supervisor, a stop, a superseding start, the sweep and the boot all
complete a run, late and twice; each looks at the process some steps before it
writes; a completion is a claim followed by a tail of separate commits.
*Correct when*: the first verdict stands and only it is announced, a live agent
is not failed by a reaper that could have known, a success is not thrown away,
and every run, stage and drive ends.

**Slot pool and lanes** (`parallel_queue.py`, `queue_lanes.py`,
`queue_admission.py`, `queue_dispatch.py`, `queue_repair.py`,
`queue_slot_claims.py`, `slot_claim_healing.py`, `run_concurrency.py`,
`orchestration_callbacks.py`).
*State*: slots (busy, occupant, grace), lane entries and their repair count,
orchestrations.  *Operations*: start a ticket at once (reserve, claim, bind,
schedule, release), add one to a lane, start a lane's head, complete, hold for a
repair, and the pass: lapse leases, drive repairs, settle entries, reclaim slots,
refill lanes, adopt orphans.
*Interaction*: requests, one thread for each orchestration and the pass work on
the same rows; a completion starts the next entry of its lane.
*Hard*: a slot is claimed in one statement and its work starts in another; an
entry, its orchestration and its slot are settled by separate commits; the pass
writes by id what it read before.
*Correct when*: a slot has one holder, nobody loses it while it works, a settled
entry has no live work, and every waiting ticket, entry and slot comes round.

**Permission bridge** (`permission_bridge.py` and `cli.py` of
`src/server/loregarden/agents/executors/`, `unasked_awaits.py`,
`run_cancellation.py`, `approval_ignore.py`, `orchestration.py`
`ApprovalService`).
*State*: the run's row, the stage, the cards; the agent's stdin and stdout; the
thread's pending request and deadlines.  *Operations*: read a line, deny what is
out of scope, answer by policy, ask a person, answer with what the person said,
time out, be stopped, complete.
*Interaction*: the thread talks to the agent through pipes and to people through
rows they resolve and it polls; others settle the run in the same tables.
*Hard*: a card and the run's status are two commits; while a card is pending
what the agent writes is let go; the thread writes statuses without looking.
*Correct when*: an answer is the one given to that request, nobody waits for
ever, a verdict stands, and a run that ends is announced.

### The parts that are not modelled yet

| Part | State and operations | What is hard, and what would make it correct |
| --- | --- | --- |
| Resizing of the pool (`slot_pool.py`), stage entries and the shared queue | slots and entries; fit, rehome, promote | a surplus slot claimed before its deletion |
| Workflow (`core/state_machine.py`, `workflow_state.py`, `workflow_routing.py`, `stage_verdict.py`, `stage_retry_budget.py`, `orchestration.py`, `builtin_orchestrator.py`, `orchestration_callbacks.py`, `gate_recovery.py`) | the stage map, the ticket's state, retry budgets; advance, verdict, rework, gate, approve | callbacks of earlier attempts, rework loops; legal transitions only, bounded rework, no skipped gate |
| Dependencies and rollup (`ticket_dependencies.py`, `ticket_rollup.py`, `blocked_on.py`) | a graph and derived status | pure algorithms: cycles refused, status derived as defined |
| Worktrees (`worktree_lifecycle.py`, `worktree_service.py`, `directory_release.py`) | directories and rows; create, adopt, release, clean | removal beside a run that still uses the directory |
| Parallel stages (`stage_fanout_service.py`, `parallel_stage.py`) | shards and their join | one shard of several fails or is retried |
| Landing itself (`land_ticket.py`) | a merge in the repository | seen here as one landing |
| Chat, surveys, caches, autopilot | waits and single-flight refreshes | planned last |
| Docker probes, memory store, HTTP/MCP/CLI surfaces, client, desktop shell, migrations | I/O, text, rendering, declarations | nothing a model checker adds to |

## 2. The models and the code

### CapacityLedger

An action is one committed transaction or one read, because the SQLite driver
opens its transaction at the first write: everything a process has read may be
stale when it writes.  `row` is the table, `held` and `ceiling` the totals and
the measured limits, `proc` each process's program counter and locals,
including the recursion of `release_lease` as a stack of frames.

| Actions | Code |
| --- | --- |
| `Reserve`, `Insert`, `Answer`, `Poll`, `GiveUp` | `reserve`, `_take_position` and the waiting loops |
| `HeadRead`, `Book`, `Claim`, `Refund` | one pass of `drain_waiters` |
| `Look`, `ReleaseKid`, `Settle`, `Cancel`, `Release` | `release_lease` |
| `Renew` | `renew_lease`, which looks at the row before it writes |
| `ReserveChild` | `capacity_children.reserve_child` |
| `Reclaim`, `ForceRelease` | `reclaim_dead_holders`, the operator's release |
| `Sweep`, `Judge`, `Probe`, `DropWaiter`, `Repair` | `reap_docker_leases`, `_judge`, `_drop_abandoned_waiters`, `repair_pool` |
| `Crash` | a killed process: its rows stay |

A price is a vector over the resources and the lease slots; sums are taken as
cardinalities of sets of units (`Load`), and what lies beneath a lease is the
least set closed under children (`Beneath`), so the module needs no recursion.
`row[l].ahead` is a history variable: who was in line when l took its place.
What may happen is switched by `Role`, `Lapses`, `Contention` and `ParentWaits`,
so that a run can ask its question without every other disturbance.

### MergeQueue

An action is one database transaction or one call to the remote.  `entry`,
`cards` and `artifact` are the rows; `main` is the base, and the index of a
commit stands for its sha; a tree is how much of each branch's work it contains,
and a head sha is the version of a branch's work; `ref`, `checks` and `prs` are
what GitHub holds.  `loop`, `adm` and `op` are the locals of the loop, of each
thread that admits, and of an operator's retry.

| Actions | Code |
| --- | --- |
| `Tick`, `Remind`, `RemindDone`, `Pick` | `advance`, `_remind_blocked` |
| `BeginStaging` ... `RecordStaged`, `GiveUp`, `CutConflicted`, `RecordConflict`, `FileArtifact`, `BlockOnArtifact`, `ReportStopped` | `_stage`, `cut`, `_conflicted`, `_stop`, `report_stopped` |
| `TimeOut`, `Unreachable`, `AskGitHub`, `StopFailing`, `Restage`, `StopClosed`, `Adopt` | `_wait`, `_restage`, `_closed_outside` |
| `FetchBase`, `ClaimLanding`, `RefuseMismatch`, `Merge`, `MergeFails`, `MergeRefused`, `Confirm`, `StopMismatch`, `CleanUp`, `Finish`, `CloseCard`, `Resume` | `_land`, `_merge_refused`, `_confirm_merged`, `_resume_merging` |
| `StartPublish`, `PushPublish`, `OpenPr`, `PublishFails`, `Request`, `Lookup`, `Repoint`, `Insert` | the publish chain and `enqueue` |
| `Withdraw`, `RetryRead`, `RetryWrite`, `RetryAgain` | `withdraw`, `retry` |
| `CheckReports`, `TimePasses`, `OutsidePush`, `OutsideMerge`, `OutsideClose`, `ResolveConflict`, `Commits`, `Crash` | the world |

GitHub's part (`Mergeable`, `Squash`, the checks) is external: it is what the
code relies on, no more.  `scene` is chosen once, from `Scenarios`: whether the
ruleset wants an up-to-date head, which checks it requires, how much work lands
on a branch, how many pull requests are opened, and how often each disturbance
may happen, an admission beside another (`overlap`) included.

### TreePublish

A root's work is the number of landings on its integration branch: `tip` has
landed, `sha` is recorded as published, `base` is on the base.  `thread` is the
program counter and the locals of every thread that lands, publishes or sweeps.
`_GUARD` protects one action at a time and is not a variable.

| Actions | Code |
| --- | --- |
| `Land`, `Complete` | `land_before_done` and the `land_ticket` tool |
| `RefuseDraining`, `TakeRoot`, `StartThread`, `StartFails` | `schedule_tree_publish` |
| `ReadTip`, `RunChain`, `Record` | `publish_tree` |
| `Settle`, `Report`, `FileCard` | `publish_and_settle`, `close_publish_card`, `report_publish_failure`, `_report_crash` |
| `GoAgain`, `Release` | `run_tree_publish` |
| `Detect`, `Repair`, `Attempt`, `Forget` | `unpublished_trees` as an invariant: detect, look again, `_may_attempt` |
| `MayClose`, `CloseCard` | `refuse_closing_unpublished` then `ApprovalService.resolve`; `published_cards_held` then `close_held_cards` |
| `BeginDrain`, `EndDrain`, `Restart` | `drain.py`; daemon threads and module state are lost |

`BaseTakes` stands for the merge queue or a person merging the published pull
request.  Left out: inline publishes under `LOREGARDEN_SYNC_RUNS`, chains that do
not push, the UX-answers card, and branches deleted to abandon their work.

### RunLifecycle

An action is one committed transaction, one `ps`, or one step of an agent.
`run` is the table, `completed` the events of each run, `agent` the processes,
`th` the program counter and locals of every thread: a supervisor and a
resupervisor for each run, a web thread, the sweep and the boot.  `complete_run`
is called from seven places; it is modelled once (`Settle`), with its arguments
and its place of return in the caller's locals; `saw`, which is history, adds what
the caller read of the run's process and its lease.

| Actions | Code |
| --- | --- |
| `start_run_async`, `Supersede`, `Mark`, `Insert`, `start_orchestration_run` | `start_run_async`, `start_run`, `start_orchestration_run` |
| `Admitted`, `NotAdmitted`, `ensure_still_in_flight`, `Spawn`, `record_process_identity`, `run_print_mode`, `renew_agent_run_lease` | the executor and its lease: `run_lease.py`, `cli.py`, `print_mode.py` |
| `claim_completion`, `_stop_if_already_settled`, `advance_stage_after_run`, `complete_run_tail`, `settle_stage_after_failed_completion` | `complete_run`, `run_finality.py`, `run_completion.py` |
| `AfterStage`, `EndDrive`, `_fail_in_flight_children` | the loop of `builtin_orchestrator.py`, `_finish_orchestration_run` |
| `request_cancel`, `stop_detached_process`, `EndFromOutside` | `run_cancellation.py`, `run_detached_stop.py`, a completed orchestration |
| `_supervise_until_gone`, `_claim_settlement` | `run_resupervise.py` |
| `reconcile_once`, `settle_expired_agent_runs`, `settle_orphaned_agent_runs`, `settle_expired_orchestration_leases`, `settle_stranded_stages`, `BlockStranded` | the reconcile pass |
| `Drain`, `end_drain`, `Crash`, `Boot`, `reattach_surviving_runs`, `fail_interrupted_runs`, `fail_interrupted_orchestration_runs` | `drain.py`, `main.py`'s start, `run_reattach.py`, `run_service.py` |
| `AgentExits`, `LeaseLapses`, `RenewalMissed` | the agent process, the clock |

`left` counts down what may go wrong; `Budgets` holds one or more scenarios.
The runs are print-mode runs, whose agents ask nothing.

### SlotPool

An action is one committed write or one look at the rows; looks that follow each
other, and a write with the look of the next step, are one action.  `slot`,
`orch` and `entry` are the tables (entries of whole tickets), `th` the locals of
the web threads, of one driver thread for each orchestration, and of the pass.
What several callers do is an operator with its place of return (`Call`).
`Reclaim` writes the columns that differ from what `reconcile_slots` read, as the
session does (`ghosts`).

| Actions | Code |
| --- | --- |
| `orchestrate_ticket`, `_reserve`, `Find`, `claim_orchestration_run`, `bind`, `schedule_orchestration`, `abandon_claim`, `release` | `src/server/loregarden/api/tickets.py` orchestrate, `src/server/loregarden/api/orchestration.py` start, `queue_admission.py` |
| `add_to_lane`, `already_queued`, `Insert` | `queue_lanes.add_to_lane` |
| `claim_lane_slot`, `start_lane_head`, `dispatch_orchestration`, `_start_entry_work`, `release_slot` | `queue_lanes.py`, `queue_dispatch.py`, `queue_slot_claims.py` |
| `start_orchestration_run`, `_finish_orchestration_run`, `complete_orchestration` | the driver thread; an operator's completion |
| `on_orchestration_complete`, `_hold_for_repair`, `SettleEntry`, `FreeLane` | `orchestration_callbacks.py`, `queue_lanes.py` |
| `reconcile_once`, `settle_expired_orchestration_leases`, `_drive_repairing_entries`, `_drive_one_repair`, `_settle_finished_entries`, `reconcile_slots`, `Reclaim`, `reconcile_lanes`, `claim_orphaned_orchestrations`, `Attach` | the pass, `queue_repair.py`, `slot_claim_healing.py` |
| `GraceEnds`, `begin_drain`, `end_drain`, `Crash`, `Boot` | the clock, `drain.py`, a restart |

`scene` says whether the timer runs, how many slots there are, how many requests
at a time, on which tickets, and how often each event happens.  Left out: stage
entries, the shared queue and its promotion, resizing, nested and hierarchical
tickets, an operator's moves and removals, positions in a lane, agents that
survive a restart, resumed orchestrations, and a second thread for an
orchestration whose first is still there.

### PermissionBridge

An action is one commit, one look at the agent, or one line read.  `run`,
`stage` and `card` are the rows; `told` is what the agent has been answered;
`lines` its unread output; `bridge` the thread's program counter and
`_LoopState`; `other` is whoever else settles the run.  Whoever answers a card
reads it as pending and writes its answer later, without looking again:
`deciding` holds the cards that somebody has read, `stop` the cards the stop has
selected, and `given`, which is history, every answer a card ever got.
`deciding` does not say who: a card that was read may be answered by any number
of people, until the server dies.  One stop at a time.

| Actions | Code |
| --- | --- |
| `OutOfTime`, `_finalize`, `_check_cancel`, `TakeTurn` | the top of the loop of `PermissionBridgeRunner.run` |
| `_handle_next_line`, `_scope_denial_result`, `_try_fast_approve`, `_create_permission_approval` | a line when nobody is asked; a question's card is raised like a permission's |
| `_continue_while_awaiting`, `_handle_pending_approval`, `_resume_after_approval`, `_fail_after_rejection`, `WriteFailed` | a turn while somebody is |
| `BrokenPipe`, `claim_completion`, `complete_run_tail` | `cli.py`, `complete_run` |
| `fail_interrupted_runs`, `OtherTail` | a superseding start, a sweep, a boot |
| `ReadPending`, `resolve` | `ApprovalService.resolve` up to its check of the status, and its commit; `ignore_approval` likewise |
| `request_cancel`, `_reject_pending_approvals`, `CommitCancel` | the stop: its look at the run, its selection of the cards, its commit |
| `Detect`, `block_unasked_awaits` | the invariant `AWAITING_STAGES_ARE_ASKED` |
| `Ask`, `WriteResult`, `Exit`, `Crash` | the agent, the server |

Left out: steering messages, which policy decides what, what a question holds,
chat and Home turns (which mark no stage), and a newer run on the same stage.

## 3. The runs

`pass` runs show that a property holds of every behaviour of the instance;
`violation` runs show that the code does not keep a promise that a docstring,
comment or message makes, and each belongs to a finding that quotes it.

### Capacity ledger

| Run | Instance | Shows |
| --- | --- | --- |
| `ledger_children` | 2 holders, 2 nested processes that may be killed, 3 units | `Exact`, `WithinCeiling`, `CoverExact`, `NoOrphanChild`, `NoStrandedHead` |
| `ledger_storm` | reaper, probes, heartbeats, an operator, a waiter that gives up or dies, a machine of 1 or 2 units, contention | `TypeOK`, `NoOvertaking`, `LineIsLeftOnce` |
| `ledger_recovery` | 2 claimants that may be killed, the timer, fair | `WaitersServed` |
| `ledger_double_settle` | 3 claimants of one slot that may be killed and reclaim each other's leases | violation of `WithinCeiling`: two processes settle one dead holder's lease |

Two holders and two nested processes drain, lend and release beside each other;
two units of a resource let one heavy claim or two light ones in, a third is what
a parent lends.  `NoOrphanChild` is about holders that outlive what is nested in
them (`ParentWaits`), so it says that a dead holder's settling reaches its children;
a child granted while its parent releases is section 6's.  `NoOvertaking` compares
positions and would let two waiters share one: that they never do is
`LineIsTotal`.  Rows are a bounded set, so a process may find none left: this is the
only reason for `CHECK_DEADLOCK FALSE`.

### Merge queue

| Run | Instance | Shows |
| --- | --- | --- |
| `queue_line` | 2 trees, failing pushes and checks; conflicts, a resolved ticket and a restart - or 2 versions of one tree and a withdrawal; fair | `ActiveIsFirst`, `WithdrawnNeverLanded`, `EveryEntrySettles`, `ResolvedConflictRetries` |
| `queue_operators` | 2 trees, conflicts; a withdrawal, a retry and a lost answer anywhere - or 2 required checks, a ruleset that is not strict, and people who push, merge, close and queue by hand - or 2 versions of one tree and 2 publishes that overlap | `TypeOK`, `OneActive`, `StoppedIsReported`, `MergedLandedStagedTree`, `LandsOnlyGreen`, `LandsWhatTheRowSays` |
| `queue_lost_merge` | 1 tree; a lost answer and a withdrawal | violation of `WithdrawnNeverLanded` |

Two trees are what order needs, two versions of one tree what re-pointing needs.
Each disturbance happens once in a scenario: the races found and excluded here
need one, and the scenarios differ in which ones they combine.  The queue never
stops, so deadlock is checked in all of them.

Some properties hold under one set of disturbances and not under another.
`WithdrawnNeverLanded` holds (`queue_line`) until an answer of
GitHub is lost (`queue_lost_merge`); `WithinCeiling` holds (`ledger_children`)
until two processes settle one lease (`ledger_double_settle`).  Each pair shows exactly what breaks the promise.
Section 6 lists the others.

### Tree publish

| Run | Instance | Shows |
| --- | --- | --- |
| `publish_accounts` | 2 landings that may overlap a publish, a thread that cannot start, a restart; a drain - or a completion and a failure no card records; fair | `TypeOK`, `InFlightIsRunning`, `OneScheduledPublish`, `EveryLandingAccounted` |

One root is enough: roots share nothing but the reconcile pass.  Landings are
bounded and nobody must merge or close anything, so the system may come to rest:
hence `CHECK_DEADLOCK FALSE`.  One thread lands, one publishes, one sweeps and a
completion publishes on its own: `_IN_FLIGHT` is contended by all of them, and
the theorems of section 5 cover any number.  A request to go again can be lost
between `run_tree_publish`'s last look at `_AGAIN` and its finally clause; the
property holds because the reconcile pass finds the tree.

### Run lifecycle

| Run | Instance | Shows |
| --- | --- | --- |
| `run_lifecycle` | 1 stage, 2 runs, each of the eleven scenarios of `Troubles` | `TypeOK`, `NoLiveAgentReaped`, `OneVerdict` (the refinement of `RunVerdict`), `SuccessCounts`, `EveryRunSettles`, `StageNotStranded`, `EveryDriveEnds` |

Two runs are what superseding, retrying and a board start beside a drive need.
A scenario combines up to three of: a second start, a drive, a retry, a crash, a
drain, a silent `ps`, a missed lease, a stop, a drive ended from outside, a
completion that raises.  All of them together do not fit; each race known to the
code's comments and tests needs no more than three.  In the scenario with a silent
`ps` and a missed lease the sweep does fail the run of a live agent, whose
identity is on its row: that is the case `NoLiveAgentReaped` excepts, and it fails
without the exception.  Deadlock is checked: the
reconcile timer goes on for ever.  `SuccessCounts` is claimed for runs that an
orchestration drives, since for others the code does not keep it, and no scenario
has both a retry and a completion that raises (both in section 6).

### Slot pool

| Run | Instance | Shows |
| --- | --- | --- |
| `slot_pool` | 2 lanes, 2 tickets, up to 4 orchestrations and entries, the four scenarios of `Races` and the ten of `Repairs` | `TypeOK`, `OneHolder`, `SettledIsOver`, `NoEviction`, `EntriesSettle`, `SlotsComeBack` |

Two requests race for the slots of `Races`, with a lane and a crash, while the
pass runs at boot only: there a slot has one holder and is never taken from
under work that is driven.  In `Repairs` the timer runs and one thing goes
wrong: a refused start, a blocked repair (at most `RepairCap`, which is 1), a
cancel, a reservation slower than its grace, a drain, a crash.  The pass writes
what it read before, and there the three safety properties do not hold (section
6); what is checked there is that everything comes round nevertheless.  A
scenario's `overlap` is the number of passes that begin while another thread is
at work: without a bound a pass interleaves with itself for ever.

### Permission bridge

| Run | Instance | Shows |
| --- | --- | --- |
| `permission_bridge` | 1 run, 2 requests; a stop, a settlement by somebody else and a crash, each once; fair | `TypeOK`, `AnswersAreTheirOwn`, `SilentOnlyIfRefused`, `NobodyIsLeftWaiting` |
| `bridge_verdict` | the same | violation of `FirstVerdictStands`: the thread writes awaiting, or running, over a verdict |

Two requests are what an answer to the wrong one needs, and what a second
request behind a pending card needs.  A run ends, so deadlock is not checked.
That two deciders have read one card, and both answer it, is in the instance.
`OneVerdict` of `run_lifecycle` is about print-mode runs; `bridge_verdict` shows
why it would not hold of interactive ones.

## 4. Fairness

Nothing is assumed of people, of processes that may die, or of the order in
which anything happens.  What is assumed:

- ledger: a process that has started something goes on (`WF(Step(p))`), because
  every step is a statement of a running thread, holders finish, waiters poll;
  the reconcile timer sweeps (`WF(Sweep(p))`), because its scheduler rearms it;
- queue: the CI poll keeps ticking and a cycle keeps stepping (`WF(LoopStep)`),
  the clock reaches the check timeout (`WF(TimePasses(e))`), and GitHub, asked
  again every cycle, answers some time (`SF(Confirm)`, `SF(Resume)`): the code
  retries these two calls without bound, so nothing weaker lets it finish;
- publish: threads run (`WF(Step(t))`), the reconcile timer fires (`WF(Pass)`),
  an hour passes (`WF(Forget)`), and a drain ends in a restart or a refusal
  (`WF(EndDrain)`);
- runs: threads run, an agent exits some day, a lease nobody renews lapses, the
  reconcile timer fires, a server that went down is started again; an
  orchestration nobody drives runs out of its lease again and again until a
  sweep meets it (`SF`), since the sweep is periodic;
- slots: requests and drivers run, the pass goes on and is repeated, the grace
  of a reservation ends, a drain ends, and the same strong fairness for the
  lease of an orchestration; all of it in scenes with the timer only, which alone
  promise an end;
- bridge: the thread steps; its deadlines pass however often it looks at other
  things (`SF(OutOfTime)`: the hard deadline is never moved); a boot settles the
  run of a server that died, whose agent, reading closed pipes, exits; the
  reconcile timer fires.  Nothing is assumed of people.

## 5. What is proved

Proofs are for every value of the constants that satisfies the modules' named
assumptions (finite sets of processes, rows and threads; prices within bounds;
distinct model values).

**CapacityLedgerProofs.**  `LedgerTypeCorrect` (`Spec => []TypeOK`) needs
`LocalOK`, what a process's locals name where its code uses them: without it
`Book` might charge for a row that is not one.  `NothingOvertakes`
(`Spec => []NoOvertaking`) is not inductive: that nobody ahead of a granted lease
waits depends on what processes are about to write.  `LineOK` adds that every
lease some process is about to grant, to mark or to renew is already clear of
everybody ahead of it (`VouchedClear`), that waiters ahead have smaller positions
(`WaitersOrdered`, `ArrivalsOrdered`), that who is ahead was really written, and
that positions are distinct.  Most actions neither grant nor queue: `TameKeepsLine`
handles them at once, the others have a lemma each.  `LineIsTotal` and
`LeavingIsFinal` follow from the same invariant.

**CapacityAccountProofs.**  `TotalsExact`, `NeverPastCeiling`, `CoverLentOnce`,
`NoChildOutlives` and `HeadNeverStranded`, for any number of processes, leases,
resources and prices, of processes that are `Orderly`: they ask, nest, hold,
release, wait and may be killed at any point, a holder waits for what it started,
and nobody sweeps, reclaims, force-releases or gives up.  That is the scene of
`ledger_children`.  The hypothesis is where the code stops keeping the promise:
`release_lease` writes the row and the totals without looking at them again, and
two processes that settle one row hand its booking back twice
(`ledger_double_settle`), a sweep's repair erases a booking under way, and a
cancel that meets a promotion leaves its booking charged (section 6).

The argument has three parts.  *A lease is settled once*: whoever unwinds a
release does it in an `Estate`, its own lease with everything beneath it, in
which nobody else is alive, and two estates are disjoint (`EstatesApart`, from
the parents forming no cycle); the stack of `release_lease` walks a path up the
estate, and what its frames have still to end are exactly the children
(`FrameOK`).  So a step of somebody else disturbs neither the stack nor the row
about to be written (`FamilyOK`, `StepFamily`).  *The sums move by one row*:
`Load`, `InFlight` and the cover of a parent are cardinalities of sets of units;
each is a `Tally` of weights, and when one weight changes a tally changes by as
much (`TallyShift`).  Every step changes the weights of one row and one process,
and `held` by the same amount (`ExactMove`, `CoverMove`).  With that the clamp at
zero never bites (`HandBack`), which is where an exact account needs that the
cover is at most the price.  *The head is looked at again*: who frees capacity
or joins the line is `Committed` to a further look at the head, and a drain that
stops has seen that the head, the only one because positions are distinct, does
not fit (`Attended`, `StepAttended`); this needs that no booking gives up under
contention, which leaves the line to the next poll.

**MergeQueueProofs.**  `QueueTypeCorrect`, `OneCandidateAtATime`,
`LandedHeadsAreGreen` and `MergedMeansTestedTree` are parts of one invariant,
`QInv`.  What the loop knows of its entry depends on where it stands (`Hand`):
when it begins to stage nobody is active; what it has cut is the work of the row
as long as the row is still staging; what it waits for, lands or confirms is what
the row staged, if the row is still testing or merging; the head it is about to
land was green if it is still there; past the confirmation the staged tree is on
the base.  Each of these is conditional on the row's state, because the
compare-and-swap that ends the step tests just that.  The rows carry the same
from one cycle to the next and across a restart (`Rows`), merged pull requests
are on the base (`OnBase`), and admitters and operators name rows and pull
requests that exist (`Others`).  Everybody but the loop is `Calm`: a row it moves
goes to queued or is over, never forward.  The remote only grows, and a publish
never puts a staged head back (`RemoteGrows`, `HeadsKept`).  `next_position` is
the successor of the greatest position; that there is a greatest is proved for
any finite table (`GreatestExists`).

`LandsForItsRow` proves `LandsWhatTheRowSays` of every behaviour in which no
retry meets the `IntegrityError` (`[](op.pc # "again")`).  The hypothesis is the
exact gap: without it the retry takes whatever state it reads, and TLC finds a
merging row re-queued and re-pointed before its work lands (section 6).  The
proof adds `Claimed`: while GitHub is asked to merge the row reads merging, a
retry swaps from a retryable state and a re-pointing from queued, staging or
testing.

`WithdrawnStaysOut` proves `WithdrawnNeverLanded` by `Tracked`: a row the loop has
landed something for is merged, or still merging with a pull request that reads
merged with the staged tree, and the loop asks to merge, or doubts that it did,
only for a row it has not landed.  Its three hypotheses are each needed, by a
counterexample TLC finds: no answer is lost (`queue_lost_merge`); the ruleset is
strict (otherwise GitHub may squash onto a newer tip, the tree is not the staged
one, and the landed entry is failed, retried and withdrawn); no retry meets the
`IntegrityError` (otherwise it re-queues the row while it lands).

`FirstInFirstOut` proves `ActiveIsFirst` where no operator retries.  `Line` says
that live positions are distinct, that the active row is first, and that the row
about to be staged, still queued, leads everybody in line.  A row that joins does
so at `next_position`, behind all; a re-pointed or restaged one keeps its place.
With a retry the invariant fails as section 6 says.

`StopsAreReported` proves `StoppedIsReported` of the behaviours without a crash in
which no row is put before the place it has (`[][Back]_vars`).  `Filed` carries a
stop to its card: a stopped row is reported, or is the one the loop is filing, and
a cycle past the confirmation is about a merged pull request, so the card it
closes is not needed.  A reminder closes a card two rows may share, but puts the
one it retries behind the other, which is what stands for the card.  That is why
rows may only move back.  `RowsMoveBack` proves that they do in every scenario
without operator retries, and in every one in which nobody closes a conflict
ticket (`Unresolved`: a blocked row has an open ticket, so no reminder moves the
row a retry has read).  With both, a retry that read the end of the line before
reminders moved its row may put it back at an older position.

**TreePublishProofs.**  `Lock` says that the scheduler's set is a lock per root:
whoever holds a root has it in `_IN_FLIGHT`, no two threads hold one root, and
every root in flight has a holder; typing says that publish threads do nothing
but publish.  A step of one thread keeps, takes, hands over or gives back a root,
and there is a lemma for each.  `NoRootIsStuck` and `RootsAreExclusive` are its
parts.  `PublishedAdvances` proves `[][sha' >= sha]_vars` when no completion
publishes past the scheduler: a running publish read its tip after the last
record, since the lock admits no other record in between (`Forward`).
Without the hypothesis TLC finds a completion that records an older tip (budget
`complete`), so it is needed.  `PublishTypeCorrect` (`Spec => []TypeOK`) rests on
`Lock` as well: what a thread records, files or forgets is about a root it holds,
and a card is filed by somebody who has read its budget (`Publishing`).

**RunLifecycleProofs.**  `TypeCorrect` (`Spec => []TypeOK`) and `VerdictStands`
(`Spec => OneVerdict`): for any number of runs and any budget, every behaviour of
the lifecycle is a behaviour of `RunVerdict`: a run gets one verdict, announced
at most once and after it stands.  The invariant says that a thread past the
claim holds the verdict of the row, not yet announced (`Holding`), that it is the
only one (`Alone`), that what is announced is settled (`Announced`), and that a
run that is still being started has no row (`Rowless`).  Only `Insert`, the claim
and the tail touch what `RunVerdict` sees; every other action is `Quiet`, and one
lemma for each says so.  Without the compare-and-swap (`claim_completion_Blind`)
`Alone` falls, and with it the refinement.

**RunReaperProofs.**  `LiveAgentsAreSpared` (`Spec => []NoLiveAgentReaped`):
where the row names the agent's process, no claim is made over a live agent by
`fail_interrupted_runs`, by the sweep of orphans, by the end of an orchestration
or by the sweep of leases, though between the `ps` and the claim the supervisor
goes on, the server may restart and a boot may be working through a list it made
long before; a `ps` that was silent makes no difference to the first three.  It
does to the last: `agent_run_lease_expired` lets the lease decide then
(`run_lease.py`:133), and fails a live agent whose lease had lapsed; the theorem
says that this is the only way.  Of a run whose row names no process it says
nothing, nor of a second start, which asks nobody (section 6).  The invariant
adds to that of `RunLifecycleProofs` that a supervisor that may still spawn has a
row without an identity (`Nameless`), that no row without a run has one (`Blank`), and that the run such
a claim is about has an identity and an agent that has ended (`Knowing`): an
agent is spawned once and only before its identity is recorded, so an ended one
stays so.  For the boot, no supervisor runs while it does (`Hushed`), so what was
dead when it made its list is dead when it comes to it (`Found`).  `ReapStep`
says what the invariant needs of a step; a step of one thread, of an agent and
of the server has a lemma each.

`SuccessDecides` proves the action property `SuccessCounts`: while the drive
lives and every row is under it, whoever is about to decide after a success finds
the stage running, so the success decides.  `OneAtATime` is why: at most one run
is active (its driver has marked the stage, it is in flight, or its completion has
yet to say where the stage goes), the stage is running as long as one is, and a
driver marks the stage only when none is.  It needs that there is one driver, that
no orchestration starts beside rows of an earlier one (`NoDriveYet`), and that the
sweep and the boot never block a stage at once (`SweepServes`, from the boot's
`Hushed`).  A step that brings no driver, row or active run keeps all of it
(`NarrowKeeps`, `Gentle` for one thread); the drive's start, its marks, its rows,
claims, decisions and blocks have a lemma each.  The hypothesis, that completions
never raise or failures are never transient, is exact: with one of each TLC finds
the behaviour of section 6.  Where nothing is transient an orchestration drives
one run in all (`OneInAll`), and so a completion that raises blocks nobody
else's stage.

**PermissionBridgeProofs.**  `BridgeTyped`, `BridgeAnswersAreTheirOwn` and
`BridgeSilentOnlyIfRefused`, for any number of requests, cards and troubles.
That an answer is its request's own needs that a request nobody has read stands
once in the output, unanswered and without a card (`Unread`), that the one in
hand is unanswered until the thread answers it (`InHand`), that nothing has
a card before it is asked (`Unasked`), no answer before it has a card
(`Unanswered`), and that people and the stop write only to cards that were raised
(`Selected`).  It does not say that the card and the agent agree: of two answers
the agent is told the first one the thread reads, and the card keeps the last
(section 6).  That a run whose thread came home was
announced needs who is about to announce it: the thread that wrote the verdict,
another settler at its tail, or nobody because the server died; a refusal is
the exception the code makes (`Announcing`, `RefusalTold`).

**SlotPoolProofs.**  `TypeCorrect` (`Spec => []TypeOK`) holds of every scenario;
it says that a thread's locals name what the next line of its code uses (`Fine`).
`SlotsHaveOneHolder`, `SettledWorkIsOver` and `NobodyEvicted` (`OneHolder`,
`SettledIsOver`, `NoEviction`) are proved for any number of slots, tickets,
requests, orchestrations and entries, through crashes, boots, drains, blocks held
for a repair and claims that outlive their grace.  The three properties are about
a pass that runs at boot only; `Undisturbed` adds that there nobody ends an
orchestration from outside (`cancel`) and no start is refused once its slot is
bound (`refuse`).  That is the exact gap: with either of the two, once, TLC
finds each of the three violated, because two threads then complete one
orchestration and free its slot twice, the second time from under its next
occupant.

A claim is one statement, so a slot that is busy and names nobody is held by one
thread, which finds it as it left it (`Own`, `OneHolds`).  An orchestration is
completed by its own driver, once, and when that driver frees the slot it found
the slot still names its orchestration: to name another it would have to be freed
first, by the same driver.  The pass of a boot has the tables to itself
(`Alone`), so the entries it goes through have ended and are not started by its
own calls, and a slot it read as naming nothing names nothing when it is freed
(`Sweeping`).  A worker's step is judged by what it may write
(`Takes`, `TouchesSlots`, `TouchesEntries`), and two lemmas (`OthersOwn`,
`OthersNamed`) say that nothing else disturbs the other workers.  The least free
slot and the next row need that a finite set of numbers has a least and a
greatest member (`LeastNumber`, `GreatestNumber`); that `Orchs` is finite,
as a table's ids are, is an assumption of `SlotPool`.

**Only model-checked**: `SlotPool`'s `EntriesSettle` and `SlotsComeBack`, and with
them all that is said of its timer; the queue outside the hypotheses above; the
bridge's `FirstVerdictStands` (which fails); the bound on cards in `TreePublish`;
and all liveness.  Liveness under fairness and ENABLED
are beyond the installed provers, and so are the library's induction theorems;
where an induction over numbers is needed it is done on a least counterexample
(`LeastNumber`).

## 6. Findings and known limits

Three findings have a run each and the sentence of the repository they
contradict (`PROJECT.json`, "findings"): the lease that is settled twice, the
merge whose lost answer is read as a moved base, and the verdict the permission
bridge overwrites.

The model shows further limits of the code that no listed run is about.  They
are why some properties are checked with some disturbances switched off, and
each can be reproduced by the constants named here.

- A sweep's `repair_pool` between a drain's booking and its row erases the
  booking: `WithinCeiling` fails with two claimants, one slot and a sweeper.
- A child granted during its parent's release outlives it: `NoOrphanChild` fails
  with `ParentWaits = FALSE`.
- The reaper returns before `repair_pool` on an idle ledger, so what a killed
  drain leaked stays leaked until somebody claims; and a lease released during
  the reaper's probe is written back as orphaned.
- The swap that begins staging compares the state alone: `ActiveIsFirst` fails
  with `withdraw` and `retry` in one scenario, and with `resolve` and `retry`,
  where a retry that lost its position swaps from a state it never judged.
- That retry (`merge_queue.py`:381) reads the entry's state again and sends
  whatever it finds back to queued, though only a failed, timed-out or withdrawn
  entry may be retried (its message at line 374): an entry that a resolved
  ticket put back meanwhile is requeued while it is tested or merged, and lands
  with the row already naming another head.  `LandsWhatTheRowSays` fails with
  `retry` and `resolve` in one scenario, and `WithdrawnNeverLanded` with a
  withdrawal besides; the runs keep them apart.
- The card is filed after the stop is committed: `StoppedIsReported` fails with
  `crash` in the scenario.
- An operator's retry neither closes the entry's card nor resets `attempts`;
  `CleanUp` may delete a head a newer publish has just pushed; a resolved
  conflict is retried with the head that conflicted unless a publish re-points
  the entry.
- A completion publishes past `_IN_FLIGHT`, and work may land between the look
  at the base and the closing of a card; `EveryLandingAccounted` holds
  nevertheless.
- *Ledger, not covered*: a ceiling that shrinks below the price of the head
  wedges the line until it grows back; cancelling a waiter that was promoted
  since its row was read ends the row and leaves its booking in the totals until
  a repair.
- *Lifecycle, runs nobody drives*: `settle_stranded_stages` may block a healthy
  stage between the two commits of `start_run`, or between the claim of a
  completion and its tail, and then the success is thrown away.
- *Lifecycle, a completion that raises late*: the sweep fails a run whose renewal
  was missed, re-arms the stage, and raises before its tail ends
  (`orchestration.py`:1066).  The driver has meanwhile started the next run; the
  last-ditch settle blocks the stage under it, and that run's success is thrown
  away.  `SuccessCounts` fails with `drive`, `missed`, `retry` and `raise` in one
  scenario.
- A run settled between its last check and its spawn gets an agent all the same
  (`run_lease.py`:259); a crash between spawn and record leaves an agent nobody
  knows; a reaper that read the row before the identity was recorded fails a
  live agent, and so does the lease sweep where `ps` is silent and the lease has
  lapsed, as its comment (862) intends; the agent of a superseded run works on.
- `_finish_orchestration_run` and `run_resupervise._complete` without a ticket
  write a status without a compare-and-swap; the driver of a cancelled run
  blocks the stage the cancel left pending; a completion that raises after the
  stage advanced blocks it; the tail of a run may settle the stage its successor
  works on after a restart.
- At boot an agent that exited well while the server was down counts as failed,
  and a live one whose `ps` does not answer is supervised by nobody until its
  lease lapses.  `resume_stranded_stages` is left out.
- *Slots*: a request that finds another's orchestration, which ends before its
  own thread looks, runs the ticket in no lane.  Two requests may bind one
  orchestration to two lanes; a lane's check for duplicates is a read before the
  insert.
- `Reservation.release` after `abandon_claim` may free a slot that somebody else
  has reserved since, which its docstring excludes.
- *Two answers to one card*: `ApprovalService.resolve` and `ignore_approval` check
  that a card is pending and commit their answer later, by its id
  (`orchestration.py`:1136 and 1164, `approval_ignore.py`:97 and 105), and the stop
  rejects with its own commit what it selected (`run_cancellation.py`:154 and 108).
  Two of them may both pass; the agent is told what the thread reads first, and the
  card then says the other.  Approved may thus stand on a card whose agent was ended
  as refused, and the reverse, and "Approval already resolved" (with
  `approval_ignore.py`:91, "Raises ``ValueError`` for ... one already resolved") is
  raised to the second only if it looks late enough.  `AnswersAreTheirOwn` therefore
  speaks of the answers a card was given, not of the one it shows.  (On SQLite the
  flush of the cancel before the stop's selection takes the write lock, which makes
  its selection and commit one step there; the model does not rely on it.)
- Two completions of one orchestration (with a cancel) free the lane twice, the
  second under the next head.  A reclaim written from a stale read followed by a
  completion's unconditional free dispatches one entry twice: hence `OneHolder`,
  `NoEviction` and `SettledIsOver` are claimed without the timer only.
- A slot the sweep read as a ghost and that was bound before the sweep's commit is
  freed with its occupant's id still on it (`parallel_queue.py`:543: a column that
  was null already is not written), so the next claim takes it from work that runs.
- A hold for a repair written after the sweep reclaimed its slot leaves an entry
  without a lane until the next pass.  Resizing may delete a slot claimed since
  it was found idle (`slot_pool.py`:75; not modelled).

- *Bridge*: a refusal writes `failed` on the row itself, so `complete_run` finds
  the run settled and runs no tail: no completion event (`SilentOnlyIfRefused`
  names this exception).  A stop between the commit of a card and of the awaiting
  status leaves the card pending; a stop that rejects the card may end the run
  as failed before the thread polls for the stop.  The repair of unasked awaits
  may block a stage between a person's answer and the thread's resume.

## 7. Plan

1. *Abstract specifications*: a capacity pool (grant what fits, in order) that
   `CapacityLedger` without repairs and double settlements implements; an
   abstract queue (one candidate at a time, lands what was tested) for
   `MergeQueue`; a single-flight publisher for `TreePublish`.
2. *Composition*: `SlotPool` with `RunLifecycle`, so that a driver thread is a
   drive of runs; `TreePublish` with the admission half of `MergeQueue`, so that
   `BaseTakes` becomes the queue's landing.
3. *Slots*: resizing, stage entries and the shared queue.
4. *Workflow*: stage map, verdicts, rework and its retry budget, gates.
5. *Algorithms*: dependency cycles, rollup, wait estimates, against reference
   definitions over bounded graphs.
6. *Worktrees, parallel stages*; the bridge of chat and Home turns.
7. *Proofs*: `SlotPool` with its timer; the card bound of `TreePublish`; the
   refinements of item 1.
