----------------------------- MODULE MergeQueue -----------------------------
(***************************************************************************)
(* The merge queue of one workspace: services/merge_queue.py (admission,    *)
(* order, withdrawal), merge_queue_loop.py (the loop that stages, waits for *)
(* the checks and lands), merge_queue_reports.py (the inbox cards and the   *)
(* conflict tickets) and the publish chain that feeds it, publish_tree.py   *)
(* and git_automation.py.                                                   *)
(*                                                                         *)
(* Actors: the loop (one thread, the CI poll tick), admitters (a publish    *)
(* thread per tree, and requests from the board), operators, GitHub and the *)
(* people who use it.  An action is one database transaction or one call    *)
(* to the remote; everything between two of them may interleave.            *)
(*                                                                         *)
(* `main' is the base branch on the remote, oldest first, and the index of  *)
(* a commit stands for its sha.  A tree is what it contains: how much of    *)
(* each branch's work, and how many commits of nobody's.  A head sha is the *)
(* version of a branch's work.                                              *)
(***************************************************************************)
EXTENDS Integers, FiniteSets, Sequences

CONSTANTS
    Branches,         \* integration branches, one per ticket tree
    Nobody,           \* what a commit made outside the program counts as
    Admitters,        \* threads that may admit a candidate
    Ids,              \* ids of merge_queue_entries rows
    MaxAttempts,      \* settings.merge_queue_max_attempts
    EntriesPerCycle,  \* _ENTRIES_PER_CYCLE
    MaxWork,          \* bound: versions of a branch's work
    Scenarios         \* the bases and the worlds the queue may find itself in

(* crash: the server restarts, or a cycle raises; lost: a remote call that  *)
(* takes effect and reports failure; outside, merge, close: people on       *)
(* GitHub; withdraw, retry, request: operators on the board; resolve:       *)
(* somebody closes a conflict ticket; commit: a ticket lands on its tree;   *)
(* overlap: an admission begins beside another.                             *)
Events == {"crash", "lost", "outside", "merge", "close", "withdraw", "retry", "request",
           "resolve", "commit", "overlap"}

(* required: the required status checks of the base; strict: whether its    *)
(* ruleset wants an up-to-date head; conflicts: whether staging may meet a  *)
(* conflict; prs, work: bounds on the pull requests opened for a branch and *)
(* on the tickets landed on one; events: bound: how often each thing        *)
(* outside the loop happens.                                                *)
IsScenario(s) ==
    /\ s = [required |-> s.required, strict |-> s.strict, conflicts |-> s.conflicts,
             prs |-> s.prs, work |-> s.work, events |-> s.events]
    /\ {s.strict, s.conflicts} \subseteq BOOLEAN
    /\ s.prs \in Nat /\ s.work \in 0 .. MaxWork
    /\ s.events \in [Events -> Nat]

ASSUME MergeQueueAssumption ==
    /\ IsFiniteSet(Ids) /\ Ids \subseteq Nat \ {0}
    /\ Nobody \notin Branches
    /\ {MaxAttempts, EntriesPerCycle, MaxWork} \subseteq Nat
    /\ \A s \in Scenarios : IsScenario(s)

VARIABLES
    entry,      \* the table merge_queue_entries
    cards,      \* pending "Merge queue stopped" cards, by pull request
    artifact,   \* the newest conflict ticket filed for an entry
    tip,        \* the work on each integration branch
    published,  \* ticket.landed_sha: the work last published
    main,       \* the base branch on the remote
    ref,        \* publish/<branch> on the remote
    checks,     \* the required checks on each of those heads
    prs,        \* the pull requests opened for each branch
    loop,       \* the loop's program counter and locals
    adm,        \* those of each admitter
    op,         \* those of an operator's retry
    scene       \* the scenario, its events what remains of them

rows   == <<entry, cards, artifact>>
remote == <<main, ref, checks, prs>>
work   == <<tip, published>>
vars   == <<rows, work, remote, loop, adm, op, scene>>

-----------------------------------------------------------------------------
(* Rows, commits and trees.                                                 *)

QUEUED_STATES   == {"queued"}
ACTIVE_STATES   == {"staging", "testing", "merging"}
TERMINAL_STATES == {"merged", "failed", "timed_out", "withdrawn"}
RETRYABLE       == {"failed", "timed_out", "withdrawn"}

State == {"none"} \cup QUEUED_STATES \cup ACTIVE_STATES \cup TERMINAL_STATES

Work == 0..MaxWork

(* A commit cut on a tip of the base: by the queue, or by a publish.        *)
Commit   == [base : Nat, work : Work, queue : BOOLEAN]
NoCommit == [base |-> 0, work |-> 0, queue |-> FALSE]

Tree   == [Branches \cup {Nobody} -> Nat]
NoTree == [x \in Branches \cup {Nobody} |-> 0]

Outcome == {"absent", "pending", "passing", "failing"}

(* `late': the wait for the checks has timed out; `blocked': failed, on a   *)
(* conflict ticket that was open.                                           *)
Entry == [state : State, branch : Branches \cup {Nobody}, pr : Nat, work : Work,
          pos : Nat, attempts : Nat, staged : Commit, late : BOOLEAN,
          blocked : BOOLEAN, artifact : BOOLEAN]

NoEntry == [state |-> "none", branch |-> Nobody, pr |-> 0, work |-> 0,
            pos |-> 0, attempts |-> 0, staged |-> NoCommit, late |-> FALSE,
            blocked |-> FALSE, artifact |-> FALSE]

Live == {e \in Ids : entry[e].state \in QUEUED_STATES \cup ACTIVE_STATES}

Active == {e \in Ids : entry[e].state \in ACTIVE_STATES}

First(S) == {e \in S : \A f \in S : entry[e].pos <= entry[f].pos}

(* Mutant: the head is the first in line, whatever is being tested.         *)
head_entry_First == First(Live)

(* Mutant: the newest entry is served first.                                *)
head_entry_Newest ==
    IF Active # {} THEN First(Active)
    ELSE {e \in Live : \A f \in Live : entry[f].pos <= entry[e].pos}

(* head_entry: the active entry, else the first queued one; at most one.    *)
head_entry == IF Active # {} THEN First(Active) ELSE First(Live)

live_with_head(b, w) == {e \in Live : entry[e].branch = b /\ entry[e].work = w}

live_for_pr(b, n) == {e \in Live : entry[e].branch = b /\ entry[e].pr = n}

(* _next_position: after the highest the workspace has ever used.           *)
next_position ==
    LET used == {entry[e].pos : e \in Ids} \cup {0}
    IN  1 + (CHOOSE p \in used : \A q \in used : q <= p)

Later(m, n) == IF m <= n THEN n ELSE m

Tip == Len(main)

(* squash_onto: the work merged into a commit of the base.                  *)
Merged(b, w, tree) == [tree EXCEPT ![b] = Later(@, w)]

TreeOf(b, c) == Merged(b, c.work, main[c.base].tree)

PrOf(e) == prs[entry[e].branch][entry[e].pr]

HasOpen(b) == /\ prs[b] # <<>>
              /\ prs[b][Len(prs[b])].state = "open"

(* The settings of the base, which no action changes.                       *)
Required == scene.required

Unrun == [r \in Required |-> "absent"]

-----------------------------------------------------------------------------
(* Locals.  `seen' are the entries this cycle has stepped, `todo' the ones  *)
(* _remind_blocked has yet to look at, `cut' the staged commit (as the row  *)
(* named it when it was picked, or as just cut), `base' the base GitHub     *)
(* named when it was asked about the pull request.                          *)

LoopPC == {"idle", "remind", "pick", "stage", "cut", "conflicted", "file", "block",
           "push", "staged", "wait", "failing", "moved", "closed", "adopt", "land",
           "claim", "merge", "refused", "resume", "confirm", "mismatch", "cleanup",
           "finish", "close", "report"}

Loop == [pc : LoopPC, e : Ids \cup {0}, seen : SUBSET Ids, todo : SUBSET Ids,
         cut : Commit, base : Nat]

Idle == [pc |-> "idle", e |-> 0, seen |-> {}, todo |-> {}, cut |-> NoCommit, base |-> 0]

(* `publish' is a publish of the tree, which pushes and opens the pull      *)
(* request first; `from' the state the row to re-point was read in.         *)
AdmPC == {"idle", "push", "open", "lookup", "repoint", "insert"}

Adm == [pc : AdmPC, publish : BOOLEAN, branch : Branches \cup {Nobody}, pr : Nat,
        commit : Commit, work : Work, target : Ids \cup {0}, from : State]

Absent == [pc |-> "idle", publish |-> FALSE, branch |-> Nobody, pr |-> 0,
           commit |-> NoCommit, work |-> 0, target |-> 0, from |-> "none"]

(* A retry on the board: the state it read and the position it read.        *)
Op == [pc : {"idle", "write", "again"}, e : Ids \cup {0}, from : State, pos : Nat]

NoOp == [pc |-> "idle", e |-> 0, from |-> "none", pos |-> 0]

PullRequest == [state : {"open", "merged", "closed"}, tree : Tree]

Spend(what) == /\ scene.events[what] > 0
               /\ scene' = [scene EXCEPT !.events[what] = @ - 1]

Goto(pc) == loop' = [loop EXCEPT !.pc = pc]

(* A step that returns False ends the cycle.                                *)
EndCycle == loop' = Idle

E == entry[loop.e]

(* transition: a compare-and-swap on the row's state; a row somebody else   *)
(* moved is left alone (_gone) and the cycle goes on to the next entry.     *)
Transition(from, new, next) ==
    \/ /\ E.state = from
       /\ entry' = [entry EXCEPT ![loop.e] = new]
       /\ next
    \/ /\ E.state # from
       /\ Goto("pick")
       /\ UNCHANGED entry

(* _stop: out of the queue, then the card.                                  *)
Stop(from, to) ==
    Transition(from, [E EXCEPT !.state = to, !.blocked = FALSE], Goto("report"))

(* What a retry leaves of a row.                                            *)
Retried(r, p) ==
    [r EXCEPT !.state = "queued", !.blocked = FALSE, !.pos = p, !.staged = NoCommit,
              !.late = FALSE, !.artifact = FALSE]

-----------------------------------------------------------------------------
(* The cycle (MergeQueueLoop.advance).                                      *)

Tick ==
    /\ loop.pc = "idle"
    /\ loop' = [Idle EXCEPT !.pc = "remind",
                 !.todo = {e \in Ids : entry[e].state = "failed" /\ entry[e].blocked}]
    /\ UNCHANGED <<rows, work, remote, adm, op, scene>>

(* Mutant: only an entry without a conflict ticket is retried.              *)
Remind_Unfiled(e) ==
    /\ loop.pc = "remind"
    /\ e \in First(loop.todo)
    /\ loop' = [loop EXCEPT !.todo = @ \ {e}]
    /\ IF /\ artifact[e] = "none"
          /\ entry[e].state \in RETRYABLE
          /\ live_with_head(entry[e].branch, entry[e].work) = {}
       THEN /\ entry' = [entry EXCEPT ![e] = Retried(@, next_position)]
            /\ cards' = cards \ {<<entry[e].branch, entry[e].pr>>}
       ELSE UNCHANGED <<entry, cards>>
    /\ UNCHANGED <<artifact, work, remote, adm, op, scene>>

(* _remind_blocked, one entry: a resolved conflict ticket retries it and    *)
(* closes its card; a retry that is refused is reported and passed over.    *)
Remind(e) ==
    /\ loop.pc = "remind"
    /\ e \in First(loop.todo)
    /\ loop' = [loop EXCEPT !.todo = @ \ {e}]
    /\ IF /\ artifact[e] # "open"
          /\ entry[e].state \in RETRYABLE
          /\ live_with_head(entry[e].branch, entry[e].work) = {}
       THEN /\ entry' = [entry EXCEPT ![e] = Retried(@, next_position)]
            /\ cards' = cards \ {<<entry[e].branch, entry[e].pr>>}
       ELSE UNCHANGED <<entry, cards>>
    /\ UNCHANGED <<artifact, work, remote, adm, op, scene>>

RemindDone ==
    /\ loop.pc = "remind"
    /\ loop.todo = {}
    /\ Goto("pick")
    /\ UNCHANGED <<rows, work, remote, adm, op, scene>>

(* Where _step takes an entry, by the state it is read in.                  *)
StepOf(state) ==
    CASE state = "queued"  -> "stage"
      [] state = "staging" -> "cut"
      [] state = "testing" -> "wait"
      [] state = "merging" -> "resume"

(* One turn of the cycle's loop: nothing to do, done enough, or a step.     *)
Pick ==
    /\ loop.pc = "pick"
    /\ IF \/ head_entry \subseteq loop.seen
          \/ Cardinality(loop.seen) >= EntriesPerCycle
       THEN EndCycle
       ELSE \E e \in head_entry :
              loop' = [loop EXCEPT !.e = e, !.seen = @ \cup {e}, !.cut = entry[e].staged,
                                   !.pc = StepOf(entry[e].state)]
    /\ UNCHANGED <<rows, work, remote, adm, op, scene>>

-----------------------------------------------------------------------------
(* Steps 1 and 2: stage and publish (_stage, cut, _conflicted).             *)

BeginStaging ==
    /\ loop.pc = "stage"
    /\ Transition("queued", [E EXCEPT !.state = "staging", !.blocked = FALSE], Goto("cut"))
    /\ UNCHANGED <<cards, artifact, work, remote, adm, op, scene>>

(* Staged too often without landing.                                        *)
GiveUp ==
    /\ loop.pc = "cut"
    /\ E.attempts >= MaxAttempts
    /\ Stop("staging", "failed")
    /\ UNCHANGED <<cards, artifact, work, remote, adm, op, scene>>

(* Mutant: no limit on how often an entry is staged.                        *)
CutClean_Unbounded ==
    /\ loop.pc = "cut"
    /\ loop' = [loop EXCEPT !.pc = "push",
                 !.cut = [base |-> Tip, work |-> E.work, queue |-> TRUE]]
    /\ UNCHANGED <<rows, work, remote, adm, op, scene>>

(* cut: the work as the row names it now, merged onto the fetched tip.      *)
CutClean ==
    /\ loop.pc = "cut"
    /\ E.attempts < MaxAttempts
    /\ loop' = [loop EXCEPT !.pc = "push",
                 !.cut = [base |-> Tip, work |-> E.work, queue |-> TRUE]]
    /\ UNCHANGED <<rows, work, remote, adm, op, scene>>

CutConflicted ==
    /\ loop.pc = "cut"
    /\ E.attempts < MaxAttempts
    /\ scene.conflicts
    /\ Goto("conflicted")
    /\ UNCHANGED <<rows, work, remote, adm, op, scene>>

(* The base could not be fetched, or git could not compute the merge.       *)
CutUndetermined ==
    /\ loop.pc = "cut"
    /\ E.attempts < MaxAttempts
    /\ Transition("staging", [E EXCEPT !.state = "failed", !.blocked = FALSE],
                  Goto("report"))
    /\ UNCHANGED <<cards, artifact, work, remote, adm, op, scene>>

(* _conflicted, in three transactions: failed; the ticket a person resolves *)
(* it through, unless nothing above can hold one; blocked on that ticket.   *)
RecordConflict ==
    /\ loop.pc = "conflicted"
    /\ Transition("staging", [E EXCEPT !.state = "failed", !.blocked = FALSE], Goto("file"))
    /\ UNCHANGED <<cards, artifact, work, remote, adm, op, scene>>

FileArtifact ==
    /\ loop.pc = "file"
    /\ \/ /\ artifact' = [artifact EXCEPT ![loop.e] = "open"]
          /\ Goto("block")
       \/ /\ Goto("report")
          /\ UNCHANGED artifact
    /\ UNCHANGED <<entry, cards, work, remote, adm, op, scene>>

(* Mutant: the conflict ticket is taken for the report.                     *)
BlockOnArtifact_NoCard ==
    /\ loop.pc = "block"
    /\ IF E.state = "failed"
       THEN entry' = [entry EXCEPT ![loop.e].blocked = TRUE, ![loop.e].artifact = TRUE]
       ELSE UNCHANGED entry
    /\ Goto("pick")
    /\ UNCHANGED <<cards, artifact, work, remote, adm, op, scene>>

(* Somebody may have retried it in between; the card is filed regardless.   *)
BlockOnArtifact ==
    /\ loop.pc = "block"
    /\ IF E.state = "failed"
       THEN entry' = [entry EXCEPT ![loop.e].blocked = TRUE, ![loop.e].artifact = TRUE]
       ELSE UNCHANGED entry
    /\ Goto("report")
    /\ UNCHANGED <<cards, artifact, work, remote, adm, op, scene>>

(* report_stopped: one pending card per pull request, refreshed or filed.   *)
ReportStopped ==
    /\ loop.pc = "report"
    /\ cards' = cards \cup {<<E.branch, E.pr>>}
    /\ Goto("pick")
    /\ UNCHANGED <<entry, artifact, work, remote, adm, op, scene>>

(* A push to publish/<branch>: a new head, on which no check has run.       *)
Pushed(b, c) ==
    /\ ref' = [ref EXCEPT ![b] = c]
    /\ checks' = [checks EXCEPT ![b] = Unrun]

(* push_commit_as: the lease is what the remote was just read to hold.      *)
PushStaged ==
    /\ loop.pc = "push"
    /\ Pushed(E.branch, loop.cut)
    /\ Goto("staged")
    /\ UNCHANGED <<rows, work, main, prs, adm, op, scene>>

(* Mutant: a failed push is not counted as an attempt.                      *)
PushFails_Uncounted ==
    /\ loop.pc = "push"
    /\ Transition("staging", [E EXCEPT !.state = "queued"], EndCycle)
    /\ UNCHANGED <<cards, artifact, work, remote, adm, op, scene>>

(* A push that failed, or whose answer was lost: staged again, and counted. *)
PushFails ==
    /\ loop.pc = "push"
    /\ \/ UNCHANGED <<ref, checks, scene>>
       \/ Pushed(E.branch, loop.cut) /\ Spend("lost")
    /\ Transition("staging", [E EXCEPT !.state = "queued", !.attempts = @ + 1], EndCycle)
    /\ UNCHANGED <<cards, artifact, work, main, prs, adm, op>>

RecordStaged ==
    /\ loop.pc = "staged"
    /\ Transition("staging",
                  [E EXCEPT !.state = "testing", !.blocked = FALSE, !.staged = loop.cut,
                            !.attempts = @ + 1, !.late = FALSE],
                  EndCycle)
    /\ UNCHANGED <<cards, artifact, work, remote, adm, op, scene>>

-----------------------------------------------------------------------------
(* Step 3: wait (_wait, read_required, unreported).                         *)

TimeOut ==
    /\ loop.pc = "wait"
    /\ E.late
    /\ Stop("testing", "timed_out")
    /\ UNCHANGED <<cards, artifact, work, remote, adm, op, scene>>

(* A hold writes only why the entry is not moving; GitHub could not be      *)
(* asked, or a required check has not reported or still runs.               *)
Hold(from) == IF E.state = from THEN EndCycle ELSE Goto("pick")

Unreachable ==
    /\ \/ loop.pc \in {"wait", "land"} /\ Hold("testing")
       \/ loop.pc \in {"resume", "confirm"} /\ Hold("merging")
    /\ loop.pc = "wait" => ~E.late
    /\ UNCHANGED <<rows, work, remote, adm, op, scene>>

(* Mutant: a check that has not reported is not waited for.                 *)
WaitVerdict_Reported(p, head, run) ==
    CASE p.state = "merged" /\ p.tree = TreeOf(E.branch, loop.cut) -> "adopt"
      [] p.state = "merged" /\ p.tree # TreeOf(E.branch, loop.cut) -> "closed"
      [] p.state = "closed" -> "closed"
      [] OTHER -> IF head # loop.cut THEN "moved"
                  ELSE IF \E r \in Required : run[r] = "failing" THEN "failing"
                  ELSE IF \E r \in Required : run[r] = "pending" THEN "hold"
                  ELSE "land"

(* What the reading of the pull request says: it is not open any more, its  *)
(* head is not the staged commit, a required check failed, is absent or     *)
(* runs, or all passed.                                                     *)
WaitVerdict(p, head, run) ==
    CASE p.state = "merged" /\ p.tree = TreeOf(E.branch, loop.cut) -> "adopt"
      [] p.state = "merged" /\ p.tree # TreeOf(E.branch, loop.cut) -> "closed"
      [] p.state = "closed" -> "closed"
      [] OTHER -> IF head # loop.cut THEN "moved"
                  ELSE IF \E r \in Required : run[r] = "failing" THEN "failing"
                  ELSE IF \E r \in Required : run[r] \in {"absent", "pending"} THEN "hold"
                  ELSE "land"

(* read_pull_request and required_contexts.  GitHub's base may lag.         *)
AskGitHub ==
    /\ loop.pc = "wait"
    /\ ~E.late
    /\ LET verdict == WaitVerdict(PrOf(loop.e), ref[E.branch], checks[E.branch])
       IN  \/ verdict = "hold" /\ Hold("testing")
           \/ /\ verdict # "hold"
              /\ \E n \in 1..Tip : loop' = [loop EXCEPT !.pc = verdict, !.base = n]
    /\ UNCHANGED <<rows, work, remote, adm, op, scene>>

StopFailing ==
    /\ loop.pc = "failing"
    /\ Stop("testing", "failed")
    /\ UNCHANGED <<cards, artifact, work, remote, adm, op, scene>>

(* _restage: discard the staged commit and stage again on the current tip.  *)
Restage ==
    /\ loop.pc = "moved"
    /\ Transition("testing", [E EXCEPT !.state = "queued", !.staged = NoCommit, !.late = FALSE],
                  EndCycle)
    /\ UNCHANGED <<cards, artifact, work, remote, adm, op, scene>>

(* _closed_outside: merged with the staged tree it is the queue's landing   *)
(* all the same; otherwise the entry fails.                                 *)
StopClosed ==
    /\ loop.pc = "closed"
    /\ Stop("testing", "failed")
    /\ UNCHANGED <<cards, artifact, work, remote, adm, op, scene>>

Adopt ==
    /\ loop.pc = "adopt"
    /\ Transition("testing", [E EXCEPT !.state = "merging"], Goto("confirm"))
    /\ UNCHANGED <<cards, artifact, work, remote, adm, op, scene>>

-----------------------------------------------------------------------------
(* Steps 4 and 5: land and clean up (_land, assert_lands_staged_tree,       *)
(* squash_merge, _merge_refused, _confirm_merged, _resume_merging).         *)

(* Fetch the base again: a base that moved restages.                        *)
FetchBase ==
    /\ loop.pc = "land"
    /\ Goto(IF Tip = loop.cut.base THEN "claim" ELSE "moved")
    /\ UNCHANGED <<rows, work, remote, adm, op, scene>>

ClaimLanding ==
    /\ loop.pc = "claim"
    /\ Transition("testing", [E EXCEPT !.state = "merging", !.blocked = FALSE], Goto("merge"))
    /\ UNCHANGED <<cards, artifact, work, remote, adm, op, scene>>

(* What GitHub merges: an open pull request whose head is the pinned commit *)
(* and whose required checks passed, up to date where the ruleset is strict.*)
Mergeable(b, n, c) ==
    /\ prs[b][n].state = "open"
    /\ ref[b] = c
    /\ \A r \in Required : checks[b][r] = "passing"
    /\ scene.strict => c.base = Tip

(* GitHub squashes the head onto the tip, closes the pull request as merged *)
(* and, where the repository is so configured, deletes the head.            *)
Squash(b, n, c, id) ==
    LET tree == Merged(b, c.work, main[Tip].tree)
    IN  /\ main' = Append(main, [tree |-> tree, by |-> id, branch |-> b, work |-> c.work])
        /\ prs' = [prs EXCEPT ![b][n] = [state |-> "merged", tree |-> tree]]
        /\ \/ ref' = [ref EXCEPT ![b] = NoCommit]
           \/ UNCHANGED ref

(* assert_lands_staged_tree, on the reading the checks came with.           *)
RefuseMismatch ==
    /\ loop.pc = "merge"
    /\ loop.base # loop.cut.base
    /\ Stop("merging", "failed")
    /\ UNCHANGED <<cards, artifact, work, remote, adm, op, scene>>

Merge ==
    /\ loop.pc = "merge"
    /\ loop.base = loop.cut.base
    /\ Mergeable(E.branch, E.pr, loop.cut)
    /\ Squash(E.branch, E.pr, loop.cut, loop.e)
    /\ \/ Goto("confirm") /\ UNCHANGED scene
       \/ Goto("refused") /\ Spend("lost")
    /\ UNCHANGED <<rows, work, checks, adm, op>>

(* GitHub refuses, or gh does not run.                                      *)
MergeFails ==
    /\ loop.pc = "merge"
    /\ loop.base = loop.cut.base
    /\ Goto("refused")
    /\ UNCHANGED <<rows, work, remote, adm, op, scene>>

(* _merge_refused: a moved base restages; anything else, and a base that    *)
(* cannot be fetched, stops the entry.                                      *)
MergeRefused ==
    /\ loop.pc = "refused"
    /\ \/ /\ Tip # loop.cut.base
          /\ Transition("merging", [E EXCEPT !.state = "testing"], Goto("moved"))
       \/ Stop("merging", "failed")
    /\ UNCHANGED <<cards, artifact, work, remote, adm, op, scene>>

(* Mutant: the tree that landed is not compared with the staged one.        *)
Confirm_AnyTree ==
    /\ loop.pc = "confirm"
    /\ Goto(IF PrOf(loop.e).state = "merged" THEN "cleanup" ELSE "mismatch")
    /\ UNCHANGED <<rows, work, remote, adm, op, scene>>

(* _confirm_merged: GitHub's own answer, and the tree that landed.          *)
Confirm ==
    /\ loop.pc = "confirm"
    /\ Goto(IF /\ PrOf(loop.e).state = "merged"
               /\ PrOf(loop.e).tree = TreeOf(E.branch, loop.cut)
            THEN "cleanup" ELSE "mismatch")
    /\ UNCHANGED <<rows, work, remote, adm, op, scene>>

StopMismatch ==
    /\ loop.pc = "mismatch"
    /\ Stop("merging", "failed")
    /\ UNCHANGED <<cards, artifact, work, remote, adm, op, scene>>

(* delete_staging_ref, which may fail.  GitHub closes a pull request whose  *)
(* head is deleted.                                                         *)
CleanUp ==
    /\ loop.pc = "cleanup"
    /\ \/ /\ ref' = [ref EXCEPT ![E.branch] = NoCommit]
          /\ prs' = IF HasOpen(E.branch)
                    THEN [prs EXCEPT ![E.branch][Len(prs[E.branch])].state = "closed"]
                    ELSE prs
       \/ UNCHANGED <<ref, prs>>
    /\ Goto("finish")
    /\ UNCHANGED <<rows, work, main, checks, adm, op, scene>>

Finish ==
    /\ loop.pc = "finish"
    /\ Transition("merging", [E EXCEPT !.state = "merged", !.blocked = FALSE], Goto("close"))
    /\ UNCHANGED <<cards, artifact, work, remote, adm, op, scene>>

CloseCard ==
    /\ loop.pc = "close"
    /\ cards' = cards \ {<<E.branch, E.pr>>}
    /\ Goto("pick")
    /\ UNCHANGED <<entry, artifact, work, remote, adm, op, scene>>

(* _resume_merging: an entry a crash or an unanswered question left merging.*)
Resume ==
    /\ loop.pc = "resume"
    /\ \/ /\ PrOf(loop.e).state = "merged"
          /\ Goto("confirm")
          /\ UNCHANGED entry
       \/ /\ PrOf(loop.e).state # "merged"
          /\ Transition("merging", [E EXCEPT !.state = "testing"], Goto("wait"))
    /\ UNCHANGED <<cards, artifact, work, remote, adm, op, scene>>

(* The server restarts, or the cycle raises: the rows are what they are.    *)
Crash ==
    /\ loop.pc # "idle"
    /\ Spend("crash")
    /\ EndCycle
    /\ UNCHANGED <<rows, work, remote, adm, op>>

-----------------------------------------------------------------------------
(* Admission: a publish of a tree (publish_tree, publish_branch) and a      *)
(* request (enqueue_ticket) both end in merge_queue.enqueue.                *)

(* A ticket lands on its tree's integration branch.                         *)
Commits(b) ==
    /\ tip[b] < scene.work
    /\ Spend("commit")
    /\ tip' = [tip EXCEPT ![b] = @ + 1]
    /\ UNCHANGED <<rows, published, remote, loop, adm, op>>

(* Admissions side by side are an event.                                    *)
Alone(a) == \A x \in Admitters \ {a} : adm[x].pc = "idle"

(* A tip already published, or work the base already holds, is skipped.     *)
(* The publish cuts its own commit.  Publishes of one root may overlap: the *)
(* scheduler runs one at a time, a root's completion runs its own.          *)
StartPublish(a, b) ==
    /\ adm[a].pc = "idle"
    /\ published[b] # tip[b]
    /\ main[Tip].tree[b] < tip[b]
    /\ IF Alone(a) THEN UNCHANGED scene ELSE Spend("overlap")
    /\ adm' = [adm EXCEPT ![a] =
                [Absent EXCEPT !.pc = "push", !.publish = TRUE, !.branch = b, !.work = tip[b],
                 !.commit = [base |-> Tip, work |-> tip[b], queue |-> FALSE]]]
    /\ UNCHANGED <<rows, work, remote, loop, op>>

PushPublish(a) ==
    /\ adm[a].pc = "push"
    /\ Pushed(adm[a].branch, adm[a].commit)
    /\ adm' = [adm EXCEPT ![a].pc = "open"]
    /\ UNCHANGED <<rows, work, main, prs, loop, op, scene>>

(* _open_pr: the open pull request of the branch, or a new one, for which   *)
(* the head must still be there.                                            *)
OpenPr(a) ==
    LET b == adm[a].branch
        n == Len(prs[b])
    IN  /\ adm[a].pc = "open"
        /\ \/ /\ HasOpen(b)
              /\ adm' = [adm EXCEPT ![a].pc = "lookup", ![a].pr = n]
              /\ UNCHANGED prs
           \/ /\ ~HasOpen(b)
              /\ ref[b] # NoCommit
              /\ n < scene.prs
              /\ prs' = [prs EXCEPT ![b] =
                          Append(@, [state |-> "open", tree |-> NoTree])]
              /\ adm' = [adm EXCEPT ![a].pc = "lookup", ![a].pr = n + 1]
    /\ UNCHANGED <<rows, work, main, ref, checks, loop, op, scene>>

(* A publish that fails at any step leaves what it already did.             *)
PublishFails(a) ==
    /\ adm[a].pc # "idle"
    /\ adm' = [adm EXCEPT ![a] = Absent]
    /\ UNCHANGED <<rows, work, remote, loop, op, scene>>

Request(a, b) ==
    /\ adm[a].pc = "idle"
    /\ Alone(a)
    /\ tip[b] > 0
    /\ HasOpen(b)
    /\ Spend("request")
    /\ adm' = [adm EXCEPT ![a] = [Absent EXCEPT !.pc = "lookup", !.branch = b,
                                   !.work = tip[b], !.pr = Len(prs[b])]]
    /\ UNCHANGED <<rows, work, remote, loop, op>>

(* The admission is over: a publish records the tip it published.           *)
Admitted(a) ==
    /\ adm' = [adm EXCEPT ![a] = Absent]
    /\ published' = IF adm[a].publish
                    THEN [published EXCEPT ![adm[a].branch] = adm[a].work] ELSE published

(* Mutant: new work re-points the row whatever its state.                   *)
Lookup_Merging(a) ==
    LET same == First(live_for_pr(adm[a].branch, adm[a].pr))
    IN  /\ adm[a].pc = "lookup"
        /\ \/ /\ live_with_head(adm[a].branch, adm[a].work) # {}
              /\ Admitted(a)
           \/ /\ live_with_head(adm[a].branch, adm[a].work) = {}
              /\ UNCHANGED published
              /\ \/ \E e \in same :
                      adm' = [adm EXCEPT ![a].pc = "repoint", ![a].target = e,
                                         ![a].from = entry[e].state]
                 \/ same = {} /\ adm' = [adm EXCEPT ![a].pc = "insert"]
        /\ UNCHANGED <<rows, tip, remote, loop, op, scene>>

(* enqueue: this head is queued already; or its pull request is, and not    *)
(* merging yet; or it is a new candidate.                                   *)
Lookup(a) ==
    LET same == First(live_for_pr(adm[a].branch, adm[a].pr))
    IN  /\ adm[a].pc = "lookup"
        /\ \/ /\ live_with_head(adm[a].branch, adm[a].work) # {}
              /\ Admitted(a)
           \/ /\ live_with_head(adm[a].branch, adm[a].work) = {}
              /\ UNCHANGED published
              /\ \/ \E e \in same :
                      /\ entry[e].state # "merging"
                      /\ adm' = [adm EXCEPT ![a].pc = "repoint", ![a].target = e,
                                            ![a].from = entry[e].state]
                 \/ /\ \A e \in same : entry[e].state = "merging"
                    /\ adm' = [adm EXCEPT ![a].pc = "insert"]
        /\ UNCHANGED <<rows, tip, remote, loop, op, scene>>

(* _take_new_head: the row keeps its place and stages again; a row that     *)
(* moved meanwhile is looked up again; a head that another admission queued *)
(* meanwhile breaks the unique index, and the admission raises.             *)
Repoint(a) ==
    LET e == adm[a].target
        w == adm[a].work
    IN  /\ adm[a].pc = "repoint"
        /\ \/ /\ entry[e].state = adm[a].from
              /\ live_with_head(adm[a].branch, w) = {}
              /\ entry' = [entry EXCEPT ![e].state = "queued", ![e].blocked = FALSE,
                                        ![e].work = w, ![e].staged = NoCommit,
                                        ![e].late = FALSE]
              /\ Admitted(a)
           \/ /\ entry[e].state = adm[a].from
              /\ live_with_head(adm[a].branch, w) # {}
              /\ adm' = [adm EXCEPT ![a] = Absent]
              /\ UNCHANGED <<entry, published>>
           \/ /\ entry[e].state # adm[a].from
              /\ adm' = [adm EXCEPT ![a].pc = "lookup", ![a].target = 0, ![a].from = "none"]
              /\ UNCHANGED <<entry, published>>
        /\ UNCHANGED <<cards, artifact, tip, remote, loop, op, scene>>

(* _insert: the row claims the position; a position lost to another         *)
(* admission is read again, a head lost to one is a duplicate.              *)
Insert(a) ==
    LET b == adm[a].branch
        w == adm[a].work
    IN  /\ adm[a].pc = "insert"
        /\ \/ /\ live_with_head(b, w) = {}
              /\ \E i \in Ids :
                   /\ entry[i].state = "none"
                   /\ \A j \in Ids : entry[j].state = "none" => i <= j
                   /\ entry' = [entry EXCEPT ![i] =
                        [NoEntry EXCEPT !.state = "queued", !.branch = b, !.pr = adm[a].pr,
                                        !.work = w, !.pos = next_position]]
           \/ live_with_head(b, w) # {} /\ UNCHANGED entry
        /\ Admitted(a)
        /\ UNCHANGED <<cards, artifact, tip, remote, loop, op, scene>>

-----------------------------------------------------------------------------
(* Operators: withdraw and retry.                                           *)

(* Mutant: a merging entry can be withdrawn.                                *)
Cancellable_Merging == {"queued", "staging", "testing", "merging"}

(* STATE_STEP and STEPS: the states whose step may be abandoned part-way.   *)
Cancellable == {"queued", "staging", "testing"}

(* withdraw reads the state and swaps from it, so it takes effect only in a *)
(* state it would also accept when it writes.                               *)
Withdraw(e) ==
    /\ entry[e].state \in Cancellable
    /\ Spend("withdraw")
    /\ entry' = [entry EXCEPT ![e].state = "withdrawn", ![e].blocked = FALSE]
    /\ UNCHANGED <<cards, artifact, work, remote, loop, adm, op>>

(* retry: the state is judged once, and a position is read.                 *)
RetryRead(e) ==
    /\ op.pc = "idle"
    /\ entry[e].state \in RETRYABLE
    /\ live_with_head(entry[e].branch, entry[e].work) = {}
    /\ Spend("retry")
    /\ op' = [pc |-> "write", e |-> e, from |-> entry[e].state, pos |-> next_position]
    /\ UNCHANGED <<rows, work, remote, loop, adm>>

(* The swap: refused when the row moved; an IntegrityError when somebody    *)
(* took the position, or queued this head, in between.                      *)
RetryWrite ==
    LET r == entry[op.e]
        taken == \/ \E f \in Ids \ {op.e} : entry[f].pos = op.pos
                 \/ live_with_head(r.branch, r.work) \ {op.e} # {}
    IN  /\ op.pc = "write"
        /\ \/ /\ r.state # op.from
              /\ op' = NoOp
              /\ UNCHANGED entry
           \/ /\ r.state = op.from /\ ~taken
              /\ entry' = [entry EXCEPT ![op.e] = Retried(@, op.pos)]
              /\ op' = NoOp
           \/ /\ r.state = op.from /\ taken
              /\ op' = [op EXCEPT !.pc = "again"]
              /\ UNCHANGED entry
        /\ UNCHANGED <<cards, artifact, work, remote, loop, adm, scene>>

(* After an IntegrityError the state and the position are read again, and   *)
(* the state is not judged again; _POSITION_ATTEMPTS losses end it.         *)
RetryAgain ==
    /\ op.pc = "again"
    /\ \/ op' = [op EXCEPT !.pc = "write", !.from = entry[op.e].state, !.pos = next_position]
       \/ op' = NoOp
    /\ UNCHANGED <<rows, work, remote, loop, adm, scene>>

-----------------------------------------------------------------------------
(* The world: the checks, the clock, people.                                *)

(* CI runs on the staged head of an open pull request (on a publish's own   *)
(* commit too, but nothing here reads that).                                *)
CheckReports(b, r) ==
    /\ HasOpen(b)
    /\ ref[b].queue
    /\ \/ /\ checks[b][r] = "absent"
          /\ checks' = [checks EXCEPT ![b][r] = "pending"]
       \/ /\ checks[b][r] = "pending"
          /\ \E o \in {"passing", "failing"} : checks' = [checks EXCEPT ![b][r] = o]
    /\ UNCHANGED <<rows, work, main, ref, prs, loop, adm, op, scene>>

(* merge_queue_check_timeout_seconds pass.                                  *)
TimePasses(e) ==
    /\ entry[e].state \in {"testing", "merging"}
    /\ ~entry[e].late
    /\ entry' = [entry EXCEPT ![e].late = TRUE]
    /\ UNCHANGED <<cards, artifact, work, remote, loop, adm, op, scene>>

(* A person closes the conflict ticket as done, as won't do, or deletes it. *)
ResolveConflict(e) ==
    /\ artifact[e] = "open"
    /\ Spend("resolve")
    /\ artifact' = [artifact EXCEPT ![e] = "done"]
    /\ UNCHANGED <<entry, cards, work, remote, loop, adm, op>>

OutsidePush ==
    /\ Spend("outside")
    /\ main' = Append(main, [tree |-> [main[Tip].tree EXCEPT ![Nobody] = @ + 1], by |-> 0,
                             branch |-> Nobody, work |-> 0])
    /\ UNCHANGED <<rows, work, ref, checks, prs, loop, adm, op>>

OutsideMerge(b) ==
    /\ HasOpen(b)
    /\ Mergeable(b, Len(prs[b]), ref[b])
    /\ Spend("merge")
    /\ Squash(b, Len(prs[b]), ref[b], 0)
    /\ UNCHANGED <<rows, work, checks, loop, adm, op>>

OutsideClose(b) ==
    /\ HasOpen(b)
    /\ Spend("close")
    /\ prs' = [prs EXCEPT ![b][Len(prs[b])].state = "closed"]
    /\ UNCHANGED <<rows, work, main, ref, checks, loop, adm, op>>

-----------------------------------------------------------------------------
Init ==
    /\ scene \in Scenarios
    /\ entry = [e \in Ids |-> NoEntry]
    /\ cards = {}
    /\ artifact = [e \in Ids |-> "none"]
    /\ tip = [b \in Branches |-> 0]
    /\ published = [b \in Branches |-> 0]
    /\ main = <<[tree |-> NoTree, by |-> 0, branch |-> Nobody, work |-> 0]>>
    /\ ref = [b \in Branches |-> NoCommit]
    /\ checks = [b \in Branches |-> Unrun]
    /\ prs = [b \in Branches |-> <<>>]
    /\ loop = Idle
    /\ adm = [a \in Admitters |-> Absent]
    /\ op = NoOp

StageStep == \/ BeginStaging \/ GiveUp \/ CutClean \/ CutConflicted \/ CutUndetermined
             \/ RecordConflict \/ FileArtifact \/ BlockOnArtifact \/ ReportStopped
             \/ PushStaged \/ PushFails \/ RecordStaged

WaitStep == \/ TimeOut \/ Unreachable \/ AskGitHub \/ StopFailing \/ Restage
            \/ StopClosed \/ Adopt

LandStep == \/ FetchBase \/ ClaimLanding \/ RefuseMismatch \/ Merge \/ MergeFails
            \/ MergeRefused \/ Confirm \/ StopMismatch \/ CleanUp \/ Finish
            \/ CloseCard \/ Resume

LoopStep == \/ Tick \/ (\E e \in Ids : Remind(e)) \/ RemindDone \/ Pick
            \/ StageStep \/ WaitStep \/ LandStep

AdmitStep == \E a \in Admitters :
                \/ \E b \in Branches : StartPublish(a, b) \/ Request(a, b)
                \/ PushPublish(a) \/ OpenPr(a) \/ PublishFails(a)
                \/ Lookup(a) \/ Repoint(a) \/ Insert(a)

OperatorStep == \/ \E e \in Ids : Withdraw(e) \/ RetryRead(e)
                \/ RetryWrite \/ RetryAgain

WorldStep == \/ \E b \in Branches : Commits(b) \/ OutsideMerge(b) \/ OutsideClose(b)
             \/ \E b \in Branches, r \in Required : CheckReports(b, r)
             \/ \E e \in Ids : TimePasses(e) \/ ResolveConflict(e)
             \/ OutsidePush

Next == LoopStep \/ Crash \/ AdmitStep \/ OperatorStep \/ WorldStep

Spec == Init /\ [][Next]_vars

(* The scheduler keeps ticking and a cycle keeps stepping; the clock runs;  *)
(* GitHub, asked again and again, answers some time.                        *)
Fairness ==
    /\ WF_vars(LoopStep)
    /\ \A e \in Ids : WF_vars(TimePasses(e))
    /\ SF_vars(Confirm)
    /\ SF_vars(Resume)

FairSpec == Spec /\ Fairness

-----------------------------------------------------------------------------
(* Properties.                                                              *)

(* The rows, the remote and every actor's locals keep their shapes: in      *)
(* particular a staged commit names a commit the base really has.           *)
TypeOK ==
    /\ entry \in [Ids -> Entry]
    /\ \A e \in Ids : entry[e].staged.base \in 0..Tip /\ entry[e].attempts <= MaxAttempts
    /\ cards \subseteq Branches \X Nat
    /\ artifact \in [Ids -> {"none", "open", "done"}]
    /\ tip \in [Branches -> Work] /\ published \in [Branches -> Work]
    /\ main \in Seq([tree : Tree, by : Ids \cup {0}, branch : Branches \cup {Nobody},
                      work : Work])
    /\ ref \in [Branches -> Commit]
    /\ checks \in [Branches -> [Required -> Outcome]]
    /\ prs \in [Branches -> Seq(PullRequest)]
    /\ loop \in Loop /\ adm \in [Admitters -> Adm] /\ op \in Op
    /\ IsScenario(scene)

(* One candidate is active at a time: no interleaving of publishes,         *)
(* withdrawals, retries and restarts has two entries past `queued'.         *)
OneActive == \A e, f \in Active : e = f

(* The queue is first in, first out: the entry being staged, tested or      *)
(* merged stands before every other entry in line.                          *)
ActiveIsFirst == \A e \in Active, f \in Live : e = f \/ entry[e].pos < entry[f].pos

(* Whatever the queue lands, it lands for an entry that is merging and that *)
(* names exactly that work: nothing re-pointed or withdrawn lands.          *)
LandsWhatTheRowSays ==
    [][\A n \in (Tip + 1)..Tip' :
          main'[n].by # 0 =>
             LET r == entry[main'[n].by]
             IN  /\ r.state = "merging"
                 /\ r.branch = main'[n].branch
                 /\ r.work = main'[n].work]_vars

(* An entry that reads merged did land, and landed the very tree that was   *)
(* staged and tested, whoever asked GitHub to merge and whatever the        *)
(* ruleset let in between.                                                  *)
MergedLandedStagedTree ==
    \A e \in Ids : entry[e].state = "merged" =>
        \E n \in 1..Tip : /\ main[n].branch = entry[e].branch
                          /\ main[n].tree = TreeOf(entry[e].branch, entry[e].staged)

(* The loop asks GitHub to land only a head on which every required check   *)
(* passed, the ones that had not reported when the others finished too.     *)
LandsOnlyGreen ==
    loop.pc \in {"claim", "merge"} /\ ref[E.branch] = loop.cut =>
        \A r \in Required : checks[E.branch][r] = "passing"

(* An entry that reads withdrawn was not landed by the queue.               *)
WithdrawnNeverLanded ==
    \A e \in Ids : entry[e].state = "withdrawn" =>
        ~\E n \in 1..Tip : main[n].by = e /\ main[n].work = entry[e].work

(* An entry that stopped is reported: when the cycle is over its card       *)
(* stands, unless its pull request merged or has a later entry, with which  *)
(* it shares the card.                                                      *)
StoppedIsReported ==
    loop.pc = "idle" =>
        \A e \in Ids : entry[e].state \in {"failed", "timed_out"} =>
            \/ <<entry[e].branch, entry[e].pr>> \in cards
            \/ PrOf(e).state = "merged"
            \/ \E f \in Ids : /\ entry[f].branch = entry[e].branch
                              /\ entry[f].pr = entry[e].pr
                              /\ entry[f].pos > entry[e].pos

(* Every candidate settles: whatever GitHub, the checks and the base do, an *)
(* entry in line merges, fails, times out or is withdrawn.                  *)
EveryEntrySettles == \A e \in Ids : e \in Live ~> e \notin Live

(* A conflict somebody resolved is tried again without being asked.         *)
ResolvedConflictRetries ==
    \A e \in Ids : (entry[e].state = "failed" /\ entry[e].blocked /\ artifact[e] = "done")
                      ~> ~(entry[e].state = "failed" /\ entry[e].blocked)
====
