----------------------------- MODULE TreePublish -----------------------------
(***************************************************************************)
(* When a tree's landed work is published: services/landing.py (a ticket    *)
(* lands), tree_publish_scheduler.py (one publish per root, in a thread of  *)
(* its own, and the card a failed publish files) and unpublished_trees.py   *)
(* (the reconcile pass that publishes what nothing is taking to the base).  *)
(* What a publish does on the remote is MergeQueue's; here it succeeds or   *)
(* fails.                                                                   *)
(*                                                                         *)
(* A root's work is the number of landings on its integration branch.       *)
(* _GUARD is held for one action at a time; every read and every write of   *)
(* the database, and every publish, happens outside it.                     *)
(***************************************************************************)
EXTENDS Naturals, FiniteSets

CONSTANTS
    Roots,        \* roots of ticket trees
    Landers,      \* threads on which tickets complete, and land_ticket calls
    Workers,      \* publish threads
    Sweeper,      \* the reconcile timer's thread
    NoRoot,
    MaxLandings,  \* bound: landings on a tree
    Budgets       \* bound: how often the rest of the world happens, by scenario

(* restart: the server; drain: a reload that drains and is then refused;    *)
(* complete: a root publishes from the thread it completes on; unstarted: a *)
(* thread that cannot be started; unrecorded: a failed publish whose card   *)
(* cannot be written.                                                       *)
Events == {"restart", "drain", "complete", "unstarted", "unrecorded"}

ASSUME TreePublishAssumption ==
    /\ MaxLandings \in Nat
    /\ Budgets \subseteq [Events -> Nat]
    /\ IsFiniteSet(Landers) /\ IsFiniteSet(Workers)
    /\ NoRoot \notin Roots
    /\ Sweeper \notin Landers \cup Workers
    /\ Landers \cap Workers = {}

VARIABLES
    tip,        \* landings on each integration branch
    sha,        \* root.landed_sha: the tip last recorded as published
    base,       \* how much of it the base holds
    card,       \* pending "Publish failed" cards of each root
    in_flight,  \* _IN_FLIGHT
    again,      \* _AGAIN
    draining,   \* drain._draining
    thread,     \* each thread's program counter and locals
    sweep,      \* the pass's violations, and what its repair has yet to look at
    attempted,  \* _ATTEMPTED: tips scheduled within RETRY_AFTER_SECONDS
    closer,     \* the root whose card somebody found may be closed
    left        \* what remains of the budget

work  == <<tip, sha, base>>
guard == <<in_flight, again>>
pass  == <<sweep, attempted>>
vars  == <<work, card, guard, draining, thread, pass, closer, left>>

Threads == Landers \cup Workers \cup {Sweeper}

PC == {"idle", "schedule", "take", "start", "read", "push", "record", "settle", "report",
       "file", "again", "release", "repair", "attempt"}

Thread == [pc : PC, root : Roots \cup {NoRoot}, tip : 0..MaxLandings]

Enter(pc, r) == [pc |-> pc, root |-> r, tip |-> 0]

Idle == Enter("idle", NoRoot)

At(t, pc) == thread[t].pc = pc

Root(t) == thread[t].root

Goto(t, pc) == thread' = [thread EXCEPT ![t].pc = pc]

Spend(what) == /\ left[what] > 0
               /\ left' = [left EXCEPT ![what] = @ - 1]

(* Where a thread goes after schedule_tree_publish: the pass on to the next *)
(* tree, a landing to its end.                                              *)
Scheduled(t) == IF t = Sweeper THEN Enter("attempt", NoRoot) ELSE Idle

(* ... and after publish_and_settle: a worker asks whether to go again.     *)
Published(t) == IF t \in Workers THEN Enter("again", Root(t)) ELSE Idle

-----------------------------------------------------------------------------
(* Landing (land_before_done, and the land_ticket tool).                    *)

Land(t, r) ==
    /\ t \in Landers /\ At(t, "idle")
    /\ tip[r] < MaxLandings
    /\ tip' = [tip EXCEPT ![r] = @ + 1]
    /\ thread' = [thread EXCEPT ![t] = Enter("schedule", r)]
    /\ UNCHANGED <<sha, base, card, guard, draining, pass, closer, left>>

(* A root lands nothing itself: it publishes, on the thread it is on.       *)
Complete(t, r) ==
    /\ t \in Landers /\ At(t, "idle")
    /\ Spend("complete")
    /\ thread' = [thread EXCEPT ![t] = Enter("read", r)]
    /\ UNCHANGED <<work, card, guard, draining, pass, closer>>

-----------------------------------------------------------------------------
(* schedule_tree_publish.                                                   *)

RefuseDraining(t) ==
    /\ At(t, "schedule")
    /\ thread' = [thread EXCEPT ![t] = IF draining THEN Scheduled(t) ELSE [@ EXCEPT !.pc = "take"]]
    /\ UNCHANGED <<work, card, guard, draining, pass, closer, left>>

(* Mutant: a publish already running is not looked for.                     *)
TakeRoot_Always(t) ==
    /\ At(t, "take")
    /\ in_flight' = in_flight \cup {Root(t)}
    /\ Goto(t, "start")
    /\ UNCHANGED <<work, card, again, draining, pass, closer, left>>

(* Under _GUARD: ask the running publish to go again, or be the one.        *)
TakeRoot(t) ==
    /\ At(t, "take")
    /\ \/ /\ Root(t) \in in_flight
          /\ again' = again \cup {Root(t)}
          /\ thread' = [thread EXCEPT ![t] = Scheduled(t)]
          /\ UNCHANGED in_flight
       \/ /\ Root(t) \notin in_flight
          /\ in_flight' = in_flight \cup {Root(t)}
          /\ Goto(t, "start")
          /\ UNCHANGED again
    /\ UNCHANGED <<work, card, draining, pass, closer, left>>

StartThread(t) ==
    /\ At(t, "start")
    /\ \E w \in Workers :
         /\ At(w, "idle")
         /\ thread' = [thread EXCEPT ![t] = Scheduled(t),
                                     ![w] = Enter("read", Root(t))]
    /\ UNCHANGED <<work, card, guard, draining, pass, closer, left>>

(* Mutant: a thread that cannot start leaves its root in flight.            *)
StartFails_Kept(t) ==
    /\ At(t, "start")
    /\ Spend("unstarted")
    /\ thread' = [thread EXCEPT ![t] = Idle]
    /\ sweep' = IF t = Sweeper THEN [wanted |-> {}, todo |-> {}] ELSE sweep
    /\ UNCHANGED <<work, card, guard, draining, attempted, closer>>

(* threading raises RuntimeError: the root is given back and the caller     *)
(* sees the error, which ends the reconcile pass's repair.                  *)
StartFails(t) ==
    /\ At(t, "start")
    /\ Spend("unstarted")
    /\ in_flight' = in_flight \ {Root(t)}
    /\ thread' = [thread EXCEPT ![t] = Idle]
    /\ sweep' = IF t = Sweeper THEN [wanted |-> {}, todo |-> {}] ELSE sweep
    /\ UNCHANGED <<work, card, again, draining, attempted, closer>>

-----------------------------------------------------------------------------
(* publish_and_settle, on a worker or on the thread a root completes on.    *)

(* No branch, a tip already published, or work the base holds: skipped.     *)
(* The root's own branch may not fold in, or the base may not be read.      *)
ReadTip(t) ==
    LET n == tip[Root(t)]
        skipped == n \in {0, sha[Root(t)]} \/ base[Root(t)] >= n
    IN  /\ At(t, "read")
        /\ \E pc \in {IF skipped THEN "settle" ELSE "push", "report"} :
             thread' = [thread EXCEPT ![t].pc = pc, ![t].tip = n]
        /\ UNCHANGED <<work, card, guard, draining, pass, closer, left>>

(* The chain pushes, opens the pull request and queues it; or it fails; or  *)
(* it raises, which a worker reports and a completion's caller sees.        *)
RunChain(t) ==
    /\ At(t, "push")
    /\ \/ Goto(t, "record")
       \/ Goto(t, "report")
       \/ t \in Landers /\ thread' = [thread EXCEPT ![t] = Idle]
    /\ UNCHANGED <<work, card, guard, draining, pass, closer, left>>

Record(t) ==
    /\ At(t, "record")
    /\ sha' = [sha EXCEPT ![Root(t)] = thread[t].tip]
    /\ Goto(t, "settle")
    /\ UNCHANGED <<tip, base, card, guard, draining, pass, closer, left>>

(* close_publish_card: every pending card of the root.                      *)
Settle(t) ==
    /\ At(t, "settle")
    /\ card' = [card EXCEPT ![Root(t)] = 0]
    /\ closer' = IF closer = Root(t) THEN NoRoot ELSE closer
    /\ thread' = [thread EXCEPT ![t] = Published(t)]
    /\ UNCHANGED <<work, guard, draining, pass, left>>

(* Mutant: a card is filed without looking for the pending one.             *)
Report_Blind(t) ==
    /\ At(t, "report")
    /\ Goto(t, "file")
    /\ UNCHANGED <<work, card, guard, draining, pass, closer, left>>

(* report_publish_failure refreshes the pending card, or files one; it may  *)
(* fail itself, which is only logged.                                       *)
Report(t) ==
    /\ At(t, "report")
    /\ \/ card[Root(t)] = 0 /\ Goto(t, "file") /\ UNCHANGED left
       \/ card[Root(t)] > 0 /\ thread' = [thread EXCEPT ![t] = Published(t)] /\ UNCHANGED left
       \/ Spend("unrecorded") /\ thread' = [thread EXCEPT ![t] = Published(t)]
    /\ UNCHANGED <<work, card, guard, draining, pass, closer>>

FileCard(t) ==
    /\ At(t, "file")
    /\ card' = [card EXCEPT ![Root(t)] = @ + 1]
    /\ thread' = [thread EXCEPT ![t] = Published(t)]
    /\ UNCHANGED <<work, guard, draining, pass, closer, left>>

-----------------------------------------------------------------------------
(* run_tree_publish: again, or the finally clause.                          *)

GoAgain(t) ==
    /\ At(t, "again")
    /\ \/ /\ Root(t) \in again
          /\ again' = again \ {Root(t)}
          /\ Goto(t, "read")
       \/ /\ Root(t) \notin again
          /\ Goto(t, "release")
          /\ UNCHANGED again
    /\ UNCHANGED <<work, card, in_flight, draining, pass, closer, left>>

(* Mutant: the finally clause forgets the request, not the root.            *)
Release_Kept(t) ==
    /\ At(t, "release")
    /\ again' = again \ {Root(t)}
    /\ thread' = [thread EXCEPT ![t] = Idle]
    /\ UNCHANGED <<work, card, in_flight, draining, pass, closer, left>>

Release(t) ==
    /\ At(t, "release")
    /\ in_flight' = in_flight \ {Root(t)}
    /\ again' = again \ {Root(t)}
    /\ thread' = [thread EXCEPT ![t] = Idle]
    /\ UNCHANGED <<work, card, draining, pass, closer, left>>

-----------------------------------------------------------------------------
(* The reconcile pass: landed_work_reaches_the_base.                        *)

(* unpublished_trees: landed work with nothing taking it to the base.       *)
Unpublished(r) ==
    /\ tip[r] # sha[r]
    /\ r \notin in_flight
    /\ card[r] = 0
    /\ base[r] < tip[r]

Detect ==
    /\ At(Sweeper, "idle")
    /\ \E r \in Roots : Unpublished(r)
    /\ sweep' = [wanted |-> {r \in Roots : Unpublished(r)}, todo |-> {}]
    /\ Goto(Sweeper, "repair")
    /\ UNCHANGED <<work, card, guard, draining, attempted, closer, left>>

(* publish_trees looks again before it repairs.                             *)
Repair ==
    /\ At(Sweeper, "repair")
    /\ sweep' = [wanted |-> {},
                 todo |-> {<<r, tip[r]>> : r \in {q \in sweep.wanted : Unpublished(q)}}]
    /\ Goto(Sweeper, "attempt")
    /\ UNCHANGED <<work, card, guard, draining, attempted, closer, left>>

(* _may_attempt: a tip is attempted once in RETRY_AFTER_SECONDS.            *)
Attempt ==
    /\ At(Sweeper, "attempt")
    /\ \/ \E x \in sweep.todo :
            /\ sweep' = [sweep EXCEPT !.todo = @ \ {x}]
            /\ attempted' = attempted \cup {x}
            /\ IF x \in attempted THEN UNCHANGED thread
               ELSE thread' = [thread EXCEPT ![Sweeper] = Enter("schedule", x[1])]
       \/ /\ sweep.todo = {}
          /\ thread' = [thread EXCEPT ![Sweeper] = Idle]
          /\ UNCHANGED pass
    /\ UNCHANGED <<work, card, guard, draining, closer, left>>

(* RETRY_AFTER_SECONDS pass.                                                *)
Forget ==
    /\ \E x \in attempted : attempted' = attempted \ {x}
    /\ UNCHANGED <<work, card, guard, draining, thread, sweep, closer, left>>

-----------------------------------------------------------------------------
(* The cards, the base, the server.                                         *)

(* refuse_closing_unpublished and published_cards_held: a person, or the    *)
(* pass, may close a card whose work the base holds ...                     *)
MayClose(r) ==
    /\ closer = NoRoot
    /\ card[r] > 0
    /\ base[r] >= tip[r]
    /\ closer' = r
    /\ UNCHANGED <<work, card, guard, draining, thread, pass, left>>

(* ... and then does.                                                       *)
CloseCard ==
    /\ closer # NoRoot
    /\ card' = [card EXCEPT ![closer] = @ - 1]
    /\ closer' = NoRoot
    /\ UNCHANGED <<work, guard, draining, thread, pass, left>>

(* The merge queue, or a person, merges the published pull request.         *)
BaseTakes(r) ==
    /\ base[r] < sha[r]
    /\ base' = [base EXCEPT ![r] = sha[r]]
    /\ UNCHANGED <<tip, sha, card, guard, draining, thread, pass, closer, left>>

BeginDrain ==
    /\ ~draining
    /\ Spend("drain")
    /\ draining' = TRUE
    /\ UNCHANGED <<work, card, guard, thread, pass, closer>>

EndDrain ==
    /\ draining
    /\ draining' = FALSE
    /\ UNCHANGED <<work, card, guard, thread, pass, closer, left>>

(* Threads are daemons, and the two sets and _ATTEMPTED live in memory.     *)
Restart ==
    /\ Spend("restart")
    /\ thread' = [t \in Threads |-> Idle]
    /\ in_flight' = {} /\ again' = {}
    /\ sweep' = [wanted |-> {}, todo |-> {}] /\ attempted' = {}
    /\ draining' = FALSE
    /\ closer' = NoRoot
    /\ UNCHANGED <<work, card>>

-----------------------------------------------------------------------------
Init ==
    /\ tip = [r \in Roots |-> 0] /\ sha = [r \in Roots |-> 0] /\ base = [r \in Roots |-> 0]
    /\ card = [r \in Roots |-> 0]
    /\ in_flight = {} /\ again = {}
    /\ draining = FALSE
    /\ thread = [t \in Threads |-> Idle]
    /\ sweep = [wanted |-> {}, todo |-> {}] /\ attempted = {}
    /\ closer = NoRoot
    /\ left \in Budgets

ScheduleStep(t) == RefuseDraining(t) \/ TakeRoot(t) \/ StartThread(t) \/ StartFails(t)

PublishStep(t) == \/ ReadTip(t) \/ RunChain(t) \/ Record(t) \/ Settle(t) \/ Report(t)
                  \/ FileCard(t) \/ GoAgain(t) \/ Release(t)

Step(t) == ScheduleStep(t) \/ PublishStep(t)

Pass == Detect \/ Repair \/ Attempt

World == \/ \E t \in Landers, r \in Roots : Land(t, r) \/ Complete(t, r)
         \/ \E r \in Roots : MayClose(r) \/ BaseTakes(r)
         \/ CloseCard \/ Forget \/ BeginDrain \/ EndDrain \/ Restart

Next == (\E t \in Threads : Step(t)) \/ Pass \/ World

Spec == Init /\ [][Next]_vars

(* Threads run, the reconcile timer fires, time passes, and a drain is over *)
(* some time; whether anything lands, merges or is closed is anybody's.     *)
Fairness ==
    /\ \A t \in Threads : WF_vars(Step(t))
    /\ WF_vars(Pass)
    /\ WF_vars(Forget)
    /\ WF_vars(EndDrain)

FairSpec == Spec /\ Fairness

-----------------------------------------------------------------------------
(* Properties.                                                              *)

(* Shapes, and what bounds them: nothing is published that did not land,    *)
(* and a root has no more pending cards than threads may file at once.      *)
TypeOK ==
    /\ tip \in [Roots -> 0..MaxLandings]
    /\ sha \in [Roots -> 0..MaxLandings] /\ base \in [Roots -> 0..MaxLandings]
    /\ card \in [Roots -> 0..(Cardinality(Landers) + 1)]
    /\ in_flight \subseteq Roots /\ again \subseteq Roots
    /\ draining \in BOOLEAN
    /\ thread \in [Threads -> Thread]
    /\ sweep \in [wanted : SUBSET Roots, todo : SUBSET (Roots \X (0..MaxLandings))]
    /\ attempted \subseteq Roots \X (0..MaxLandings)
    /\ closer \in Roots \cup {NoRoot}
    /\ left \in [Events -> Nat]

(* A thread that owns its root's place in _IN_FLIGHT: about to start the    *)
(* publish's thread, or the publish's thread.                               *)
Holds(t) == At(t, "start") \/ (t \in Workers /\ ~At(t, "idle"))

(* A root in flight is being published, or about to be: a publish that      *)
(* ended, crashed or never started does not hold its root, which would keep *)
(* every later landing and the reconcile pass from publishing it.           *)
InFlightIsRunning ==
    \A r \in in_flight : \E t \in Threads : Root(t) = r /\ Holds(t)

(* However landings, the reconcile pass, releases and threads that fail to  *)
(* start interleave, no two scheduled publishes own one root: _GUARD's set  *)
(* is a lock per root, across the gap between taking it and the start of    *)
(* the thread that will give it back.                                       *)
OneScheduledPublish ==
    \A t, u \in Threads : Holds(t) /\ Holds(u) /\ Root(t) = Root(u) => t = u

(* The published tip only moves forward: while every publish is scheduled,  *)
(* none records an older tip over a newer one.                              *)
PublishedNeverRegresses == [][\A r \in Roots : sha'[r] >= sha[r]]_vars

(* What happens to work that landed: the base holds it, its publish is      *)
(* recorded, or a card stands before a person.                              *)
Accounted(r) == base[r] >= tip[r] \/ sha[r] = tip[r] \/ card[r] > 0

(* Every landing is accounted for in the end, whatever publish, thread,     *)
(* card, drain or server fails in between.                                  *)
EveryLandingAccounted == \A r \in Roots : ~Accounted(r) ~> Accounted(r)
====
