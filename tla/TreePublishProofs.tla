-------------------------- MODULE TreePublishProofs --------------------------
(***************************************************************************)
(* The scheduler's two sets are a lock per root, for any roots, threads and *)
(* budget: a root in flight has a thread behind it, and only one; and while *)
(* every publish goes through them, the published tip never moves back.     *)
(***************************************************************************)
EXTENDS TreePublish, FiniteSetTheorems, TLAPS

(* Program counters of publish_and_settle and of run_tree_publish's loop.   *)
PublishPC == {"read", "push", "record", "settle", "report", "file", "again", "release"}

Located == \A t \in Threads :
    thread[t].pc \notin {"idle", "repair", "attempt"} => thread[t].root \in Roots

(* Workers do nothing else, and run_tree_publish's loop is only theirs.     *)
WorkersPublish ==
    /\ \A w \in Workers : thread[w].pc \in PublishPC \cup {"idle"}
    /\ \A t \in Threads \ Workers : thread[t].pc \notin {"again", "release"}

Typed ==
    /\ tip \in [Roots -> 0..MaxLandings]
    /\ in_flight \subseteq Roots
    /\ thread \in [Threads -> Thread]
    /\ sweep \in [wanted : SUBSET Roots, todo : SUBSET (Roots \X (0..MaxLandings))]
    /\ Located /\ WorkersPublish

HoldersInFlight == \A t \in Threads : Holds(t) => Root(t) \in in_flight

(* What the scheduler keeps: in flight, exactly one thread holds the root.  *)
Lock == Typed /\ HoldersInFlight /\ OneScheduledPublish /\ InFlightIsRunning

-----------------------------------------------------------------------------
(* The initial state is typed.                                              *)
LEMMA TypedInit == Init => Typed
BY TreePublishAssumption DEF Init, Typed, Located, WorkersPublish, Threads, Thread, Enter, Idle, PC, PublishPC

(* Where a thread goes when its publish is over.                            *)
LEMMA PublishedShape ==
    ASSUME Typed, NEW t \in Threads, thread[t].root \in Roots
    PROVE  /\ Published(t) \in Thread
           /\ t \in Workers => Published(t).pc = "again" /\ Published(t).root = Root(t)
           /\ t \notin Workers => Published(t) = Idle
BY TreePublishAssumption DEF Typed, Published, Enter, Idle, Thread, PC, Root

(* Every step keeps the types.                                              *)
LEMMA TypedNext == Typed /\ [Next]_vars => Typed'
<1> SUFFICES ASSUME Typed, [Next]_vars PROVE Typed'
  OBVIOUS
<1> USE TreePublishAssumption DEF Typed, Located, WorkersPublish, PublishPC, Thread, PC, Enter, Idle,
        At, Root, Goto, Scheduled, Published, Threads
<1>1. ASSUME NEW t \in Threads, ScheduleStep(t) PROVE Typed'
  <2>1. CASE RefuseDraining(t)
    BY <2>1 DEF RefuseDraining, guard, pass, work
  <2>2. CASE TakeRoot(t)
    BY <2>2 DEF TakeRoot, pass, work
  <2>3. CASE StartThread(t)
    <3>1. PICK w \in Workers :
            /\ At(w, "idle")
            /\ thread' = [thread EXCEPT ![t] = Scheduled(t),
                                        ![w] = Enter("read", Root(t))]
      BY <2>3 DEF StartThread
    <3>2. Root(t) \in Roots /\ w \in Threads
      BY <2>3 DEF StartThread
    <3>3. Scheduled(t) \in Thread /\ Scheduled(t).pc \in {"idle", "attempt"}
      OBVIOUS
    <3>4. Enter("read", Root(t)) \in Thread
      BY <3>2
    <3>5. t \notin Workers
      BY <2>3 DEF StartThread
    <3>6. thread' \in [Threads -> Thread]
      BY <3>1, <3>2, <3>3, <3>4
    <3>7. Located' /\ WorkersPublish'
      BY <3>1, <3>2, <3>3, <3>4, <3>5
    <3> QED BY <2>3, <3>6, <3>7 DEF StartThread, guard, pass, work
  <2>4. CASE StartFails(t)
    BY <2>4 DEF StartFails, work
  <2> QED BY <1>1, <2>1, <2>2, <2>3, <2>4 DEF ScheduleStep
<1>2. ASSUME NEW t \in Threads, PublishStep(t) PROVE Typed'
  <2>1. CASE ReadTip(t)
    BY <2>1 DEF ReadTip, guard, pass, work
  <2>2. CASE RunChain(t)
    BY <2>2 DEF RunChain, guard, pass, work
  <2>3. CASE Record(t)
    BY <2>3 DEF Record, guard, pass
  <2>4. CASE Settle(t)
    <3>1. Root(t) \in Roots
      BY <2>4 DEF Settle
    <3> HIDE DEF Published
    <3> QED BY <2>4, <3>1, PublishedShape DEF Settle, guard, pass, work
  <2>5. CASE Report(t)
    <3>1. Root(t) \in Roots
      BY <2>5 DEF Report
    <3> HIDE DEF Published
    <3> QED BY <2>5, <3>1, PublishedShape DEF Report, guard, pass, work
  <2>6. CASE FileCard(t)
    <3>1. Root(t) \in Roots
      BY <2>6 DEF FileCard
    <3> HIDE DEF Published
    <3> QED BY <2>6, <3>1, PublishedShape DEF FileCard, guard, pass, work
  <2>7. CASE GoAgain(t)
    BY <2>7 DEF GoAgain, pass, work
  <2>8. CASE Release(t)
    BY <2>8 DEF Release, pass, work
  <2> QED BY <1>2, <2>1, <2>2, <2>3, <2>4, <2>5, <2>6, <2>7, <2>8 DEF PublishStep
<1>3. CASE Pass
  <2>1. CASE Detect
    BY <2>1 DEF Detect, guard, work
  <2>2. CASE Repair
    <3>1. thread' \in [Threads -> Thread] /\ Located' /\ WorkersPublish'
      BY <2>2 DEF Repair
    <3>2. {<<r, tip[r]>> : r \in {q \in sweep.wanted : Unpublished(q)}}
            \subseteq Roots \X (0..MaxLandings)
      OBVIOUS
    <3> QED BY <2>2, <3>1, <3>2 DEF Repair, guard, work
  <2>3. CASE Attempt
    <3>1. CASE sweep.todo = {} /\ thread' = [thread EXCEPT ![Sweeper] = Idle] /\ UNCHANGED pass
      BY <2>3, <3>1 DEF Attempt, guard, work, pass
    <3>2. ASSUME NEW x \in sweep.todo,
                 sweep' = [sweep EXCEPT !.todo = @ \ {x}],
                 IF x \in attempted THEN UNCHANGED thread
                 ELSE thread' = [thread EXCEPT ![Sweeper] = Enter("schedule", x[1])]
          PROVE  Typed'
      <4>1. x[1] \in Roots
        OBVIOUS
      <4>2. thread' \in [Threads -> Thread] /\ Located' /\ WorkersPublish'
        BY <3>2, <4>1
      <4>3. sweep' \in [wanted : SUBSET Roots, todo : SUBSET (Roots \X (0..MaxLandings))]
        BY <3>2
      <4> QED BY <2>3, <4>2, <4>3 DEF Attempt, guard, work
    <3> QED BY <2>3, <3>1, <3>2 DEF Attempt
  <2> QED BY <1>3, <2>1, <2>2, <2>3 DEF Pass
<1>4. CASE World
  <2>1. ASSUME NEW t \in Landers, NEW r \in Roots, Land(t, r) PROVE Typed'
    <3>1. t \in Threads /\ t \notin Workers
      OBVIOUS
    <3>2. thread' \in [Threads -> Thread] /\ Located' /\ WorkersPublish'
      BY <2>1, <3>1 DEF Land
    <3>3. tip' \in [Roots -> 0..MaxLandings]
      BY <2>1 DEF Land
    <3> QED BY <2>1, <3>2, <3>3 DEF Land, guard, pass
  <2>2. ASSUME NEW t \in Landers, NEW r \in Roots, Complete(t, r) PROVE Typed'
    <3>1. t \in Threads /\ t \notin Workers
      OBVIOUS
    <3>2. thread' \in [Threads -> Thread] /\ Located' /\ WorkersPublish'
      BY <2>2, <3>1 DEF Complete
    <3> QED BY <2>2, <3>2 DEF Complete, guard, pass, work
  <2>3. CASE Restart
    BY <2>3 DEF Restart, work
  <2>4. CASE CloseCard \/ Forget \/ BeginDrain \/ EndDrain \/ \E r \in Roots : MayClose(r) \/ BaseTakes(r)
    BY <2>4 DEF CloseCard, Forget, BeginDrain, EndDrain, MayClose, BaseTakes, guard, pass, work
  <2> QED BY <1>4, <2>1, <2>2, <2>3, <2>4 DEF World
<1>5. CASE UNCHANGED vars
  BY <1>5 DEF vars, work, guard, pass
<1> QED BY <1>1, <1>2, <1>3, <1>4, <1>5 DEF Next, Step

-----------------------------------------------------------------------------
(* What one thread's step may do to the lock.                               *)

(* A step of t that moves only t, from or to places that do not hold.       *)
LEMMA OthersKeep ==
    ASSUME Lock, Typed', NEW t \in Threads, ~Holds(t), ~Holds(t)', UNCHANGED in_flight,
           \A u \in Threads : u # t => thread'[u] = thread[u]
    PROVE  Lock'
BY DEF Lock, HoldersInFlight, OneScheduledPublish, InFlightIsRunning, Holds, At, Root

(* ... or that stays where it holds its root.                               *)
LEMMA HolderStays ==
    ASSUME Lock, Typed', NEW t \in Threads, Holds(t), Holds(t)', UNCHANGED in_flight,
           thread'[t].root = thread[t].root,
           \A u \in Threads : u # t => thread'[u] = thread[u]
    PROVE  Lock'
BY DEF Lock, HoldersInFlight, OneScheduledPublish, InFlightIsRunning, Holds, At, Root

(* ... or that takes a root nobody has.                                     *)
LEMMA HolderTakes ==
    ASSUME Lock, Typed', NEW t \in Threads, ~Holds(t), Holds(t)', Root(t) \notin in_flight,
           in_flight' = in_flight \cup {Root(t)},
           thread'[t].root = thread[t].root,
           \A u \in Threads : u # t => thread'[u] = thread[u]
    PROVE  Lock'
BY DEF Lock, HoldersInFlight, OneScheduledPublish, InFlightIsRunning, Holds, At, Root

(* ... or that gives its root back.                                         *)
LEMMA HolderReleases ==
    ASSUME Lock, Typed', NEW t \in Threads, Holds(t), ~Holds(t)',
           in_flight' = in_flight \ {Root(t)},
           \A u \in Threads : u # t => thread'[u] = thread[u]
    PROVE  Lock'
BY DEF Lock, HoldersInFlight, OneScheduledPublish, InFlightIsRunning, Holds, At, Root

(* The thread that started another hands its root over.                     *)
LEMMA HolderHandsOver ==
    ASSUME Lock, Typed', NEW t \in Threads, NEW w \in Threads, t # w,
           Holds(t), ~Holds(t)', ~Holds(w), Holds(w)', UNCHANGED in_flight,
           thread'[w].root = thread[t].root,
           \A u \in Threads : u \notin {t, w} => thread'[u] = thread[u]
    PROVE  Lock'
BY DEF Lock, HoldersInFlight, OneScheduledPublish, InFlightIsRunning, Holds, At, Root

(* Initially no root is held.                                               *)
LEMMA LockInit == Init => Lock
<1> SUFFICES ASSUME Init PROVE Lock
  OBVIOUS
<1>1. \A t \in Threads : ~Holds(t)
  BY DEF Init, Holds, At, Idle, Enter
<1> QED BY <1>1, TypedInit
     DEF Init, Lock, HoldersInFlight, OneScheduledPublish, InFlightIsRunning

(* Every step keeps the lock per root.                                      *)
LEMMA LockNext == Lock /\ [Next]_vars => Lock'
<1> SUFFICES ASSUME Lock, [Next]_vars PROVE Lock'
  OBVIOUS
<1>0. Typed /\ Typed'
  BY TypedNext DEF Lock
<1>T. thread \in [Threads -> Thread] /\ WorkersPublish /\ Located
  BY <1>0 DEF Typed
<1>1. ASSUME NEW t \in Threads, ScheduleStep(t) PROVE Lock'
  <2>0. thread[t].pc \in {"schedule", "take", "start"} /\ t \notin Workers
    BY <1>1, <1>T DEF ScheduleStep, RefuseDraining, TakeRoot, StartThread, StartFails, At,
                      WorkersPublish, PublishPC
  <2>1. CASE RefuseDraining(t)
    <3>1. ~Holds(t) /\ ~Holds(t)'
      BY <2>0, <2>1, <1>T DEF RefuseDraining, Holds, At, Scheduled, Enter, Idle, Thread
    <3> QED BY <1>0, <1>T, <2>1, <3>1, OthersKeep DEF RefuseDraining, guard
  <2>2. CASE TakeRoot(t)
    <3>1. CASE Root(t) \in in_flight
      <4>1. ~Holds(t) /\ ~Holds(t)' /\ UNCHANGED in_flight
        BY <2>0, <2>2, <3>1, <1>T DEF TakeRoot, Holds, At, Scheduled, Enter, Idle
      <4> QED BY <1>0, <1>T, <2>2, <3>1, <4>1, OthersKeep DEF TakeRoot
    <3>2. CASE Root(t) \notin in_flight
      <4>1. ~Holds(t) /\ Holds(t)' /\ thread'[t].root = thread[t].root
        BY <2>0, <2>2, <3>2, <1>T DEF TakeRoot, Holds, At, Goto, Thread
      <4> QED BY <1>0, <1>T, <2>2, <3>2, <4>1, HolderTakes DEF TakeRoot, Goto
    <3> QED BY <3>1, <3>2
  <2>3. CASE StartThread(t)
    <3>1. PICK w \in Workers :
            /\ At(w, "idle")
            /\ thread' = [thread EXCEPT ![t] = Scheduled(t), ![w] = Enter("read", Root(t))]
      BY <2>3 DEF StartThread
    <3>2. w \in Threads /\ t # w
      BY <2>0 DEF Threads
    <3>3. Holds(t) /\ ~Holds(t)'
      BY <2>0, <2>3, <3>1, <3>2, <1>T DEF StartThread, Holds, At, Scheduled, Enter, Idle
    <3>4. ~Holds(w) /\ Holds(w)' /\ thread'[w].root = thread[t].root
      BY <3>1, <3>2, <1>T DEF Holds, At, Enter, Root
    <3> QED BY <1>0, <1>T, <2>3, <3>1, <3>2, <3>3, <3>4, HolderHandsOver DEF StartThread, guard
  <2>4. CASE StartFails(t)
    <3>1. Holds(t) /\ ~Holds(t)'
      BY <2>0, <2>4, <1>T DEF StartFails, Holds, At, Enter, Idle
    <3> QED BY <1>0, <1>T, <2>4, <3>1, HolderReleases DEF StartFails
  <2> QED BY <1>1, <2>1, <2>2, <2>3, <2>4 DEF ScheduleStep
<1>2. ASSUME NEW t \in Threads, PublishStep(t) PROVE Lock'
  <2>0. thread[t].pc \in PublishPC /\ Root(t) \in Roots
    BY <1>2, <1>T DEF PublishStep, ReadTip, RunChain, Record, Settle, Report, FileCard, GoAgain,
                      Release, At, PublishPC, Located, Root
  <2>1. CASE Release(t) /\ t \in Workers
    <3>1. Holds(t) /\ ~Holds(t)'
      BY <2>0, <2>1, <1>T DEF Release, Holds, At, Enter, Idle
    <3> QED BY <1>0, <1>T, <2>1, <3>1, HolderReleases DEF Release
  <2>2. CASE t \in Workers /\ ~Release(t)
    <3>1. Holds(t) /\ Holds(t)' /\ thread'[t].root = thread[t].root
      <4>1. Holds(t)
        BY <2>0, <2>2 DEF Holds, At, PublishPC
      <4>2. CASE ReadTip(t)
        BY <2>2, <4>1, <4>2, <1>T DEF ReadTip, Holds, At, Thread
      <4>3. CASE RunChain(t) \/ Record(t) \/ GoAgain(t)
        BY <2>2, <4>1, <4>3, <1>T, TreePublishAssumption
           DEF RunChain, Record, GoAgain, Holds, At, Goto, Thread
      <4>4. CASE Settle(t) \/ FileCard(t)
        BY <2>2, <4>1, <4>4, <1>T DEF Settle, FileCard, Holds, At, Published, Enter, Root
      <4>5. CASE Report(t)
        BY <2>2, <4>1, <4>5, <1>T DEF Report, Holds, At, Goto, Published, Enter, Root, Thread
      <4> QED BY <1>2, <2>2, <4>2, <4>3, <4>4, <4>5 DEF PublishStep
    <3>2. \A u \in Threads : u # t => thread'[u] = thread[u]
      BY <1>2, <2>2, <1>T DEF PublishStep, ReadTip, RunChain, Record, Settle, Report, FileCard,
           GoAgain, Goto
    <3>3. UNCHANGED in_flight
      BY <1>2, <2>2 DEF PublishStep, ReadTip, RunChain, Record, Settle, Report, FileCard, GoAgain,
           guard
    <3> QED BY <1>0, <3>1, <3>2, <3>3, HolderStays
  <2>3. CASE t \notin Workers
    <3>1. ~GoAgain(t) /\ ~Release(t)
      BY <2>3, <1>T DEF GoAgain, Release, At, WorkersPublish
    <3>2. ~Holds(t)
      BY <2>0, <2>3 DEF Holds, At, PublishPC
    <3>3. ~Holds(t)' /\ \A u \in Threads : u # t => thread'[u] = thread[u]
      <4>1. CASE ReadTip(t)
        BY <2>3, <4>1, <1>T DEF ReadTip, Holds, At, Thread
      <4>2. CASE RunChain(t) \/ Record(t)
        BY <2>3, <4>2, <1>T DEF RunChain, Record, Holds, At, Goto, Thread, Enter, Idle
      <4>3. CASE Settle(t) \/ FileCard(t)
        BY <2>3, <4>3, <1>T DEF Settle, FileCard, Holds, At, Published, Enter, Idle
      <4>4. CASE Report(t)
        BY <2>3, <4>4, <1>T DEF Report, Holds, At, Goto, Published, Enter, Idle, Thread
      <4> QED BY <1>2, <3>1, <4>1, <4>2, <4>3, <4>4 DEF PublishStep
    <3>4. UNCHANGED in_flight
      BY <1>2, <3>1 DEF PublishStep, ReadTip, RunChain, Record, Settle, Report, FileCard, guard
    <3> QED BY <1>0, <3>2, <3>3, <3>4, OthersKeep
  <2> QED BY <2>1, <2>2, <2>3
<1>3. CASE Pass
  <2>1. Sweeper \in Threads /\ Sweeper \notin Workers
    BY TreePublishAssumption DEF Threads
  <2>2. ~Holds(Sweeper) /\ ~Holds(Sweeper)'
    BY <1>3, <2>1, <1>T
       DEF Pass, Detect, Repair, Attempt, Holds, At, Goto, Enter, Idle, Thread
  <2>3. UNCHANGED in_flight /\ \A u \in Threads : u # Sweeper => thread'[u] = thread[u]
    BY <1>3, <1>T DEF Pass, Detect, Repair, Attempt, Goto, guard
  <2> QED BY <1>0, <2>1, <2>2, <2>3, OthersKeep
<1>4. ASSUME NEW t \in Landers, NEW r \in Roots, Land(t, r) \/ Complete(t, r) PROVE Lock'
  <2>1. t \in Threads /\ t \notin Workers
    BY TreePublishAssumption DEF Threads
  <2>2. ~Holds(t) /\ ~Holds(t)'
    BY <1>4, <2>1, <1>T DEF Land, Complete, Holds, At, Enter
  <2>3. UNCHANGED in_flight /\ \A u \in Threads : u # t => thread'[u] = thread[u]
    BY <1>4, <1>T DEF Land, Complete, guard
  <2> QED BY <1>0, <2>1, <2>2, <2>3, OthersKeep
<1>5. CASE Restart
  <2>1. \A t \in Threads : ~Holds(t)'
    BY <1>5 DEF Restart, Holds, At, Enter, Idle
  <2> QED BY <1>0, <1>5, <2>1
       DEF Restart, Lock, HoldersInFlight, OneScheduledPublish, InFlightIsRunning
<1>6. CASE UNCHANGED <<thread, in_flight>>
  BY <1>0, <1>6 DEF Lock, HoldersInFlight, OneScheduledPublish, InFlightIsRunning, Holds, At, Root
<1>7. World => \/ \E t \in Landers, r \in Roots : Land(t, r) \/ Complete(t, r)
               \/ Restart
               \/ UNCHANGED <<thread, in_flight>>
  BY DEF World, MayClose, BaseTakes, CloseCard, Forget, BeginDrain, EndDrain, guard
<1>8. UNCHANGED vars => UNCHANGED <<thread, in_flight>>
  BY DEF vars, guard
<1> QED BY <1>1, <1>2, <1>3, <1>4, <1>5, <1>6, <1>7, <1>8 DEF Next, Step

(* Whatever interleaves, a root in _IN_FLIGHT has a publish behind it, and  *)
(* no root has two: for any roots, threads, landings and failures.          *)
THEOREM LockKept == Spec => []Lock
BY LockInit, LockNext, PTL DEF Spec

(* A root in flight is being published, or about to be: schedule_tree_publish *)
(* and run_tree_publish's finally clause lose no root.                      *)
THEOREM NoRootIsStuck == Spec => []InFlightIsRunning
<1>1. Lock => InFlightIsRunning
  BY DEF Lock
<1> QED BY <1>1, LockKept, PTL

(* No two scheduled publishes own one root: "One publish per root at a      *)
(* time", for the publishes that go through the scheduler.                  *)
THEOREM RootsAreExclusive == Spec => []OneScheduledPublish
<1>1. Lock => OneScheduledPublish
  BY DEF Lock
<1> QED BY <1>1, LockKept, PTL

-----------------------------------------------------------------------------
(* While no completion publishes past the scheduler, a running publish has  *)
(* read a tip no older than the one recorded: the reads are newer than the  *)
(* last record because the lock admits no other record in between.          *)

Forward ==
    /\ left \in [Events -> Nat] /\ left["complete"] = 0
    /\ sha \in [Roots -> 0..MaxLandings]
    /\ \A t \in Threads \ Workers : thread[t].pc \notin PublishPC
    /\ \A r \in Roots : sha[r] <= tip[r]
    /\ \A w \in Workers : thread[w].pc \in {"push", "record"} =>
         sha[Root(w)] <= thread[w].tip /\ thread[w].tip <= tip[Root(w)]

(* Initially no publish holds a tip.                                        *)
LEMMA ForwardInit ==
    ASSUME \A b \in Budgets : b["complete"] = 0, Init PROVE Forward
BY TreePublishAssumption DEF Init, Forward, Enter, Idle, PublishPC, Threads

LeftKept == left' \in [Events -> Nat] /\ left'["complete"] = 0

(* A thread's step that neither reads a tip nor records one.                *)
Neutral(t) ==
    \/ thread'[t] = thread[t]
    \/ thread'[t].pc \notin PublishPC
    \/ t \in Workers /\ thread'[t].pc \notin {"push", "record"}
    \/ /\ t \in Workers /\ thread[t].pc = "push"
       /\ thread'[t].root = thread[t].root /\ thread'[t].tip = thread[t].tip

(* A step that records nothing keeps what running publishes have read ahead *)
(* of the record.                                                           *)
LEMMA ForwardKept ==
    ASSUME Lock, Lock', Forward, LeftKept, UNCHANGED sha,
           \A r \in Roots : tip[r] <= tip'[r],
           \A t \in Threads : Neutral(t)
    PROVE  Forward' /\ \A r \in Roots : sha'[r] >= sha[r]
<1>T. /\ tip \in [Roots -> 0..MaxLandings] /\ tip' \in [Roots -> 0..MaxLandings]
      /\ thread \in [Threads -> Thread] /\ Located /\ Located'
      /\ Workers \subseteq Threads /\ MaxLandings \in Nat
  BY TreePublishAssumption DEF Lock, Typed, Threads
<1>1. \A r \in Roots : sha'[r] <= tip'[r] /\ sha'[r] >= sha[r]
  BY <1>T DEF Forward
<1>2. \A t \in Threads \ Workers : thread'[t].pc \notin PublishPC
  BY DEF Forward, Neutral
<1>3. ASSUME NEW w \in Workers, thread'[w].pc \in {"push", "record"}
      PROVE  sha'[thread'[w].root] <= thread'[w].tip /\ thread'[w].tip <= tip'[thread'[w].root]
  <2>1. thread[w].pc \in {"push", "record"}
        /\ thread'[w].root = thread[w].root /\ thread'[w].tip = thread[w].tip
    BY <1>3, <1>T DEF Neutral, PublishPC
  <2>2. thread[w].root \in Roots /\ thread[w].tip \in Nat
    BY <2>1, <1>T DEF Located, Thread
  <2> QED BY <2>1, <2>2, <1>T DEF Forward, Root
<1> QED BY <1>1, <1>2, <1>3 DEF Forward, LeftKept, Root

(* Every step keeps it, and none moves the record back.                     *)
LEMMA ForwardNext ==
    ASSUME Lock, Lock', Forward, [Next]_vars
    PROVE  Forward' /\ \A r \in Roots : sha'[r] >= sha[r]
<1> DEFINE Goal == Forward' /\ \A r \in Roots : sha'[r] >= sha[r]
<1>T. /\ thread \in [Threads -> Thread] /\ tip \in [Roots -> 0..MaxLandings]
      /\ WorkersPublish /\ Located /\ Workers \subseteq Threads /\ MaxLandings \in Nat
      /\ "complete" \in Events
  BY TreePublishAssumption DEF Lock, Typed, Threads, Events
<1>L. LeftKept /\ \A t \in Landers, r \in Roots : ~Complete(t, r)
  <2>1. \A t \in Landers, r \in Roots : ~Complete(t, r)
    BY DEF Complete, Spend, Forward
  <2>2. ASSUME NEW what \in Events \ {"complete"}, Spend(what) PROVE LeftKept
    BY <2>2, <1>T DEF Spend, Forward, LeftKept
  <2>3. UNCHANGED left => LeftKept
    BY DEF Forward, LeftKept
  <2>4. {"restart", "drain", "unstarted", "unrecorded"} \subseteq Events \ {"complete"}
    BY DEF Events
  <2>5. UNCHANGED left \/ \E what \in {"restart", "drain", "unstarted", "unrecorded"} : Spend(what)
    <3>1. ASSUME NEW t \in Threads, Step(t)
          PROVE  UNCHANGED left \/ Spend("unstarted") \/ Spend("unrecorded")
      BY <3>1 DEF Step, ScheduleStep, PublishStep, RefuseDraining, TakeRoot, StartThread,
           StartFails, ReadTip, RunChain, Record, Settle, Report, FileCard, GoAgain, Release
    <3>2. Pass => UNCHANGED left
      BY DEF Pass, Detect, Repair, Attempt
    <3>3. World => UNCHANGED left \/ Spend("drain") \/ Spend("restart")
      BY <2>1 DEF World, Land, MayClose, BaseTakes, CloseCard, Forget, BeginDrain, EndDrain, Restart
    <3> QED BY <3>1, <3>2, <3>3 DEF Next, vars
  <2> QED BY <2>1, <2>2, <2>3, <2>4, <2>5
<1>1. ASSUME NEW t \in Threads, ScheduleStep(t) PROVE Goal
  <2>1. \A u \in Threads : Neutral(u)
    <3>1. CASE RefuseDraining(t)
      BY <3>1, <1>T DEF RefuseDraining, Scheduled, Enter, Idle, Neutral, PublishPC, Thread
    <3>2. CASE TakeRoot(t) \/ StartFails(t)
      BY <3>2, <1>T DEF TakeRoot, StartFails, Goto, Scheduled, Enter, Idle, Neutral, PublishPC,
           Thread
    <3>3. CASE StartThread(t)
      BY <3>3, <1>T DEF StartThread, Scheduled, Enter, Idle, Neutral, PublishPC
    <3> QED BY <1>1, <3>1, <3>2, <3>3 DEF ScheduleStep
  <2>2. UNCHANGED work
    BY <1>1 DEF ScheduleStep, RefuseDraining, TakeRoot, StartThread, StartFails
  <2> QED BY <1>T, <1>L, <2>1, <2>2, ForwardKept DEF work
<1>2. ASSUME NEW t \in Threads, PublishStep(t) PROVE Goal
  <2>0. t \in Workers
    BY <1>2, <1>T DEF Forward, PublishStep, ReadTip, RunChain, Record, Settle, Report, FileCard,
                      GoAgain, Release, At, PublishPC
  <2>1. CASE ReadTip(t)
    <3>1. UNCHANGED <<tip, sha>> /\ Root(t) \in Roots
      BY <2>1, <1>T DEF ReadTip, work, Located, At, Root
    <3>2. /\ \A u \in Threads : u # t => thread'[u] = thread[u]
          /\ thread'[t].root = thread[t].root /\ thread'[t].tip = tip[Root(t)]
      BY <2>1, <1>T DEF ReadTip, Thread
    <3>3. \A w \in Workers : thread'[w].pc \in {"push", "record"} =>
            sha'[thread'[w].root] <= thread'[w].tip /\ thread'[w].tip <= tip'[thread'[w].root]
      BY <2>0, <3>1, <3>2, <1>T DEF Forward, Root
    <3> QED BY <2>0, <3>1, <3>2, <3>3, <1>T, <1>L DEF Forward, LeftKept, Root
  <2>2. CASE Record(t)
    <3>1. /\ sha' = [sha EXCEPT ![Root(t)] = thread[t].tip] /\ UNCHANGED tip
          /\ thread' = [thread EXCEPT ![t].pc = "settle"]
          /\ Root(t) \in Roots /\ At(t, "record")
      BY <2>2, <1>T DEF Record, Goto, Located, At, Root
    <3>2. sha[Root(t)] <= thread[t].tip /\ thread[t].tip <= tip[Root(t)]
          /\ thread[t].tip \in 0..MaxLandings
      BY <2>0, <3>1, <1>T DEF Forward, At, Thread
    <3>3. sha' \in [Roots -> 0..MaxLandings] /\ \A r \in Roots : sha'[r] >= sha[r] /\ sha'[r] <= tip'[r]
      BY <3>1, <3>2, <1>T DEF Forward
    <3>4. ASSUME NEW w \in Workers, thread'[w].pc \in {"push", "record"}
          PROVE  sha'[thread'[w].root] <= thread'[w].tip /\ thread'[w].tip <= tip'[thread'[w].root]
      <4>1. w # t /\ thread'[w] = thread[w]
        BY <3>1, <3>4, <1>T DEF Thread
      <4>2. Root(w) # Root(t)
        BY <2>0, <3>1, <3>4, <4>1, <1>T DEF Lock, OneScheduledPublish, Holds, At
      <4>3. Root(w) \in Roots
        BY <3>4, <4>1, <1>T DEF Located, Root
      <4> QED BY <3>1, <3>4, <4>1, <4>2, <4>3, <1>T DEF Forward, Root
    <3>5. \A u \in Threads \ Workers : thread'[u] = thread[u]
      BY <2>0, <3>1, <1>T
    <3> QED BY <3>3, <3>4, <3>5, <1>L DEF Forward, LeftKept, Root
  <2>3. CASE ~ReadTip(t) /\ ~Record(t)
    <3>1. \A u \in Threads : Neutral(u)
      <4>1. CASE RunChain(t) \/ GoAgain(t) \/ Release(t)
        BY <2>0, <4>1, <1>T DEF RunChain, GoAgain, Release, At, Goto, Enter, Idle, Neutral,
             PublishPC, Thread
      <4>2. CASE Settle(t) \/ FileCard(t) \/ Report(t)
        BY <2>0, <4>2, <1>T DEF Settle, FileCard, Report, Goto, Published, Enter, Idle, Neutral,
             PublishPC, Thread
      <4> QED BY <1>2, <2>3, <4>1, <4>2 DEF PublishStep
    <3>2. UNCHANGED work
      BY <1>2, <2>3 DEF PublishStep, RunChain, Settle, Report, FileCard, GoAgain, Release
    <3> QED BY <1>T, <1>L, <3>1, <3>2, ForwardKept DEF work
  <2> QED BY <2>1, <2>2, <2>3
<1>3. CASE Pass
  <2>1. \A u \in Threads : Neutral(u)
    BY <1>3, <1>T DEF Pass, Detect, Repair, Attempt, Goto, Enter, Idle, Neutral, PublishPC, Thread
  <2>2. UNCHANGED work
    BY <1>3 DEF Pass, Detect, Repair, Attempt
  <2> QED BY <1>T, <1>L, <2>1, <2>2, ForwardKept DEF work
<1>4. CASE World \/ UNCHANGED vars
  <2>1. \A u \in Threads : Neutral(u)
    BY <1>4, <1>T, <1>L DEF World, Land, Restart, MayClose, BaseTakes, CloseCard, Forget,
         BeginDrain, EndDrain, Enter, Idle, Neutral, PublishPC, vars
  <2>2. UNCHANGED sha /\ \A r \in Roots : tip[r] <= tip'[r]
    BY <1>4, <1>T, <1>L DEF World, Land, Restart, MayClose, BaseTakes, CloseCard, Forget,
         BeginDrain, EndDrain, work, vars
  <2> QED BY <1>T, <1>L, <2>1, <2>2, ForwardKept
<1> QED BY <1>1, <1>2, <1>3, <1>4 DEF Next, Step

(* While every publish goes through schedule_tree_publish, the published    *)
(* tip never moves back, however landings, retries, drains and restarts     *)
(* interleave.                                                              *)
THEOREM PublishedAdvances ==
    ASSUME \A b \in Budgets : b["complete"] = 0
    PROVE  Spec => PublishedNeverRegresses
<1>1. Init => Forward
  BY ForwardInit
<1>2. Lock /\ Lock' /\ Forward /\ [Next]_vars => Forward'
  BY ForwardNext
<1>3. Lock /\ Lock' /\ Forward /\ [Next]_vars => [\A r \in Roots : sha'[r] >= sha[r]]_vars
  BY ForwardNext
<1> QED BY <1>1, <1>2, <1>3, LockKept, PTL DEF Spec, PublishedNeverRegresses

-----------------------------------------------------------------------------
(* TypeOK whole.  That a root has no more pending cards than its filers     *)
(* explain is the part that counts: with the threads about to file one, the *)
(* cards of a root are never more than the completions that may publish it  *)
(* at once, and the one publish the scheduler runs.                         *)

Filers(r) == {t \in Threads : At(t, "file") /\ Root(t) = r}

(* The pass schedules; it publishes nothing itself.                         *)
SweeperSchedules == thread[Sweeper].pc \notin PublishPC

Books ==
    /\ sha \in [Roots -> 0..MaxLandings] /\ base \in [Roots -> 0..MaxLandings]
    /\ again \subseteq Roots /\ draining \in BOOLEAN
    /\ attempted \subseteq Roots \X (0..MaxLandings)
    /\ closer \in Roots \cup {NoRoot}
    /\ left \in [Events -> Nat]
    /\ SweeperSchedules

(* A card that somebody found may be closed is there to be closed.          *)
Carded ==
    /\ card \in [Roots -> Nat]
    /\ \A r \in Roots : card[r] + Cardinality(Filers(r)) <= Cardinality(Landers) + 1
    /\ closer # NoRoot => card[closer] > 0

Publishing == Lock /\ Books /\ Carded

(* The threads are finitely many.                                           *)
LEMMA FiniteThreads ==
    /\ IsFiniteSet(Threads) /\ Cardinality(Landers) \in Nat
    /\ \A r : IsFiniteSet(Filers(r)) /\ Cardinality(Filers(r)) \in Nat
    /\ \A r : (IsFiniteSet(Filers(r)) /\ Cardinality(Filers(r)) \in Nat)'
<1>1. IsFiniteSet(Landers \cup Workers)
  BY TreePublishAssumption, FS_Union
<1>2. IsFiniteSet((Landers \cup Workers) \cup {Sweeper})
  BY <1>1, FS_AddElement
<1>3. IsFiniteSet(Threads)
  BY <1>2 DEF Threads
<1>4. Cardinality(Landers) \in Nat
  BY TreePublishAssumption, FS_CardinalityType
<1>5. ASSUME NEW S \in SUBSET Threads PROVE IsFiniteSet(S) /\ Cardinality(S) \in Nat
  BY <1>3, FS_Subset, FS_CardinalityType
<1>6. \A r : Filers(r) \in SUBSET Threads /\ Filers(r)' \in SUBSET Threads
  BY DEF Filers
<1> QED BY <1>3, <1>4, <1>5, <1>6

(* Fewer filers, fewer cards: the count stands.                             *)
LEMMA FewerFilers ==
    ASSUME NEW r, Filers(r)' \subseteq Filers(r)
    PROVE  Cardinality(Filers(r)') <= Cardinality(Filers(r))
BY FiniteThreads, FS_Subset

(* Only a report makes a thread file a card.                                *)
LEMMA NoNewFiler ==
    ASSUME Lock, [Next]_vars, \A t \in Threads : ~Report(t), NEW u \in Threads,
           thread'[u].pc = "file"
    PROVE  thread'[u] = thread[u]
<1>T. thread \in [Threads -> Thread] /\ Workers \subseteq Threads /\ Landers \subseteq Threads
      /\ Sweeper \in Threads
  BY DEF Lock, Typed, Threads
<1> USE <1>T DEF Enter, Idle, Thread, Goto
<1>1. ASSUME NEW t \in Threads, ScheduleStep(t) PROVE thread'[u] = thread[u]
  BY <1>1 DEF ScheduleStep, RefuseDraining, TakeRoot, StartThread, StartFails, Scheduled
<1>2. ASSUME NEW t \in Threads, PublishStep(t) PROVE thread'[u] = thread[u]
  BY <1>2 DEF PublishStep, ReadTip, RunChain, Record, Settle, FileCard, GoAgain, Release, Published
<1>3. CASE Pass
  BY <1>3 DEF Pass, Detect, Repair, Attempt
<1>4. CASE World \/ UNCHANGED vars
  BY <1>4 DEF World, Land, Complete, MayClose, BaseTakes, CloseCard, Forget, BeginDrain, EndDrain,
       Restart, vars
<1> QED BY <1>1, <1>2, <1>3, <1>4 DEF Next, Step

(* What a step does to the cards.                                           *)
LEMMA CardSteps ==
    ASSUME [Next]_vars
    PROVE  \/ UNCHANGED <<card, closer>>
           \/ UNCHANGED card /\ closer' = NoRoot
           \/ \E r \in Roots : UNCHANGED card /\ card[r] > 0 /\ closer' = r
           \/ \E t \in Threads : Settle(t) \/ FileCard(t)
           \/ CloseCard
<1>1. ASSUME NEW t \in Threads, Step(t)
      PROVE  Settle(t) \/ FileCard(t) \/ UNCHANGED <<card, closer>>
  BY <1>1 DEF Step, ScheduleStep, PublishStep, RefuseDraining, TakeRoot, StartThread, StartFails,
       ReadTip, RunChain, Record, Report, GoAgain, Release
<1>2. Pass \/ UNCHANGED vars => UNCHANGED <<card, closer>>
  BY DEF Pass, Detect, Repair, Attempt, vars
<1>3. CASE World
  BY <1>3 DEF World, Land, Complete, MayClose, BaseTakes, CloseCard, Forget, BeginDrain, EndDrain,
       Restart
<1> QED BY <1>1, <1>2, <1>3 DEF Next

(* A report may file where no card is pending: then only completions, and   *)
(* the one publish that is scheduled, may be about to.                      *)
LEMMA ReportKeeps ==
    ASSUME Publishing, Lock', NEW t \in Threads, Report(t), NEW r \in Roots
    PROVE  card'[r] + Cardinality(Filers(r)') <= Cardinality(Landers) + 1
<1>T. /\ thread \in [Threads -> Thread] /\ thread' \in [Threads -> Thread]
      /\ Workers \subseteq Threads /\ Sweeper \in Threads /\ card \in [Roots -> Nat]
  BY DEF Publishing, Lock, Typed, Threads, Carded
<1>0. UNCHANGED card /\ \A u \in Threads : u # t => thread'[u] = thread[u]
  BY <1>T DEF Report, Goto, Published
<1>1. CASE Filers(r)' \subseteq Filers(r)
  BY <1>0, <1>1, <1>T, FewerFilers, FiniteThreads DEF Publishing, Carded
<1>2. CASE ~(Filers(r)' \subseteq Filers(r))
  <2>1. PICK u \in Filers(r)' : u \notin Filers(r)
    BY <1>2
  <2>2. u = t /\ thread'[t].pc = "file" /\ thread'[t].root = r
    BY <1>0, <2>1 DEF Filers, At, Root
  <2>3. card[r] = 0
    BY <2>2, <1>T DEF Report, Goto, Published, Enter, Idle, Thread, Root
  <2>4. \A u1 \in Filers(r)' \ Landers, u2 \in Filers(r)' \ Landers : u1 = u2
    <3>1. thread'[Sweeper].pc # "file"
      BY <1>0, <1>T DEF Publishing, Books, SweeperSchedules, PublishPC, Report, At
    <3>2. Filers(r)' \ Landers \subseteq Workers
      BY <3>1 DEF Filers, Threads, At
    <3> QED
      BY <3>2, <1>T DEF Lock, OneScheduledPublish, Holds, Filers, At, Root
  <2>5. PICK w : Filers(r)' \subseteq Landers \cup {w}
    BY <2>4
  <2>6. IsFiniteSet(Landers \cup {w}) /\ Cardinality(Landers \cup {w}) <= Cardinality(Landers) + 1
    <3>1. IsFiniteSet(Landers) /\ Cardinality(Landers) \in Nat
      BY TreePublishAssumption, FiniteThreads
    <3>2. /\ IsFiniteSet(Landers \cup {w})
          /\ Cardinality(Landers \cup {w}) =
               IF w \in Landers THEN Cardinality(Landers) ELSE Cardinality(Landers) + 1
      BY <3>1, FS_AddElement
    <3> QED BY <3>1, <3>2
  <2>7. Cardinality(Filers(r)') <= Cardinality(Landers \cup {w})
    BY <2>5, <2>6, FS_Subset
  <2>8. Cardinality(Landers \cup {w}) \in Nat
    BY <2>6, FS_CardinalityType
  <2> QED BY <1>0, <2>3, <2>6, <2>7, <2>8, FiniteThreads
<1> QED BY <1>1, <1>2

(* A card is filed by one who was about to.                                 *)
LEMMA FileKeeps ==
    ASSUME Publishing, NEW t \in Threads, FileCard(t), NEW r \in Roots
    PROVE  card'[r] + Cardinality(Filers(r)') <= Cardinality(Landers) + 1
<1>T. thread \in [Threads -> Thread] /\ card \in [Roots -> Nat] /\ t \in Filers(Root(t))
  BY DEF Publishing, Lock, Typed, Carded, FileCard, Filers
<1>1. Filers(r)' \subseteq Filers(r) \ {t}
  BY <1>T DEF FileCard, Published, Enter, Idle, Filers, At, Root
<1>2. CASE r = Root(t)
  <2>1. Cardinality(Filers(r) \ {t}) = Cardinality(Filers(r)) - 1 /\ IsFiniteSet(Filers(r) \ {t})
    BY <1>2, <1>T, FiniteThreads, FS_RemoveElement
  <2>2. Cardinality(Filers(r)') <= Cardinality(Filers(r)) - 1
    BY <1>1, <2>1, FS_Subset
  <2>3. card'[r] = card[r] + 1
    BY <1>2, <1>T DEF FileCard
  <2>4. card[r] + Cardinality(Filers(r)) <= Cardinality(Landers) + 1 /\ card[r] \in Nat
    BY <1>T DEF Publishing, Carded
  <2> QED BY <2>2, <2>3, <2>4, FiniteThreads
<1>3. CASE r # Root(t)
  <2>1. Filers(r)' \subseteq Filers(r) /\ card'[r] = card[r]
    BY <1>1, <1>3, <1>T DEF FileCard
  <2> QED BY <2>1, <1>T, FewerFilers, FiniteThreads DEF Publishing, Carded
<1> QED BY <1>2, <1>3

(* Every step keeps the count of the cards.                                 *)
LEMMA CardedNext == Publishing /\ Lock' /\ [Next]_vars => Carded'
<1> SUFFICES ASSUME Publishing, Lock', [Next]_vars PROVE Carded'
  OBVIOUS
<1>T. /\ thread \in [Threads -> Thread] /\ card \in [Roots -> Nat] /\ Located
      /\ closer # NoRoot => closer \in Roots /\ card[closer] > 0
      /\ closer \in Roots \cup {NoRoot} /\ NoRoot \notin Roots
  BY TreePublishAssumption DEF Publishing, Lock, Typed, Carded, Books
<1>1. card' \in [Roots -> Nat] /\ (closer' # NoRoot => card'[closer'] > 0)
  <2>1. ASSUME NEW t \in Threads, Settle(t)
        PROVE  card' \in [Roots -> Nat] /\ (closer' # NoRoot => card'[closer'] > 0)
    BY <2>1, <1>T DEF Settle
  <2>2. ASSUME NEW t \in Threads, FileCard(t)
        PROVE  card' \in [Roots -> Nat] /\ (closer' # NoRoot => card'[closer'] > 0)
    <3>1. Root(t) \in Roots
      BY <2>2, <1>T DEF FileCard, Located, At, Root
    <3> QED BY <2>2, <3>1, <1>T DEF FileCard
  <2>3. CASE CloseCard
    BY <2>3, <1>T DEF CloseCard
  <2>4. CASE (UNCHANGED card /\ closer' = NoRoot) \/ UNCHANGED <<card, closer>>
    BY <2>4, <1>T
  <2>5. ASSUME NEW r \in Roots, UNCHANGED card, card[r] > 0, closer' = r
        PROVE  card' \in [Roots -> Nat] /\ (closer' # NoRoot => card'[closer'] > 0)
    BY <2>5, <1>T
  <2> QED BY <2>1, <2>2, <2>3, <2>4, <2>5, CardSteps
<1>2. ASSUME NEW r \in Roots
      PROVE  card'[r] + Cardinality(Filers(r)') <= Cardinality(Landers) + 1
  <2>1. CASE \E t \in Threads : Report(t)
    BY <2>1, ReportKeeps
  <2>2. CASE \E t \in Threads : FileCard(t)
    BY <2>2, FileKeeps
  <2>3. CASE \A t \in Threads : ~Report(t) /\ ~FileCard(t)
    <3>1. Filers(r)' \subseteq Filers(r)
      BY <2>3, NoNewFiler DEF Publishing, Filers, At, Root
    <3>2. card'[r] \in Nat /\ card[r] \in Nat /\ card'[r] <= card[r]
      <4>1. ASSUME NEW t \in Threads, Settle(t) PROVE card'[r] <= card[r]
        BY <4>1, <1>T DEF Settle
      <4>2. CloseCard => card'[r] <= card[r]
        BY <1>T DEF CloseCard
      <4> QED BY <1>T, <1>1, <2>3, <4>1, <4>2, CardSteps
    <3>3. card[r] + Cardinality(Filers(r)) <= Cardinality(Landers) + 1
      BY DEF Publishing, Carded
    <3> QED BY <3>1, <3>2, <3>3, FewerFilers, FiniteThreads
  <2> QED BY <2>1, <2>2, <2>3
<1> QED BY <1>1, <1>2 DEF Carded

(* And the rest of the types.                                               *)
LEMMA BooksNext == Publishing /\ [Next]_vars => Books'
<1> SUFFICES ASSUME Publishing, [Next]_vars PROVE Books'
  OBVIOUS
<1>T. /\ thread \in [Threads -> Thread] /\ Located /\ WorkersPublish /\ Books
      /\ tip \in [Roots -> 0..MaxLandings] /\ Sweeper \in Threads /\ Sweeper \notin Workers
      /\ Sweeper \notin Landers
      /\ sweep \in [wanted : SUBSET Roots, todo : SUBSET (Roots \X (0..MaxLandings))]
  BY TreePublishAssumption DEF Publishing, Lock, Typed, Threads
<1>1. SweeperSchedules'
  <2> USE <1>T DEF Books, SweeperSchedules, PublishPC, Enter, Idle, Thread, Goto, At
  <2>1. ASSUME NEW t \in Threads, ScheduleStep(t) PROVE SweeperSchedules'
    BY <2>1 DEF ScheduleStep, RefuseDraining, TakeRoot, StartThread, StartFails, Scheduled
  <2>2. ASSUME NEW t \in Threads, PublishStep(t) PROVE SweeperSchedules'
    <3>1. t # Sweeper
      BY <2>2 DEF PublishStep, ReadTip, RunChain, Record, Settle, Report, FileCard, GoAgain, Release
    <3> QED
      BY <2>2, <3>1 DEF PublishStep, ReadTip, RunChain, Record, Settle, Report, FileCard, GoAgain,
         Release
  <2>3. CASE Pass
    BY <2>3 DEF Pass, Detect, Repair, Attempt
  <2>4. CASE World \/ UNCHANGED vars
    BY <2>4 DEF World, Land, Complete, MayClose, BaseTakes, CloseCard, Forget, BeginDrain, EndDrain,
         Restart, vars
  <2> QED BY <2>1, <2>2, <2>3, <2>4 DEF Next, Step
<1>M. /\ UNCHANGED sha \/ \E t \in Threads : Record(t)
      /\ UNCHANGED base \/ \E r \in Roots : BaseTakes(r)
      /\ again' \subseteq again \/ \E t \in Threads : TakeRoot(t)
      /\ draining' \in {draining, TRUE, FALSE}
      /\ UNCHANGED attempted \/ Attempt \/ Forget \/ attempted' = {}
      /\ UNCHANGED left \/ \E what \in Events : Spend(what)
  <2> USE DEF work, guard, pass
  <2>1. ASSUME NEW t \in Threads, ScheduleStep(t) PROVE <1>M!:
    BY <2>1 DEF ScheduleStep, RefuseDraining, TakeRoot, StartThread, StartFails, Events
  <2>2. ASSUME NEW t \in Threads, PublishStep(t) PROVE <1>M!:
    BY <2>2 DEF PublishStep, ReadTip, RunChain, Record, Settle, Report, FileCard, GoAgain, Release,
       Events
  <2>3. CASE Pass
    BY <2>3 DEF Pass, Detect, Repair, Attempt
  <2>4. CASE World \/ UNCHANGED vars
    BY <2>4 DEF World, Land, Complete, MayClose, BaseTakes, CloseCard, Forget, BeginDrain, EndDrain,
         Restart, vars, Events
  <2> QED BY <2>1, <2>2, <2>3, <2>4 DEF Next, Step
<1>2. sha' \in [Roots -> 0..MaxLandings]
  BY <1>M, <1>T DEF Record, Thread, Books
<1>3. base' \in [Roots -> 0..MaxLandings]
  BY <1>M, <1>T DEF BaseTakes, Books
<1>4. again' \subseteq Roots
  <2>1. ASSUME NEW t \in Threads, TakeRoot(t)
        PROVE  again' \subseteq again \cup {Root(t)} /\ Root(t) \in Roots
    BY <2>1, <1>T DEF TakeRoot, Located, At, Root
  <2> QED BY <1>M, <1>T, <2>1 DEF Books
<1>5. attempted' \subseteq Roots \X (0..MaxLandings)
  BY <1>M, <1>T DEF Attempt, Forget, pass, Books
<1>6. closer' \in Roots \cup {NoRoot}
  BY <1>T, CardSteps DEF Books, Settle, FileCard, CloseCard
<1>7. left' \in [Events -> Nat]
  <2>1. ASSUME NEW what \in Events, Spend(what) PROVE left' \in [Events -> Nat]
    <3>1. left[what] - 1 \in Nat
      BY <2>1, <1>T DEF Spend, Books
    <3> QED BY <2>1, <3>1, <1>T DEF Spend, Books
  <2> QED BY <1>M, <1>T, <2>1 DEF Books
<1> QED BY <1>M, <1>T, <1>1, <1>2, <1>3, <1>4, <1>5, <1>6, <1>7 DEF Books

(* Initially there are no cards.                                            *)
LEMMA PublishingInit == Init => Publishing
<1> SUFFICES ASSUME Init PROVE Publishing
  OBVIOUS
<1>1. Lock
  BY LockInit
<1>2. Books
  <2>1. thread[Sweeper].pc = "idle"
    BY DEF Init, Enter, Idle, Threads
  <2>2. sha \in [Roots -> 0..MaxLandings] /\ base \in [Roots -> 0..MaxLandings]
    BY TreePublishAssumption DEF Init
  <2>3. left \in [Events -> Nat] /\ closer = NoRoot
    BY TreePublishAssumption DEF Init
  <2> QED BY <2>1, <2>2, <2>3 DEF Init, Books, SweeperSchedules, PublishPC
<1>3. Carded
  <2>1. \A r \in Roots : Filers(r) = {}
    BY DEF Init, Filers, At, Enter, Idle
  <2> QED BY <2>1, FS_EmptySet, FiniteThreads DEF Init, Carded
<1> QED BY <1>1, <1>2, <1>3 DEF Publishing

(* Every variable keeps to its domain, and a root to as many pending        *)
(* "Publish failed" cards as threads may file at once, however reports,     *)
(* settlements, closings and restarts interleave (report_publish_failure,   *)
(* close_publish_card).                                                     *)
THEOREM PublishTypeCorrect == Spec => []TypeOK
<1>1. Publishing /\ Lock' /\ [Next]_vars => Publishing'
  BY CardedNext, BooksNext DEF Publishing
<1>2. Publishing => TypeOK
  <2> SUFFICES ASSUME Publishing PROVE TypeOK
    OBVIOUS
  <2>1. card \in [Roots -> 0..(Cardinality(Landers) + 1)]
    BY FiniteThreads DEF Publishing, Carded
  <2> QED BY <2>1 DEF Publishing, Lock, Typed, Books, TypeOK
<1> QED BY <1>1, <1>2, PublishingInit, LockKept, PTL DEF Spec
====
