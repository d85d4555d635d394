-------------------------- MODULE RunReaperProofs --------------------------
(***************************************************************************)
(* What the reapers of RunLifecycle and the drive of a stage may rely on.   *)
(*                                                                         *)
(* A reaper that asks about the process a row names does not fail the run   *)
(* over a live agent, unless it is the sweep of leases, `ps' was silent and *)
(* the lease had lapsed: between what it read and what it writes the        *)
(* supervisor may have spawned, but an identity that was read and gone      *)
(* belongs to an agent that never works again.                              *)
(*                                                                         *)
(* And no reaper takes the stage from a run that succeeds: while the drive  *)
(* lives, one run at a time is active, and the stage is running until that  *)
(* run says where it goes.                                                  *)
(***************************************************************************)
EXTENDS RunLifecycleProofs

(* A supervisor that may yet spawn its agent, or record it.                 *)
Young == {"wait", "check", "spawn", "record"}

(* Its run has a row, and no identity on it.                                *)
Nameless == \A r \in Runs : th[sup(r)].pc \in Young => run[r].status # "none" /\ ~run[r].pid

Blank == \A r \in Runs : run[r].status = "none" => ~run[r].pid

(* What was read says that the agent is gone.                               *)
Knows(saw, back) == saw # "none" /\ ~(saw = "lapsed" /\ back = "expired")

(* What the claim of a reaper that read so is about.                        *)
Knowing == \A t \in Thread :
    th[t].pc = "claim" /\ Knows(th[t].saw, th[t].back) =>
      th[t].run \in Runs /\ run[th[t].run].pid /\ agent[th[t].run] # "working"

ReapInv == Nameless /\ Blank /\ Knowing

(* While the boot runs no supervisor does, so that what it found dead when  *)
(* it made its list is dead when it comes to it.                            *)
Hushed ==
    /\ th[boot].pc # "idle" => server = "booting"
    /\ server \in {"down", "booting"} => \A r \in Runs : th[sup(r)].pc = "idle"

Found ==
    th[boot].pc # "idle" /\ th[boot].back = "interrupted" =>
      \A r \in th[boot].todo : run[r].pid => agent[r] # "working"

BootInv == Hushed /\ Found

(* What a step may do, as far as ReapInv can tell: claims are kept or are   *)
(* of the dead, agents are spawned, identities recorded and supervisors     *)
(* moved where they may be.                                                 *)
ClaimsAreKnowing == \A t \in Thread :
    th'[t].pc = "claim" /\ Knows(th'[t].saw, th'[t].back) =>
      \/ th'[t] = th[t]
      \/ /\ th'[t].run \in Runs /\ run[th'[t].run].pid /\ agent[th'[t].run] # "working"

AgentsAreSpawned == \A r \in Runs :
    agent'[r] = "working" => agent[r] = "working" \/ th[sup(r)].pc = "spawn"

IdentitiesAreRecorded == \A r \in Runs :
    /\ run'[r].pid = run[r].pid \/ th[sup(r)].pc \in {"insert", "record"}
    /\ run'[r].status = "none" => run[r].status = "none" /\ run'[r].pid = run[r].pid

SupervisorsAge == \A r \in Runs :
    th'[sup(r)].pc \in Young =>
      \/ th[sup(r)].pc \in Young /\ run'[r].pid = run[r].pid
      \/ run'[r].status # "none" /\ ~run'[r].pid

ReapStep == ClaimsAreKnowing /\ AgentsAreSpawned /\ IdentitiesAreRecorded /\ SupervisorsAge

-----------------------------------------------------------------------------
(* Such a step keeps the invariant.                                         *)
LEMMA ReapKept == ASSUME IInv, ReapInv, ReapStep PROVE ReapInv'
<1>1. Nameless'
  BY DEF ReapInv, Nameless, ReapStep, SupervisorsAge, IdentitiesAreRecorded, sup
<1>2. Blank'
  BY DEF ReapInv, Blank, ReapStep, IdentitiesAreRecorded
<1>3. Knowing'
  <2> SUFFICES ASSUME NEW t \in Thread, th'[t].pc = "claim", Knows(th'[t].saw, th'[t].back)
               PROVE  /\ th'[t].run \in Runs /\ run'[th'[t].run].pid
                      /\ agent'[th'[t].run] # "working"
    BY DEF Knowing
  <2> DEFINE r == th'[t].run
  <2>1. r \in Runs /\ run[r].pid /\ agent[r] # "working"
    BY DEF ReapInv, Knowing, ReapStep, ClaimsAreKnowing
  <2>2. th[sup(r)].pc \notin {"spawn", "record"}
    BY <2>1 DEF ReapInv, Nameless, Young
  <2>3. th[sup(r)].pc # "insert"
    BY <2>1 DEF ReapInv, Blank, IInv, Rowless, Early
  <2> QED
    BY <2>1, <2>2, <2>3 DEF ReapStep, AgentsAreSpawned, IdentitiesAreRecorded
<1> QED BY <1>1, <1>2, <1>3 DEF ReapInv

(* Steps of one thread, and steps of none.                                  *)
Tame(t, x) ==
    /\ x.pc = "claim" /\ Knows(x.saw, x.back) =>
         x.run \in Runs /\ run[x.run].pid /\ agent[x.run] # "working"
    /\ \A r \in Runs : t = sup(r) /\ x.pc \in Young => th[t].pc \in Young

RowsKept ==
    \A r \in Runs :
      run'[r].pid = run[r].pid /\ (run'[r].status = "none" => run[r].status = "none")

LEMMA Turn ==
    ASSUME IInv, NEW t \in Thread, NEW x, Tame(t, x), th' = [th EXCEPT ![t] = x],
           RowsKept, AgentsAreSpawned
    PROVE  ReapStep
<1>1. th \in [Thread -> Local]
  BY DEF IInv, TypeOK
<1>2. ClaimsAreKnowing
  BY <1>1 DEF ClaimsAreKnowing, Tame
<1>3. IdentitiesAreRecorded
  BY DEF IdentitiesAreRecorded, RowsKept
<1>4. SupervisorsAge
  BY <1>1, ThreadNames DEF SupervisorsAge, Tame, RowsKept
<1> QED BY <1>2, <1>3, <1>4 DEF ReapStep

LEMMA FieldKept ==
    ASSUME IInv, NEW r \in Runs, NEW b,
           \/ run' = [run EXCEPT ![r].fresh = b]
           \/ run' = [run EXCEPT ![r].finished = b]
           \/ run' = [run EXCEPT ![r].cancel = b]
    PROVE  RowsKept
<1>1. run \in [Runs -> Row]
  BY DEF IInv, TypeOK
<1>2. \A q \in Runs : run'[q].pid = run[q].pid /\ run'[q].status = run[q].status
  BY <1>1 DEF Row
<1> QED BY <1>2 DEF RowsKept

LEMMA NoTurn ==
    ASSUME IInv, UNCHANGED th, RowsKept, AgentsAreSpawned
    PROVE  ReapStep
BY ThreadNames DEF ReapStep, ClaimsAreKnowing, IdentitiesAreRecorded, SupervisorsAge, RowsKept

(* A thread goes to a place that neither claims nor is a young supervisor's.*)
LEMMA ElsewhereTame ==
    ASSUME NEW t \in Thread, NEW x, x.pc \notin {"claim"} \cup Young
    PROVE  Tame(t, x)
BY DEF Tame

LEMMA IdleTame ==
    ASSUME NEW t \in Thread, NEW pc \in Pc \ ({"claim"} \cup Young), NEW S, NEW q, NEW b, NEW a
    PROVE  /\ Tame(t, Idle) /\ Tame(t, [Idle EXCEPT !.pc = pc])
           /\ Tame(t, [Idle EXCEPT !.pc = pc, !.todo = S])
           /\ Tame(t, [Idle EXCEPT !.pc = pc, !.run = q])
           /\ Tame(t, [Idle EXCEPT !.pc = pc, !.adv = a])
           /\ Tame(t, [Idle EXCEPT !.pc = pc, !.run = q, !.todo = S])
           /\ Tame(t, [Idle EXCEPT !.pc = pc, !.todo = S, !.back = b])
BY DEF Tame, Idle, Young

LEMMA GotoTame ==
    ASSUME IInv, NEW t \in Thread, NEW pc, Goto(t, pc),
           pc \notin {"claim"} \cup Young \/ (pc # "claim" /\ th[t].pc \in Young)
    PROVE  th' = [th EXCEPT ![t] = [th[t] EXCEPT !.pc = pc]] /\ Tame(t, [th[t] EXCEPT !.pc = pc])
<1>1. th[t] \in Local /\ th \in [Thread -> Local]
  BY DEF IInv, TypeOK
<1>2. [th[t] EXCEPT !.pc = pc].pc = pc
  BY <1>1 DEF Local
<1> QED BY <1>1, <1>2 DEF Tame, Goto

(* A loop passes a row over, or a thread goes back to its caller.           *)
LEMMA SkipTame ==
    ASSUME IInv, NEW t \in Thread, NEW r, th[t].pc # "claim"
    PROVE  Tame(t, Skip(t, r))
BY DEF Tame, Skip, IInv, TypeOK, Local

LEMMA ReturnTame == ASSUME IInv, NEW t \in Thread PROVE Tame(t, Return(t))
<1>1. th[t] \in Local
  BY DEF IInv, TypeOK
<1>2. Return(t).pc = th[t].back
  BY <1>1 DEF Return, Local, Idle
<1>3. Return(t).pc \notin {"claim"} \cup Young
  BY <1>1, <1>2 DEF Local, Callers, Young
<1> QED BY <1>3, ElsewhereTame

(* A completion is called by somebody who read no identity, or who read one *)
(* whose agent is gone.                                                     *)
LEMMA CompleteTame ==
    ASSUME IInv, NEW t \in Thread, NEW r \in Runs, NEW v, NEW adv, NEW saw, NEW b, NEW S,
           Knows(saw, b) => run[r].pid /\ agent[r] # "working"
    PROVE  /\ Tame(t, Complete(t, r, v, adv, saw, b))
           /\ Tame(t, [Complete(t, r, v, adv, saw, b) EXCEPT !.todo = S])
<1> DEFINE x == Complete(t, r, v, adv, saw, b)
           y == [x EXCEPT !.todo = S]
<1>1. th[t] \in Local
  BY DEF IInv, TypeOK
<1>2. /\ x.pc = "claim" /\ x.run = r /\ x.saw = saw /\ x.back = b
      /\ y.pc = "claim" /\ y.run = r /\ y.saw = saw /\ y.back = b
  BY <1>1 DEF Complete, Local
<1> HIDE DEF x, y
<1>3. Tame(t, x) /\ Tame(t, y)
  BY <1>2 DEF Tame, Young
<1> QED BY <1>3 DEF x, y

LEMMA FailTame ==
    ASSUME IInv, NEW t \in Thread, NEW r \in Runs, NEW adv, NEW saw, NEW b,
           Knows(saw, b) => run[r].pid /\ agent[r] # "working"
    PROVE  Tame(t, Fail(t, r, adv, saw, b))
BY CompleteTame DEF Fail

-----------------------------------------------------------------------------
(* The steps of a supervisor.                                               *)
LEMMA ReapDispatch ==
    ASSUME IInv, ReapInv, NEW r \in Runs,
           \/ start_run_async(r) \/ Supersede(r) \/ start_orchestration_run(r) \/ Mark(r)
    PROVE  ReapStep
<1>1. RowsKept /\ AgentsAreSpawned
  BY DEF RowsKept, AgentsAreSpawned, start_run_async, Supersede, start_orchestration_run, Mark
<1>2. sup(r) \in Thread /\ th[sup(r)] \in Local
  BY ThreadNames DEF IInv, TypeOK
<1>3. CASE start_run_async(r)
  <2> DEFINE x == [Idle EXCEPT !.pc = "reap", !.run = r, !.todo = InFlight]
  <2>1. x.pc = "reap"
    BY DEF Idle
  <2>2. th' = [th EXCEPT ![sup(r)] = x]
    BY <1>3 DEF start_run_async
  <2> HIDE DEF x
  <2>3. Tame(sup(r), x)
    BY <2>1 DEF Tame, Young
  <2> QED BY <1>1, <1>2, <2>2, <2>3, Turn
<1>4. CASE Supersede(r)
  <2>1. CASE th[sup(r)].todo = {}
    <3> DEFINE x == [Idle EXCEPT !.pc = "mark"]
    <3>1. x.pc = "mark"
      BY DEF Idle
    <3>2. th' = [th EXCEPT ![sup(r)] = x]
      BY <1>4, <2>1 DEF Supersede
    <3> HIDE DEF x
    <3>3. Tame(sup(r), x)
      BY <3>1 DEF Tame, Young
    <3> QED BY <1>1, <1>2, <3>2, <3>3, Turn
  <2>2. CASE th[sup(r)].todo # {}
    <3>1. PICK q \in th[sup(r)].todo :
            th' = [th EXCEPT ![sup(r)] = Fail(sup(r), q, TRUE, "none", "reap")]
      BY <1>4, <2>2 DEF Supersede
    <3>2. q \in Runs
      BY <1>2 DEF Local
    <3>3. Tame(sup(r), Fail(sup(r), q, TRUE, "none", "reap"))
      BY <1>2, <3>2, FailTame DEF Knows
    <3> QED BY <1>1, <1>2, <3>1, <3>3, Turn
  <2> QED BY <2>1, <2>2
<1>5. CASE start_orchestration_run(r)
  <2> DEFINE x == [Idle EXCEPT !.pc = "mark", !.adv = TRUE]
  <2>1. x.pc = "mark"
    BY DEF Idle
  <2>2. th' = [th EXCEPT ![sup(r)] = x]
    BY <1>5 DEF start_orchestration_run
  <2> HIDE DEF x
  <2>3. Tame(sup(r), x)
    BY <2>1 DEF Tame, Young
  <2> QED BY <1>1, <1>2, <2>2, <2>3, Turn
<1>6. CASE Mark(r)
  <2>1. PICK p \in {"children", "insert"} : Goto(sup(r), p)
    BY <1>6 DEF Mark
  <2>2. p \notin {"claim"} \cup Young
    BY DEF Young
  <2> QED BY <1>1, <1>2, <2>1, <2>2, GotoTame, Turn
<1> QED BY <1>3, <1>4, <1>5, <1>6

LEMMA EndDriveReaps ==
    ASSUME IInv, NEW t \in Thread, NEW s, EndDrive(t, s), RowsKept, AgentsAreSpawned
    PROVE  ReapStep
<1> DEFINE x == [Idle EXCEPT !.pc = "children", !.todo = Driven]
<1>1. x.pc = "children"
  BY DEF Idle
<1>2. th' = [th EXCEPT ![t] = x]
  BY DEF EndDrive
<1> HIDE DEF x
<1>3. Tame(t, x)
  BY <1>1 DEF Tame, Young
<1> QED BY <1>2, <1>3, Turn

(* The row is new, and names nobody.                                        *)
LEMMA ReapInsert ==
    ASSUME IInv, ReapInv, NEW r \in Runs, Insert(r)
    PROVE  ReapStep
<1>1. sup(r) \in Thread /\ th[sup(r)].pc = "insert" /\ run \in [Runs -> Row]
  BY ThreadNames DEF IInv, TypeOK, Insert
<1>2. /\ run'[r].status = "running" /\ ~run'[r].pid
      /\ \A q \in Runs : q # r => run'[q] = run[q]
  BY <1>1 DEF Insert, NoRow
<1>3. PICK x \in {Idle, [Idle EXCEPT !.pc = "wait", !.run = r]} :
        th' = [th EXCEPT ![sup(r)] = x]
  BY DEF Insert
<1>4. \A t \in Thread : t # sup(r) => th'[t] = th[t]
  BY <1>3 DEF IInv, TypeOK
<1>5. th'[sup(r)] = x /\ x.pc # "claim"
  <2>1. x.pc # "claim"
    <3>1. Idle.pc = "idle" /\ [Idle EXCEPT !.pc = "wait", !.run = r].pc = "wait"
      BY DEF Idle
    <3> QED BY <3>1
  <2>2. th'[sup(r)] = x
    BY <1>1, <1>3 DEF IInv, TypeOK
  <2> QED BY <2>1, <2>2
<1>6. ClaimsAreKnowing
  BY <1>4, <1>5 DEF ClaimsAreKnowing
<1>7. AgentsAreSpawned
  BY DEF AgentsAreSpawned, Insert
<1>8. IdentitiesAreRecorded
  BY <1>1, <1>2 DEF IdentitiesAreRecorded
<1>9. SupervisorsAge
  BY <1>2, <1>4, ThreadNames DEF SupervisorsAge
<1> QED BY <1>6, <1>7, <1>8, <1>9 DEF ReapStep

LEMMA ReapStart ==
    ASSUME IInv, ReapInv, NEW r \in Runs,
           \/ Admitted(r) \/ NotAdmitted(r) \/ ensure_still_in_flight(r) \/ Spawn(r)
    PROVE  ReapStep
<1>1. RowsKept /\ AgentsAreSpawned
  <2>1. RowsKept
    BY DEF RowsKept, Admitted, NotAdmitted, ensure_still_in_flight, Spawn
  <2>2. AgentsAreSpawned
    BY DEF AgentsAreSpawned, Admitted, NotAdmitted, ensure_still_in_flight, Spawn, IInv, TypeOK
  <2> QED BY <2>1, <2>2
<1>2. sup(r) \in Thread
  BY ThreadNames
<1>3. CASE Admitted(r)
  <2>1. Goto(sup(r), "check") /\ th[sup(r)].pc \in Young
    BY <1>3 DEF Admitted, Young
  <2> QED BY <1>1, <1>2, <2>1, GotoTame, Turn
<1>4. CASE NotAdmitted(r)
  <2>1. CASE run[r].driven
    BY <1>1, <1>2, <1>4, <2>1, EndDriveReaps DEF NotAdmitted
  <2>2. CASE ~run[r].driven
    <3>1. th' = [th EXCEPT ![sup(r)] = Complete(sup(r), r, "failed", TRUE, "none", "idle")]
      BY <1>4, <2>2 DEF NotAdmitted
    <3>2. Tame(sup(r), Complete(sup(r), r, "failed", TRUE, "none", "idle"))
      BY <1>2, CompleteTame DEF Knows
    <3> QED BY <1>1, <1>2, <3>1, <3>2, Turn
  <2> QED BY <2>1, <2>2
<1>5. CASE ensure_still_in_flight(r)
  <2>1. CASE Goto(sup(r), "spawn")
    <3>1. th[sup(r)].pc \in Young
      BY <1>5 DEF ensure_still_in_flight, Young
    <3> QED BY <1>1, <1>2, <2>1, <3>1, GotoTame, Turn
  <2>2. CASE th' = [th EXCEPT ![sup(r)] = Idle]
    <3>1. Tame(sup(r), Idle)
      BY DEF Tame, Idle, Young
    <3> QED BY <1>1, <1>2, <2>2, <3>1, Turn
  <2>3. CASE EndDrive(sup(r), "blocked")
    BY <1>1, <1>2, <2>3, EndDriveReaps
  <2> QED BY <1>5, <2>1, <2>2, <2>3 DEF ensure_still_in_flight
<1>6. CASE Spawn(r)
  <2>1. CASE Goto(sup(r), "record")
    <3>1. th[sup(r)].pc \in Young
      BY <1>6 DEF Spawn, Young
    <3> QED BY <1>1, <1>2, <2>1, <3>1, GotoTame, Turn
  <2>2. CASE th' = [th EXCEPT ![sup(r)] =
                      Complete(sup(r), r, "failed", TRUE, "none", AfterRun(r))]
    <3>1. Tame(sup(r), Complete(sup(r), r, "failed", TRUE, "none", AfterRun(r)))
      BY <1>2, CompleteTame DEF Knows
    <3> QED BY <1>1, <1>2, <2>2, <3>1, Turn
  <2> QED BY <1>6, <2>1, <2>2 DEF Spawn
<1> QED BY <1>3, <1>4, <1>5, <1>6

(* The identity is recorded once its supervisor is young no longer.         *)
LEMMA ReapRecord ==
    ASSUME IInv, ReapInv, NEW r \in Runs, record_process_identity(r)
    PROVE  ReapStep
<1>1. sup(r) \in Thread /\ th[sup(r)].pc = "record" /\ th \in [Thread -> Local]
  BY ThreadNames DEF IInv, TypeOK, record_process_identity
<1>2. PICK mute \in Unanswered :
        run' = [run EXCEPT ![r].pid = ~mute /\ agent[r] = "working"]
  BY DEF record_process_identity
<1>3. /\ run'[r].status = run[r].status
      /\ \A q \in Runs : q # r => run'[q] = run[q]
  BY <1>2 DEF IInv, TypeOK, Row
<1>4. run[r].status # "none"
  BY <1>1 DEF ReapInv, Nameless, Young
<1>5. th' = [th EXCEPT ![sup(r)].pc = "watch"]
  BY DEF record_process_identity, Goto
<1>6. /\ th'[sup(r)].pc = "watch"
      /\ \A t \in Thread : t # sup(r) => th'[t] = th[t]
  BY <1>1, <1>5 DEF Local
<1>7. ClaimsAreKnowing
  BY <1>6 DEF ClaimsAreKnowing
<1>8. AgentsAreSpawned
  BY DEF AgentsAreSpawned, record_process_identity
<1>9. IdentitiesAreRecorded
  BY <1>1, <1>3, <1>4 DEF IdentitiesAreRecorded
<1>10. SupervisorsAge
  BY <1>3, <1>6, ThreadNames DEF SupervisorsAge, Young
<1> QED BY <1>7, <1>8, <1>9, <1>10 DEF ReapStep

LEMMA ReapSupervisor ==
    ASSUME IInv, ReapInv, NEW r \in Runs, run_print_mode(r)
    PROVE  ReapStep
<1>1. sup(r) \in Thread
  BY ThreadNames
<1>2. RowsKept /\ AgentsAreSpawned
  BY DEF RowsKept, AgentsAreSpawned, run_print_mode, IInv, TypeOK
<1>3. PICK v : th' = [th EXCEPT ![sup(r)] =
                        Complete(sup(r), r, v, TRUE, "none", AfterRun(r))]
  BY DEF run_print_mode
<1>4. Tame(sup(r), Complete(sup(r), r, v, TRUE, "none", AfterRun(r)))
  BY <1>1, CompleteTame DEF Knows
<1> QED BY <1>1, <1>2, <1>3, <1>4, Turn

(* A stage re-armed is marked for its next run: two supervisors move, and   *)
(* neither is young.                                                        *)
LEMMA ReapAfter ==
    ASSUME IInv, ReapInv, NEW r \in Runs, AfterStage(r)
    PROVE  ReapStep
<1>1. sup(r) \in Thread /\ th \in [Thread -> Local]
  BY ThreadNames DEF IInv, TypeOK
<1>2. RowsKept /\ AgentsAreSpawned
  BY DEF RowsKept, AgentsAreSpawned, AfterStage
<1>3. CASE EndDrive(sup(r), stage) \/ EndDrive(sup(r), "blocked")
  BY <1>1, <1>2, <1>3, EndDriveReaps
<1>4. CASE \E q \in Runs : th' = [th EXCEPT ![sup(r)] = Idle,
                                      ![sup(q)] = [Idle EXCEPT !.pc = "mark", !.adv = TRUE]]
  <2> DEFINE m == [Idle EXCEPT !.pc = "mark", !.adv = TRUE]
  <2>1. m.pc = "mark" /\ Idle.pc = "idle"
    BY DEF Idle
  <2>2. PICK q \in Runs : th' = [th EXCEPT ![sup(r)] = Idle, ![sup(q)] = m]
    BY <1>4
  <2> HIDE DEF m
  <2>3. \A t \in Thread : th'[t] = th[t] \/ th'[t].pc \in {"idle", "mark"}
    BY <1>1, <2>1, <2>2, ThreadNames
  <2>4. ClaimsAreKnowing
    BY <2>3 DEF ClaimsAreKnowing
  <2>5. IdentitiesAreRecorded
    BY <1>2 DEF IdentitiesAreRecorded, RowsKept
  <2>6. SupervisorsAge
    BY <1>2, <2>3, ThreadNames DEF SupervisorsAge, RowsKept, Young
  <2> QED BY <1>2, <2>4, <2>5, <2>6 DEF ReapStep
<1> QED BY <1>3, <1>4 DEF AfterStage

-----------------------------------------------------------------------------
(* The agent, its lease, people, and the drain.                             *)
LEMMA ReapOutside ==
    ASSUME IInv, ReapInv, NEW r \in Runs,
           AgentExits(r) \/ renew_agent_run_lease(r) \/ LeaseLapses(r) \/ RenewalMissed(r)
    PROVE  ReapStep
<1>1. UNCHANGED th
  BY DEF AgentExits, renew_agent_run_lease, LeaseLapses, RenewalMissed
<1>2. RowsKept
  <2>1. CASE UNCHANGED run
    BY <2>1 DEF RowsKept
  <2>2. CASE \E b : run' = [run EXCEPT ![r].fresh = b]
    BY <2>2, FieldKept
  <2> QED
    BY <2>1, <2>2 DEF AgentExits, renew_agent_run_lease, LeaseLapses, RenewalMissed
<1>3. AgentsAreSpawned
  BY DEF AgentsAreSpawned, AgentExits, renew_agent_run_lease, LeaseLapses, RenewalMissed, IInv,
         TypeOK
<1> QED BY <1>1, <1>2, <1>3, NoTurn

LEMMA ReapWeb ==
    ASSUME IInv, ReapInv,
           (\E r \in Runs : request_cancel(r)) \/ stop_detached_process \/ EndFromOutside
    PROVE  ReapStep
<1>1. web \in Thread
  BY ThreadNames
<1>2. ASSUME NEW r \in Runs, request_cancel(r)
      PROVE  ReapStep
  <2> DEFINE x == [Idle EXCEPT !.pc = "signal", !.run = r]
  <2>1. x.pc = "signal"
    BY DEF Idle
  <2>2. th' = [th EXCEPT ![web] = x]
    BY <1>2 DEF request_cancel
  <2> HIDE DEF x
  <2>3. Tame(web, x)
    BY <2>1 DEF Tame, Young
  <2>4. RowsKept
    BY <1>2, FieldKept DEF request_cancel
  <2>5. AgentsAreSpawned
    BY <1>2 DEF AgentsAreSpawned, request_cancel
  <2> QED BY <1>1, <2>2, <2>3, <2>4, <2>5, Turn
<1>3. CASE stop_detached_process
  <2>1. th' = [th EXCEPT ![web] = Idle]
    BY <1>3 DEF stop_detached_process
  <2>2. Tame(web, Idle)
    BY DEF Tame, Idle, Young
  <2>3. RowsKept
    BY <1>3 DEF RowsKept, stop_detached_process
  <2>4. AgentsAreSpawned
    BY <1>3 DEF AgentsAreSpawned, stop_detached_process, IInv, TypeOK
  <2> QED BY <1>1, <2>1, <2>2, <2>3, <2>4, Turn
<1>4. CASE EndFromOutside
  <2>1. RowsKept /\ AgentsAreSpawned
    BY <1>4 DEF RowsKept, AgentsAreSpawned, EndFromOutside
  <2> QED BY <1>1, <1>4, <2>1, EndDriveReaps DEF EndFromOutside
<1> QED BY <1>2, <1>3, <1>4

LEMMA ReapServer ==
    ASSUME IInv, ReapInv, Drain \/ end_drain \/ Crash \/ Boot
    PROVE  ReapStep
<1>1. RowsKept
  BY DEF RowsKept, Drain, end_drain, Crash, Boot
<1>2. AgentsAreSpawned
  BY DEF AgentsAreSpawned, Drain, end_drain, Crash, Boot
<1>3. CASE Drain \/ end_drain
  BY <1>1, <1>2, <1>3, NoTurn DEF Drain, end_drain
<1>4. CASE Crash
  <2>1. \A t \in Thread : th'[t].pc = "idle"
    BY <1>4 DEF Crash, Idle
  <2>2. ClaimsAreKnowing
    BY <2>1 DEF ClaimsAreKnowing
  <2>3. IdentitiesAreRecorded
    BY <1>1 DEF IdentitiesAreRecorded, RowsKept
  <2>4. SupervisorsAge
    BY <2>1, ThreadNames DEF SupervisorsAge, Young
  <2> QED BY <1>2, <2>2, <2>3, <2>4 DEF ReapStep
<1>5. CASE Boot
  <2> DEFINE x == [Idle EXCEPT !.pc = "reattach"]
  <2>1. x.pc = "reattach"
    BY DEF Idle
  <2>2. th' = [th EXCEPT ![boot] = x]
    BY <1>5 DEF Boot
  <2> HIDE DEF x
  <2>3. Tame(boot, x)
    BY <2>1 DEF Tame, Young
  <2> QED BY <1>1, <1>2, <2>2, <2>3, ThreadNames, Turn
<1> QED BY <1>3, <1>4, <1>5

-----------------------------------------------------------------------------
(* The resupervisors, and the loops of the reapers.                         *)
LEMMA ReapResupervisor ==
    ASSUME IInv, ReapInv, NEW r \in Runs, Resupervise(r)
    PROVE  ReapStep
<1>1. res(r) \in Thread /\ run \in [Runs -> Row]
  BY ThreadNames DEF IInv, TypeOK
<1>2. AgentsAreSpawned
  BY DEF AgentsAreSpawned, Resupervise, _supervise_until_gone, _claim_settlement
<1>3. RowsKept
  <2>1. CASE UNCHANGED run
    BY <2>1 DEF RowsKept
  <2>2. CASE run' = [run EXCEPT ![r].finished = TRUE]
    BY <2>2, FieldKept
  <2> QED
    BY <2>1, <2>2 DEF Resupervise, _supervise_until_gone, _claim_settlement
<1>4. CASE _supervise_until_gone(r)
  <2>1. Goto(res(r), "seize") /\ "seize" \notin {"claim"} \cup Young
    BY <1>4 DEF _supervise_until_gone, Young
  <2> QED BY <1>1, <1>2, <1>3, <2>1, GotoTame, Turn
<1>5. CASE _claim_settlement(r)
  <2>1. CASE th' = [th EXCEPT ![res(r)] = Idle]
    <3>1. Tame(res(r), Idle)
      BY DEF Tame, Idle, Young
    <3> QED BY <1>1, <1>2, <1>3, <2>1, <3>1, Turn
  <2>2. CASE \E v : th' = [th EXCEPT ![res(r)] = Complete(res(r), r, v, TRUE, "none", "idle")]
    <3>1. PICK v : th' = [th EXCEPT ![res(r)] = Complete(res(r), r, v, TRUE, "none", "idle")]
      BY <2>2
    <3>2. Tame(res(r), Complete(res(r), r, v, TRUE, "none", "idle"))
      BY <1>1, CompleteTame DEF Knows
    <3> QED BY <1>1, <1>2, <1>3, <3>1, <3>2, Turn
  <2> QED BY <1>5, <2>1, <2>2 DEF _claim_settlement
<1> QED BY <1>4, <1>5 DEF Resupervise

(* A reaper that knows has read an identity, and asked: gone is not working,*)
(* and nor is what the sweep of leases knows about.                         *)
LEMMA GoneIsDead ==
    ASSUME IInv, NEW r \in Runs, NEW mute \in BOOLEAN, NEW b, Knows(Seen(r, mute), b)
    PROVE  /\ run[r].pid
           /\ liveness(r, mute) = "gone" => agent[r] # "working"
           /\ Expired(r, mute) /\ b = "expired" => agent[r] # "working"
BY DEF liveness, Expired, Seen, Knows

LEMMA ReapChildren ==
    ASSUME IInv, ReapInv, NEW t \in Thread, _fail_in_flight_children(t)
    PROVE  ReapStep
<1>1. RowsKept /\ AgentsAreSpawned
  BY DEF RowsKept, AgentsAreSpawned, _fail_in_flight_children
<1>2. th[t] \in Local /\ th[t].pc = "children"
  BY DEF IInv, TypeOK, _fail_in_flight_children
<1>3. CASE th[t].todo = {}
  <2> DEFINE x == [Idle EXCEPT !.pc = AfterChildren(t)]
  <2>1. x.pc \in {"stranded", "idle"}
    BY DEF Idle, AfterChildren
  <2>2. th' = [th EXCEPT ![t] = x]
    BY <1>3 DEF _fail_in_flight_children
  <2> HIDE DEF x
  <2>3. Tame(t, x)
    BY <2>1 DEF Tame, Young
  <2> QED BY <1>1, <2>2, <2>3, Turn
<1>4. CASE th[t].todo # {}
  <2>1. PICK r \in th[t].todo, mute \in Unanswered :
          th' = [th EXCEPT ![t] =
                   IF liveness(r, mute) = "gone"
                   THEN Fail(t, r, FALSE, Seen(r, mute), "children") ELSE Skip(t, r)]
    BY <1>4 DEF _fail_in_flight_children
  <2>2. r \in Runs /\ mute \in BOOLEAN
    BY <1>2 DEF Local, Unanswered
  <2>3. CASE liveness(r, mute) = "gone"
    <3>1. th' = [th EXCEPT ![t] = Fail(t, r, FALSE, Seen(r, mute), "children")]
      BY <2>1, <2>3
    <3>2. Knows(Seen(r, mute), "children") => run[r].pid /\ agent[r] # "working"
      BY <2>2, <2>3, GoneIsDead
    <3>3. Tame(t, Fail(t, r, FALSE, Seen(r, mute), "children"))
      BY <2>2, <3>2, FailTame
    <3> QED BY <1>1, <3>1, <3>3, Turn
  <2>4. CASE liveness(r, mute) # "gone"
    <3>1. th' = [th EXCEPT ![t] = Skip(t, r)]
      BY <2>1, <2>4
    <3>2. Tame(t, Skip(t, r))
      BY <1>2, SkipTame
    <3> QED BY <1>1, <3>1, <3>2, Turn
  <2> QED BY <2>3, <2>4
<1> QED BY <1>3, <1>4

(* The sweep's loops, and what lies between them.                           *)
LEMMA ReapSweep ==
    ASSUME IInv, ReapInv, reconcile_once \/ Sweep
    PROVE  ReapStep
<1> USE DEF Sweep
<1>1. RowsKept /\ AgentsAreSpawned
  BY DEF RowsKept, AgentsAreSpawned, reconcile_once, settle_expired_agent_runs,
         settle_orphaned_agent_runs, settle_expired_orchestration_leases, NoLeaseExpired
<1>2. sweep \in Thread /\ th[sweep] \in Local
  BY ThreadNames DEF IInv, TypeOK
<1>3. CASE reconcile_once
  <2>1. th' = [th EXCEPT ![sweep] = [Idle EXCEPT !.pc = "expired", !.todo = InFlight]]
    BY <1>3 DEF reconcile_once
  <2>2. Tame(sweep, [Idle EXCEPT !.pc = "expired", !.todo = InFlight])
    BY <1>2, IdleTame DEF Pc, Young
  <2> QED BY <1>1, <1>2, <2>1, <2>2, Turn
<1>4. CASE settle_expired_agent_runs
  <2>1. CASE th[sweep].todo = {}
    <3>1. th' = [th EXCEPT ![sweep] = [Idle EXCEPT !.pc = "orphaned", !.todo = Driven]]
      BY <1>4, <2>1 DEF settle_expired_agent_runs
    <3>2. Tame(sweep, [Idle EXCEPT !.pc = "orphaned", !.todo = Driven])
      BY <1>2, IdleTame DEF Pc, Young
    <3> QED BY <1>1, <1>2, <3>1, <3>2, Turn
  <2>2. CASE th[sweep].todo # {}
    <3>1. PICK r \in th[sweep].todo, mute \in Unanswered :
            th' = [th EXCEPT ![sweep] =
                     IF Expired(r, mute)
                     THEN Fail(sweep, r, TRUE, Seen(r, mute), "expired")
                     ELSE Skip(sweep, r)]
      BY <1>4, <2>2 DEF settle_expired_agent_runs
    <3>2. r \in Runs /\ mute \in BOOLEAN
      BY <1>2 DEF Local, Unanswered
    <3>3. CASE Expired(r, mute)
      <4>1. th' = [th EXCEPT ![sweep] =
                     Fail(sweep, r, TRUE, Seen(r, mute), "expired")]
        BY <3>1, <3>3
      <4>2. Knows(Seen(r, mute), "expired") => run[r].pid /\ agent[r] # "working"
        BY <3>2, <3>3, GoneIsDead
      <4>3. Tame(sweep, Fail(sweep, r, TRUE, Seen(r, mute), "expired"))
        BY <1>2, <3>2, <4>2, FailTame
      <4> QED BY <1>1, <1>2, <4>1, <4>3, Turn
    <3>4. CASE ~Expired(r, mute)
      <4>1. th' = [th EXCEPT ![sweep] = Skip(sweep, r)]
        BY <3>1, <3>4
      <4>2. Tame(sweep, Skip(sweep, r))
        BY <1>2, <1>4, SkipTame DEF settle_expired_agent_runs
      <4> QED BY <1>1, <1>2, <4>1, <4>2, Turn
    <3> QED BY <3>3, <3>4
  <2> QED BY <2>1, <2>2
<1>5. CASE settle_orphaned_agent_runs
  <2>1. CASE th[sweep].todo = {}
    <3>1. th' = [th EXCEPT ![sweep] = [Idle EXCEPT !.pc = "leases"]]
      BY <1>5, <2>1 DEF settle_orphaned_agent_runs
    <3>2. Tame(sweep, [Idle EXCEPT !.pc = "leases"])
      BY <1>2, IdleTame DEF Pc, Young
    <3> QED BY <1>1, <1>2, <3>1, <3>2, Turn
  <2>2. CASE th[sweep].todo # {}
    <3>1. PICK r \in th[sweep].todo, mute \in Unanswered :
            th' = [th EXCEPT ![sweep] =
                     IF orch = "over" /\ liveness(r, mute) = "gone"
                     THEN Fail(sweep, r, FALSE, Seen(r, mute), "orphaned") ELSE Skip(sweep, r)]
      BY <1>5, <2>2 DEF settle_orphaned_agent_runs
    <3>2. r \in Runs /\ mute \in BOOLEAN
      BY <1>2 DEF Local, Unanswered
    <3>3. CASE orch = "over" /\ liveness(r, mute) = "gone"
      <4>1. th' = [th EXCEPT ![sweep] = Fail(sweep, r, FALSE, Seen(r, mute), "orphaned")]
        BY <3>1, <3>3
      <4>2. Knows(Seen(r, mute), "orphaned") => run[r].pid /\ agent[r] # "working"
        BY <3>2, <3>3, GoneIsDead
      <4>3. Tame(sweep, Fail(sweep, r, FALSE, Seen(r, mute), "orphaned"))
        BY <1>2, <3>2, <4>2, FailTame
      <4> QED BY <1>1, <1>2, <4>1, <4>3, Turn
    <3>4. CASE ~(orch = "over" /\ liveness(r, mute) = "gone")
      <4>1. th' = [th EXCEPT ![sweep] = Skip(sweep, r)]
        BY <3>1, <3>4
      <4>2. Tame(sweep, Skip(sweep, r))
        BY <1>2, <1>5, SkipTame DEF settle_orphaned_agent_runs
      <4> QED BY <1>1, <1>2, <4>1, <4>2, Turn
    <3> QED BY <3>3, <3>4
  <2> QED BY <2>1, <2>2
<1>6. CASE settle_expired_orchestration_leases
  BY <1>1, <1>2, <1>6, EndDriveReaps DEF settle_expired_orchestration_leases
<1>7. CASE NoLeaseExpired
  <2>1. th' = [th EXCEPT ![sweep] = [Idle EXCEPT !.pc = "stranded"]]
    BY <1>7 DEF NoLeaseExpired
  <2>2. Tame(sweep, [Idle EXCEPT !.pc = "stranded"])
    BY <1>2, IdleTame DEF Pc, Young
  <2> QED BY <1>1, <1>2, <2>1, <2>2, Turn
<1> QED BY <1>3, <1>4, <1>5, <1>6, <1>7

LEMMA ReapStranded ==
    ASSUME IInv, ReapInv, NEW t \in Thread, Strand(t)
    PROVE  ReapStep
<1>1. RowsKept /\ AgentsAreSpawned
  BY DEF RowsKept, AgentsAreSpawned, Strand, settle_stranded_stages, BlockStranded
<1>2. CASE settle_stranded_stages(t)
  <2>1. PICK p \in {"block", "idle"} : Goto(t, p)
    BY <1>2 DEF settle_stranded_stages
  <2>2. p \notin {"claim"} \cup Young
    BY DEF Young
  <2> QED BY <1>1, <2>1, <2>2, GotoTame, Turn
<1>3. CASE BlockStranded(t)
  <2>1. th' = [th EXCEPT ![t] = Idle]
    BY <1>3 DEF BlockStranded
  <2>2. Tame(t, Idle)
    BY DEF Tame, Idle, Young
  <2> QED BY <1>1, <2>1, <2>2, Turn
<1> QED BY <1>2, <1>3 DEF Strand

(* The boot: every run it adopts gets a thread that follows its process,    *)
(* and every other run it fails was found dead, or without an identity.     *)
LEMMA ReapReattach ==
    ASSUME IInv, ReapInv, reattach_surviving_runs
    PROVE  ReapStep
<1>1. run \in [Runs -> Row] /\ th \in [Thread -> Local]
  BY DEF IInv, TypeOK
<1>2. RowsKept
  <2>1. PICK A : run' = [r \in Runs |-> [run[r] EXCEPT !.fresh = @ \/ r \in A]]
    BY DEF reattach_surviving_runs
  <2>2. \A r \in Runs : run'[r].pid = run[r].pid /\ run'[r].status = run[r].status
    BY <1>1, <2>1 DEF Row
  <2> QED BY <2>2 DEF RowsKept
<1>3. AgentsAreSpawned
  BY DEF AgentsAreSpawned, reattach_surviving_runs
<1>4. \A t \in Thread : th'[t] = th[t] \/ th'[t].pc \in {"interrupted", "follow"}
  <2> DEFINE i == [Idle EXCEPT !.pc = "interrupted"]
             f(t) == [Idle EXCEPT !.pc = "follow", !.run = t[2]]
  <2>1. PICK A : th' = [t \in Thread |-> IF t = boot THEN i
                                         ELSE IF t[1] = "res" /\ t[2] \in A THEN f(t)
                                         ELSE th[t]]
    BY DEF reattach_surviving_runs
  <2>2. i.pc = "interrupted" /\ \A t \in Thread : f(t).pc = "follow"
    BY DEF Idle
  <2> HIDE DEF i, f
  <2> QED BY <2>1, <2>2
<1>5. ClaimsAreKnowing
  BY <1>4 DEF ClaimsAreKnowing
<1>6. IdentitiesAreRecorded
  BY <1>2 DEF IdentitiesAreRecorded, RowsKept
<1>7. SupervisorsAge
  BY <1>2, <1>4, ThreadNames DEF SupervisorsAge, RowsKept, Young
<1> QED BY <1>3, <1>5, <1>6, <1>7 DEF ReapStep

LEMMA ReapRestart ==
    ASSUME IInv, ReapInv, BootInv,
           fail_interrupted_runs \/ fail_interrupted_orchestration_runs
    PROVE  ReapStep
<1>1. RowsKept /\ AgentsAreSpawned
  BY DEF RowsKept, AgentsAreSpawned, fail_interrupted_runs, fail_interrupted_orchestration_runs
<1>2. boot \in Thread /\ th[boot] \in Local /\ \A r \in Runs : boot # sup(r)
  BY ThreadNames DEF IInv, TypeOK
<1>3. CASE fail_interrupted_runs
  <2>1. CASE \E M \in Mutes :
               th' = [th EXCEPT ![boot].todo = InFlight \ runs_to_spare(M),
                                ![boot].back = "interrupted"]
    <3>1. PICK S : th' = [th EXCEPT ![boot].todo = S, ![boot].back = "interrupted"]
      BY <2>1
    <3> DEFINE x == [th[boot] EXCEPT !.todo = S, !.back = "interrupted"]
    <3>2. th' = [th EXCEPT ![boot] = x]
      BY <1>2, <3>1 DEF IInv, TypeOK, Local
    <3>3. x.pc = "interrupted"
      BY <1>2, <1>3 DEF Local, fail_interrupted_runs
    <3> HIDE DEF x
    <3>4. Tame(boot, x)
      BY <3>3 DEF Tame, Young
    <3> QED BY <1>1, <1>2, <3>2, <3>4, Turn
  <2>2. CASE /\ th[boot].back = "interrupted"
             /\ \E r \in th[boot].todo :
                  th' = [th EXCEPT ![boot] = Fail(boot, r, TRUE, Seen(r, FALSE), "interrupted")]
    <3>1. PICK r \in th[boot].todo :
            th' = [th EXCEPT ![boot] = Fail(boot, r, TRUE, Seen(r, FALSE), "interrupted")]
      BY <2>2
    <3>2. r \in Runs
      BY <1>2 DEF Local
    <3>3. Knows(Seen(r, FALSE), "interrupted") => run[r].pid /\ agent[r] # "working"
      BY <1>3, <2>2 DEF BootInv, Found, fail_interrupted_runs, Knows, Seen
    <3>4. Tame(boot, Fail(boot, r, TRUE, Seen(r, FALSE), "interrupted"))
      BY <1>2, <3>2, <3>3, FailTame
    <3> QED BY <1>1, <1>2, <3>1, <3>4, Turn
  <2>3. CASE th' = [th EXCEPT ![boot] = [Idle EXCEPT !.pc = "parents"]]
    <3>1. Tame(boot, [Idle EXCEPT !.pc = "parents"])
      BY <1>2, IdleTame DEF Pc, Young
    <3> QED BY <1>1, <1>2, <2>3, <3>1, Turn
  <2> QED BY <1>3, <2>1, <2>2, <2>3 DEF fail_interrupted_runs
<1>4. CASE fail_interrupted_orchestration_runs
  <2>1. CASE EndDrive(boot, stage)
    BY <1>1, <1>2, <2>1, EndDriveReaps
  <2>2. CASE th' = [th EXCEPT ![boot] = [Idle EXCEPT !.pc = "stranded"]]
    <3>1. Tame(boot, [Idle EXCEPT !.pc = "stranded"])
      BY <1>2, IdleTame DEF Pc, Young
    <3> QED BY <1>1, <1>2, <2>2, <3>1, Turn
  <2> QED BY <1>4, <2>1, <2>2 DEF fail_interrupted_orchestration_runs
<1> QED BY <1>3, <1>4

(* A settlement writes a verdict over one that is running.                  *)
LEMMA ReapSettle ==
    ASSUME IInv, ReapInv, NEW t \in Thread, Settle(t)
    PROVE  ReapStep
<1>1. th[t] \in Local /\ run \in [Runs -> Row] /\ th[t].pc \in Settling
  BY DEF IInv, TypeOK, Settle, claim_completion, _stop_if_already_settled,
         advance_stage_after_run, complete_run_tail, settle_stage_after_failed_completion,
         Settling
<1>2. AgentsAreSpawned
  BY DEF AgentsAreSpawned, Settle, claim_completion, _stop_if_already_settled,
         advance_stage_after_run, complete_run_tail, settle_stage_after_failed_completion
<1>3. RowsKept
  <2>1. CASE claim_completion(t)
    <3>1. CASE UNCHANGED run
      BY <3>1 DEF RowsKept
    <3>2. CASE ~UNCHANGED run
      <4>1. th[t].run \in Runs /\ th[t].verdict \in Verdicts
        BY <1>1 DEF IInv, Busy
      <4>2. run' = [run EXCEPT ![th[t].run].status = th[t].verdict,
                               ![th[t].run].finished = TRUE]
        BY <2>1, <3>2 DEF claim_completion
      <4>3. \A r \in Runs : /\ run'[r].pid = run[r].pid
                            /\ run'[r].status \in {run[r].status} \cup Verdicts
        BY <1>1, <4>1, <4>2 DEF Row
      <4> QED BY <4>3 DEF RowsKept, Verdicts
    <3> QED BY <3>1, <3>2
  <2>2. CASE UNCHANGED run
    BY <2>2 DEF RowsKept
  <2> QED
    BY <2>1, <2>2 DEF Settle, _stop_if_already_settled, advance_stage_after_run,
                      complete_run_tail, settle_stage_after_failed_completion
<1>4. CASE \E p \in {"tail", "announce", "route"} : Goto(t, p)
  <2>1. PICK p \in {"tail", "announce", "route"} : Goto(t, p)
    BY <1>4
  <2>2. p \notin {"claim"} \cup Young
    BY DEF Young
  <2> QED BY <1>2, <1>3, <2>1, <2>2, GotoTame, Turn
<1>5. CASE th' = [th EXCEPT ![t] = Return(t)]
  BY <1>2, <1>3, <1>5, ReturnTame, Turn
<1> QED
  BY <1>4, <1>5 DEF Settle, claim_completion, _stop_if_already_settled,
     advance_stage_after_run, complete_run_tail, settle_stage_after_failed_completion

LEMMA ReapNext == ASSUME IInv, ReapInv, BootInv, Next PROVE ReapStep
<1>1. ASSUME NEW r \in Runs, start_run_async(r) \/ start_orchestration_run(r)
      PROVE  ReapStep
  BY <1>1, ReapDispatch
<1>2. ASSUME NEW r \in Runs, Supervise(r) \/ NotAdmitted(r)
      PROVE  ReapStep
  BY <1>2, ReapDispatch, ReapInsert, ReapStart, ReapRecord, ReapSupervisor, ReapAfter
     DEF Supervise
<1>3. ASSUME NEW r \in Runs, Resupervise(r)
      PROVE  ReapStep
  BY <1>3, ReapResupervisor
<1>4. ASSUME NEW r \in Runs,
             AgentExits(r) \/ renew_agent_run_lease(r) \/ LeaseLapses(r) \/ RenewalMissed(r)
      PROVE  ReapStep
  BY <1>4, ReapOutside
<1>5. CASE (\E r \in Runs : request_cancel(r)) \/ stop_detached_process \/ EndFromOutside
  BY <1>5, ReapWeb
<1>6. ASSUME NEW t \in Thread, Settle(t) \/ _fail_in_flight_children(t)
      PROVE  ReapStep
  BY <1>6, ReapSettle, ReapChildren
<1>7. ASSUME NEW t \in {sweep, boot}, Strand(t)
      PROVE  ReapStep
  BY <1>7, ReapStranded, ThreadNames
<1>8. CASE reconcile_once \/ Sweep
  BY <1>8, ReapSweep
<1>9. CASE Restart
  BY <1>9, ReapReattach, ReapRestart DEF Restart
<1>10. CASE Drain \/ end_drain \/ Crash \/ Boot
  BY <1>10, ReapServer
<1> QED
  BY <1>1, <1>2, <1>3, <1>4, <1>5, <1>6, <1>7, <1>8, <1>9, <1>10 DEF Next

-----------------------------------------------------------------------------
(* What the boot may rely on.                                               *)
BootStep ==
    /\ th'[boot].pc # "idle" => server' = "booting"
    /\ server' \in {"down", "booting"} => \A r \in Runs : th'[sup(r)].pc = "idle"
    /\ th'[boot].pc # "idle" /\ th'[boot].back = "interrupted" =>
         /\ th[boot].pc # "idle"
         /\ \A r \in th'[boot].todo :
              \/ th[boot].back = "interrupted" /\ r \in th[boot].todo
              \/ r \in Runs /\ (run[r].pid => agent[r] # "working")

LEMMA BootKept == ASSUME IInv, BootInv, ReapStep, BootStep PROVE BootInv'
<1>1. Hushed'
  BY DEF Hushed, BootStep, boot, sup
<1>2. Found'
  <2> SUFFICES ASSUME th'[boot].pc # "idle", th'[boot].back = "interrupted",
                      NEW r \in th'[boot].todo, run'[r].pid
               PROVE  agent'[r] # "working"
    BY DEF Found, boot
  <2>1. boot \in Thread /\ th[boot] \in Local
    BY ThreadNames DEF IInv, TypeOK
  <2>2. r \in Runs /\ (run[r].pid => agent[r] # "working")
    BY <2>1 DEF BootStep, BootInv, Found, Local
  <2>3. th[sup(r)].pc = "idle"
    BY <2>2 DEF BootStep, BootInv, Hushed
  <2> QED
    BY <2>2, <2>3 DEF ReapStep, AgentsAreSpawned, IdentitiesAreRecorded
<1> QED BY <1>1, <1>2 DEF BootInv

(* A step of another thread: the supervisors only run under a server that   *)
(* serves.                                                                  *)
Only(t) == \A u \in Thread : u # t => th'[u] = th[u]

LEMMA OnlyOne == ASSUME IInv, NEW t \in Thread, NEW x, th' = [th EXCEPT ![t] = x] PROVE Only(t)
BY DEF Only, IInv, TypeOK

LEMMA BootOther ==
    ASSUME IInv, BootInv, NEW t \in Thread, t # boot, Only(t), UNCHANGED server,
           th[t].pc # "idle" \/ Serving \/ \A r \in Runs : t # sup(r)
    PROVE  BootStep
<1>1. th'[boot] = th[boot] /\ boot \in Thread /\ th[boot] \in Local
  BY ThreadNames DEF Only, IInv, TypeOK
<1>2. ASSUME server \in {"down", "booting"}, NEW r \in Runs
      PROVE  th'[sup(r)].pc = "idle"
  BY <1>2, ThreadNames DEF Only, BootInv, Hushed, Serving
<1> QED BY <1>1, <1>2 DEF BootStep, BootInv, Hushed, Local

LEMMA BootNone == ASSUME IInv, BootInv, UNCHANGED <<th, server>> PROVE BootStep
BY ThreadNames DEF BootStep, BootInv, Hushed, IInv, TypeOK, Local

(* A step of the boot itself.                                               *)
LEMMA BootSelf ==
    ASSUME IInv, BootInv, th[boot].pc # "idle", Only(boot),
           UNCHANGED server \/ (server' = "up" /\ th'[boot].pc = "idle"),
           th'[boot].back = "interrupted" =>
              th[boot].back = "interrupted" /\ th'[boot].todo \subseteq th[boot].todo
    PROVE  BootStep
<1>1. server' \in {"down", "booting"} => \A r \in Runs : th'[sup(r)].pc = "idle"
  BY ThreadNames DEF Only, BootInv, Hushed
<1>2. th'[boot].pc # "idle" => server' = "booting"
  BY DEF BootInv, Hushed
<1> QED BY <1>1, <1>2 DEF BootStep

LEMMA BootSupervisors ==
    ASSUME IInv, BootInv, NEW r \in Runs,
           \/ start_run_async(r) \/ start_orchestration_run(r) \/ NotAdmitted(r)
           \/ Supervise(r)
    PROVE  BootStep
<1>1. sup(r) \in Thread /\ sup(r) # boot
  BY ThreadNames
<1>2. CASE AfterStage(r)
  <2>1. server \notin {"down", "booting"}
    BY <1>2 DEF AfterStage, BootInv, Hushed
  <2>2. th'[boot] = th[boot]
    BY <1>2, ThreadNames DEF AfterStage, EndDrive, IInv, TypeOK
  <2>3. UNCHANGED server
    BY <1>2 DEF AfterStage
  <2> QED
    BY <2>1, <2>2, <2>3, ThreadNames DEF BootStep, BootInv, Hushed, IInv, TypeOK, Local
<1>3. CASE start_run_async(r) \/ start_orchestration_run(r)
  <2>1. Only(sup(r)) /\ UNCHANGED server /\ Serving
    BY <1>1, <1>3 DEF Only, start_run_async, start_orchestration_run, Serving, IInv, TypeOK
  <2> QED BY <1>1, <2>1, BootOther
<1>4. CASE NotAdmitted(r) \/ Supersede(r) \/ Mark(r) \/ Insert(r) \/ Admitted(r)
           \/ ensure_still_in_flight(r)
  <2>1. th[sup(r)].pc # "idle" /\ UNCHANGED server
    BY <1>4 DEF NotAdmitted, Supersede, Mark, Insert, Admitted, ensure_still_in_flight
  <2>2. Only(sup(r))
    BY <1>1, <1>4 DEF Only, NotAdmitted, Supersede, Mark, Insert, Admitted,
       ensure_still_in_flight, Goto, EndDrive, IInv, TypeOK
  <2> QED BY <1>1, <2>1, <2>2, BootOther
<1>5. CASE Spawn(r) \/ record_process_identity(r) \/ run_print_mode(r)
  <2>1. th[sup(r)].pc # "idle" /\ UNCHANGED server
    BY <1>5 DEF Spawn, record_process_identity, run_print_mode
  <2>2. Only(sup(r))
    BY <1>1, <1>5 DEF Only, Spawn, record_process_identity, run_print_mode, Goto, IInv, TypeOK
  <2> QED BY <1>1, <2>1, <2>2, BootOther
<1> QED BY <1>2, <1>3, <1>4, <1>5 DEF Supervise

LEMMA BootAlone == web # boot /\ sweep # boot
BY DEF web, sweep, boot

LEMMA BootOthers ==
    ASSUME IInv, BootInv,
           \/ \E r \in Runs : Resupervise(r) \/ request_cancel(r)
           \/ stop_detached_process \/ EndFromOutside \/ reconcile_once \/ Sweep
    PROVE  BootStep
<1>1. ASSUME NEW t \in Thread, \A r \in Runs : t # sup(r), t # boot, Only(t), UNCHANGED server
      PROVE  BootStep
  BY <1>1, BootOther
<1>2. ASSUME NEW r \in Runs, Resupervise(r)
      PROVE  BootStep
  <2>1. Only(res(r)) /\ UNCHANGED server
    BY <1>2 DEF Only, Resupervise, _supervise_until_gone, _claim_settlement, Goto, IInv, TypeOK
  <2> QED BY <1>1, <2>1, ThreadNames
<1>3. CASE (\E r \in Runs : request_cancel(r)) \/ stop_detached_process \/ EndFromOutside
  <2>1. Only(web) /\ UNCHANGED server
    BY <1>3 DEF Only, request_cancel, stop_detached_process, EndFromOutside, EndDrive, IInv,
       TypeOK
  <2> QED BY <1>1, <2>1, ThreadNames, BootAlone
<1>4. CASE reconcile_once \/ Sweep
  <2>1. UNCHANGED server
    BY <1>4 DEF reconcile_once, Sweep, settle_expired_agent_runs, settle_orphaned_agent_runs,
       settle_expired_orchestration_leases, NoLeaseExpired
  <2>2. Only(sweep)
    BY <1>4 DEF Only, reconcile_once, Sweep, settle_expired_agent_runs,
       settle_orphaned_agent_runs, settle_expired_orchestration_leases, NoLeaseExpired,
       EndDrive, IInv, TypeOK
  <2> QED BY <1>1, <2>1, <2>2, ThreadNames, BootAlone
<1> QED BY <1>2, <1>3, <1>4

(* The threads that may be the boot.                                        *)
LEMMA BootSettle ==
    ASSUME IInv, BootInv, NEW t \in Thread,
           Settle(t) \/ _fail_in_flight_children(t) \/ (t \in {sweep, boot} /\ Strand(t))
    PROVE  BootStep
<1> USE DEF Settle, claim_completion, _stop_if_already_settled, advance_stage_after_run,
            complete_run_tail, settle_stage_after_failed_completion,
            _fail_in_flight_children, Strand, settle_stranded_stages, BlockStranded
<1>1. th[t] \in Local /\ th[t].pc # "idle"
  BY DEF IInv, TypeOK
<1>2. Only(t)
  BY DEF Only, Goto, IInv, TypeOK
<1>3. CASE t # boot
  <2>1. UNCHANGED server
    BY <1>3
  <2> QED BY <1>1, <1>2, <1>3, <2>1, BootOther
<1>4. CASE t = boot
  <2>1. UNCHANGED server \/ (server' = "up" /\ th'[boot].pc = "idle")
    <3>1. CASE Settle(boot) \/ _fail_in_flight_children(boot)
      BY <3>1
    <3>2. CASE settle_stranded_stages(boot)
      BY <3>2
    <3>3. CASE BlockStranded(boot)
      <4>1. th' = [th EXCEPT ![boot] = Idle] /\ server' = "up"
        BY <3>3
      <4> QED BY <1>4, <4>1 DEF Idle, IInv, TypeOK
    <3> QED BY <1>4, <3>1, <3>2, <3>3
  <2>2. th'[boot].back = "interrupted" =>
          th[boot].back = "interrupted" /\ th'[boot].todo \subseteq th[boot].todo
    <3>1. CASE Settle(boot) \/ settle_stranded_stages(boot)
      <4>1. CASE th' = [th EXCEPT ![boot] = Return(boot)]
        BY <1>1, <1>4, <4>1 DEF Return, Idle, Local, IInv, TypeOK
      <4>2. CASE \E p : Goto(boot, p)
        BY <1>1, <1>4, <4>2 DEF Goto, Local, IInv, TypeOK
      <4> QED BY <3>1, <4>1, <4>2
    <3>2. CASE BlockStranded(boot)
      BY <1>4, <3>2 DEF Idle, IInv, TypeOK
    <3>3. CASE _fail_in_flight_children(boot)
      <4>1. th'[boot].back \in {"idle", "children", th[boot].back}
            /\ th'[boot].todo \subseteq th[boot].todo
        <5>1. CASE th[boot].todo = {}
          <6> DEFINE x == [Idle EXCEPT !.pc = AfterChildren(boot)]
          <6>1. x.back = "idle" /\ x.todo = {}
            BY DEF Idle
          <6>2. th' = [th EXCEPT ![boot] = x]
            BY <3>3, <5>1
          <6> HIDE DEF x
          <6> QED BY <1>1, <1>4, <6>1, <6>2 DEF IInv, TypeOK
        <5>2. ASSUME NEW r, th' = [th EXCEPT ![boot] = Skip(boot, r)]
              PROVE  th'[boot].back = th[boot].back /\ th'[boot].todo \subseteq th[boot].todo
          BY <1>1, <1>4, <5>2 DEF Skip, Local, IInv, TypeOK
        <5>3. ASSUME NEW r, NEW mute, th' = [th EXCEPT ![boot] =
                                     Fail(boot, r, FALSE, Seen(r, mute), "children")]
              PROVE  th'[boot].back = "children" /\ th'[boot].todo \subseteq th[boot].todo
          BY <1>1, <1>4, <5>3 DEF Fail, Complete, Local, IInv, TypeOK
        <5>4. CASE th[boot].todo # {}
          <6>1. PICK r \in th[boot].todo, mute \in Unanswered :
                  \/ th' = [th EXCEPT ![boot] = Fail(boot, r, FALSE, Seen(r, mute), "children")]
                  \/ th' = [th EXCEPT ![boot] = Skip(boot, r)]
            BY <3>3, <5>4
          <6> QED BY <5>2, <5>3, <6>1
        <5> QED BY <5>1, <5>4
      <4> QED BY <4>1
    <3> QED BY <1>4, <3>1, <3>2, <3>3
  <2> QED BY <1>1, <1>2, <1>4, <2>1, <2>2, BootSelf
<1> QED BY <1>3, <1>4

LEMMA BootServer ==
    ASSUME IInv, BootInv, Drain \/ end_drain \/ Crash \/ Boot \/ reattach_surviving_runs
    PROVE  BootStep
<1>1. boot \in Thread /\ th[boot] \in Local /\ th \in [Thread -> Local]
  BY ThreadNames DEF IInv, TypeOK
<1>2. CASE Drain \/ end_drain
  BY <1>2 DEF Drain, end_drain, BootStep, BootInv, Hushed
<1>3. CASE Crash
  <2>1. \A t \in Thread : th'[t].pc = "idle"
    BY <1>3 DEF Crash, Idle
  <2> QED BY <1>1, <2>1, ThreadNames DEF BootStep
<1>4. CASE Boot
  <2> DEFINE x == [Idle EXCEPT !.pc = "reattach"]
  <2>1. x.back = "idle"
    BY DEF Idle
  <2>2. th' = [th EXCEPT ![boot] = x] /\ server = "down" /\ server' = "booting"
    BY <1>4 DEF Boot
  <2> HIDE DEF x
  <2> QED BY <1>1, <2>1, <2>2, ThreadNames DEF BootStep, BootInv, Hushed
<1>5. CASE reattach_surviving_runs
  <2> DEFINE i == [Idle EXCEPT !.pc = "interrupted"]
             f(t) == [Idle EXCEPT !.pc = "follow", !.run = t[2]]
  <2>1. PICK A : th' = [t \in Thread |-> IF t = boot THEN i
                                         ELSE IF t[1] = "res" /\ t[2] \in A THEN f(t)
                                         ELSE th[t]]
    BY <1>5 DEF reattach_surviving_runs
  <2>2. i.back = "idle"
    BY DEF Idle
  <2>3. th[boot].pc # "idle" /\ UNCHANGED server
    BY <1>5 DEF reattach_surviving_runs
  <2> HIDE DEF i, f
  <2>4. \A r \in Runs : th'[sup(r)] = th[sup(r)]
    <3>1. \A r \in Runs : sup(r)[1] # "res"
      BY DEF sup
    <3> QED BY <2>1, <3>1, ThreadNames
  <2>5. th'[boot] = i
    BY <1>1, <2>1
  <2> QED BY <2>2, <2>3, <2>4, <2>5 DEF BootStep, BootInv, Hushed
<1> QED BY <1>2, <1>3, <1>4, <1>5

LEMMA BootRestart ==
    ASSUME IInv, BootInv, fail_interrupted_runs \/ fail_interrupted_orchestration_runs
    PROVE  BootStep
<1>1. boot \in Thread /\ th[boot] \in Local /\ th \in [Thread -> Local]
  BY ThreadNames DEF IInv, TypeOK
<1>2. th[boot].pc # "idle" /\ Only(boot) /\ UNCHANGED server
  BY <1>1 DEF fail_interrupted_runs, fail_interrupted_orchestration_runs, Only, EndDrive
<1>3. CASE \E M \in Mutes :
             th' = [th EXCEPT ![boot].todo = InFlight \ runs_to_spare(M),
                              ![boot].back = "interrupted"]
  <2>1. PICK M \in Mutes :
          th' = [th EXCEPT ![boot].todo = InFlight \ runs_to_spare(M),
                           ![boot].back = "interrupted"]
    BY <1>3
  <2>2. th'[boot].todo = InFlight \ runs_to_spare(M)
    BY <1>1, <2>1 DEF Local
  <2>3. ASSUME NEW r \in InFlight \ runs_to_spare(M)
        PROVE  r \in Runs /\ (run[r].pid => agent[r] # "working")
    BY <2>3 DEF InFlight, runs_to_spare, liveness
  <2>4. \A r \in Runs : th'[sup(r)] = th[sup(r)]
    BY <1>2, ThreadNames DEF Only
  <2> QED BY <1>2, <2>2, <2>3, <2>4 DEF BootStep, BootInv, Hushed
<1>4. CASE th[boot].back = "interrupted" /\ \E r \in th[boot].todo :
             th' = [th EXCEPT ![boot] = Fail(boot, r, TRUE, Seen(r, FALSE), "interrupted")]
  <2>1. th'[boot].todo \subseteq th[boot].todo
    BY <1>1, <1>4 DEF Fail, Complete, Local
  <2> QED BY <1>2, <1>4, <2>1, BootSelf
<1>5. ASSUME NEW x, x.back = "idle", th' = [th EXCEPT ![boot] = x]
      PROVE  BootStep
  <2>1. th'[boot] = x
    BY <1>1, <1>5
  <2> QED BY <1>2, <1>5, <2>1, BootSelf
<1>6. /\ [Idle EXCEPT !.pc = "parents"].back = "idle"
      /\ [Idle EXCEPT !.pc = "stranded"].back = "idle"
      /\ [Idle EXCEPT !.pc = "children", !.todo = Driven].back = "idle"
  BY DEF Idle
<1>7. CASE fail_interrupted_runs
  BY <1>3, <1>4, <1>5, <1>6, <1>7 DEF fail_interrupted_runs
<1>8. CASE fail_interrupted_orchestration_runs
  <2>1. CASE EndDrive(boot, stage)
    BY <1>5, <1>6, <2>1 DEF EndDrive
  <2>2. CASE th' = [th EXCEPT ![boot] = [Idle EXCEPT !.pc = "stranded"]]
    BY <1>5, <1>6, <2>2
  <2> QED BY <1>8, <2>1, <2>2 DEF fail_interrupted_orchestration_runs
<1> QED BY <1>7, <1>8

LEMMA BootNext == ASSUME IInv, BootInv, Next PROVE BootStep
<1>1. ASSUME NEW r \in Runs,
             \/ start_run_async(r) \/ start_orchestration_run(r) \/ NotAdmitted(r)
             \/ Supervise(r)
      PROVE  BootStep
  BY <1>1, BootSupervisors
<1>2. ASSUME NEW r \in Runs, Resupervise(r) \/ request_cancel(r)
      PROVE  BootStep
  BY <1>2, BootOthers
<1>3. CASE stop_detached_process \/ EndFromOutside \/ reconcile_once \/ Sweep
  BY <1>3, BootOthers
<1>4. ASSUME NEW r \in Runs,
             AgentExits(r) \/ renew_agent_run_lease(r) \/ LeaseLapses(r) \/ RenewalMissed(r)
      PROVE  BootStep
  <2>1. UNCHANGED <<th, server>>
    BY <1>4 DEF AgentExits, renew_agent_run_lease, LeaseLapses, RenewalMissed
  <2> QED BY <2>1, BootNone
<1>5. ASSUME NEW t \in Thread, Settle(t) \/ _fail_in_flight_children(t)
      PROVE  BootStep
  BY <1>5, BootSettle
<1>6. ASSUME NEW t \in {sweep, boot}, Strand(t)
      PROVE  BootStep
  BY <1>6, BootSettle, ThreadNames
<1>7. CASE Drain \/ end_drain \/ Crash \/ Boot
  BY <1>7, BootServer
<1>8. CASE Restart
  BY <1>8, BootServer, BootRestart DEF Restart
<1> QED BY <1>1, <1>2, <1>3, <1>4, <1>5, <1>6, <1>7, <1>8 DEF Next

-----------------------------------------------------------------------------
LEMMA ReapInit == Init => ReapInv /\ BootInv
<1> SUFFICES ASSUME Init PROVE ReapInv /\ BootInv
  OBVIOUS
<1>1. \A t \in Thread : th[t].pc = "idle"
  BY DEF Init, Idle
<1>2. \A r \in Runs : run[r].status = "none" /\ ~run[r].pid
  BY DEF Init, NoRow
<1>3. ReapInv
  BY <1>1, <1>2, ThreadNames DEF ReapInv, Nameless, Blank, Knowing, Young
<1>4. BootInv
  BY <1>1, ThreadNames DEF BootInv, Hushed, Found
<1> QED BY <1>3, <1>4

LEMMA ReapStutter ==
    ASSUME ReapInv, BootInv, UNCHANGED vars PROVE ReapInv' /\ BootInv'
<1>1. ReapInv'
  BY DEF vars, ReapInv, Nameless, Blank, Knowing, sup
<1>2. BootInv'
  BY DEF vars, BootInv, Hushed, Found, boot, sup
<1> QED BY <1>1, <1>2

LEMMA ReapNextKeeps == ASSUME IInv, ReapInv, BootInv, Next PROVE ReapInv' /\ BootInv'
<1>1. ReapStep /\ BootStep
  BY ReapNext, BootNext
<1> QED BY <1>1, ReapKept, BootKept

(* Whatever the supervisors, the sweep, the end of an orchestration and a   *)
(* boot make of a row meanwhile: a reaper that asks about the process it    *)
(* names fails the run only once the agent works no more, whether or not    *)
(* `ps' answered, but for the sweep of leases, which goes by the lease when *)
(* `ps' was silent (process_identity.liveness and its readers in            *)
(* run_lease.py, run_service.py and orchestration_callbacks.py).            *)
THEOREM LiveAgentsAreSpared == Spec => []NoLiveAgentReaped
<1>1. IInv /\ ReapInv /\ BootInv /\ [Next]_vars => ReapInv' /\ BootInv'
  BY ReapNextKeeps, ReapStutter
<1>2. IInv /\ ReapInv => NoLiveAgentReaped
  BY DEF ReapInv, Knowing, Knows, NoLiveAgentReaped
<1> QED BY <1>1, <1>2, ReapInit, Invariance, PTL DEF Spec, Safety

-----------------------------------------------------------------------------
(* The drive of a stage: while an orchestration lives and every row is      *)
(* under it, one run at a time is active, and the stage is running as long  *)
(* as one is.                                                               *)
AllDriven == \A r \in Runs : run[r].status # "none" => run[r].driven

(* A driver that has reached the stage for r: before it marks it, before it *)
(* has a row, and after.                                                    *)
Marking(r)   == th[sup(r)].pc = "mark" /\ th[sup(r)].adv
Inserting(r) == th[sup(r)].pc = "insert" /\ th[sup(r)].adv

Driving(r) ==
    \/ Marking(r) \/ Inserting(r)
    \/ run[r].status # "none" /\ run[r].driven /\ th[sup(r)].pc # "idle"

(* Somebody has yet to say where the stage goes because of r.               *)
Deciding(r) == \E t \in Thread : th[t].pc \in {"tail", "route"} /\ th[t].run = r

Active(r) == Inserting(r) \/ run[r].status = "running" \/ Deciding(r)

OneAtATime ==
    orch = "live" /\ AllDriven =>
      /\ \A r, q \in Runs : Driving(r) /\ Driving(q) => r = q
      /\ \A r, q \in Runs : Active(r) /\ Active(q) => r = q
      /\ \A r \in Runs : Active(r) => stage = "running"
      /\ \A r, q \in Runs : Marking(r) => ~Active(q)
      /\ \A t \in {sweep, boot} : th[t].pc # "block"

(* Before any orchestration there is no driver and no row of one; whoever   *)
(* is about to block the stage blocks one that is running.                  *)
NoDriveYet ==
    orch = "none" =>
      /\ \A r \in Runs : ~Marking(r) /\ ~Inserting(r)
      /\ \A r \in Runs : ~run[r].driven
      /\ \A t \in Thread : th[t].pc # "after" /\ th[t].back # "after"
      /\ AllDriven /\ (\E t \in {sweep, boot} : th[t].pc = "block") => stage = "running"

(* Nothing sweeps while the server is down or boots; a success is handed on *)
(* to the stage.                                                            *)
SweepServes == server \in {"down", "booting"} => th[sweep].pc = "idle"

SuccessAdvances == \A t \in Thread :
    th[t].pc \in {"claim", "tail"} /\ th[t].verdict = "succeeded" => th[t].adv

FlowInv == OneAtATime /\ NoDriveYet /\ SweepServes /\ SuccessAdvances

(* Where no failure is ever judged transient, an orchestration drives one   *)
(* run in all.                                                              *)
OneInAll ==
    orch = "live" /\ AllDriven =>
      /\ \A r, q \in Runs : run[r].status # "none" /\ run[q].status # "none" => r = q
      /\ \A r, q \in Runs : run[r].status # "none" => ~Marking(q) /\ ~Inserting(q)
      /\ \A r \in Runs : run[r].status = "failed" => stage # "pending"

(* A completion never raises, or a failure is never transient.              *)
Steady == left["raise"] = 0 \/ (left["retry"] = 0 /\ OneInAll)

(* What a step has to keep.                                                 *)
FlowKept == FlowInv' /\ (left["retry"] = 0 /\ OneInAll => OneInAll')

-----------------------------------------------------------------------------
(* Steps that bring nothing new: no driver, no active run, no row.          *)
SameRows == \A r \in Runs :
    /\ run'[r].status = "none" <=> run[r].status = "none"
    /\ run'[r].driven = run[r].driven

Narrower ==
    /\ \A r \in Runs : /\ Marking(r)' => Marking(r)
                       /\ Inserting(r)' => Inserting(r)
                       /\ Driving(r)' => Driving(r)
                       /\ Active(r)' => Active(r)
    /\ \A t \in {sweep, boot} : th'[t].pc = "block" => th[t].pc = "block"
    /\ \A t \in Thread : "after" \in {th'[t].pc, th'[t].back} =>
                           orch # "none" \/ "after" \in {th[t].pc, th[t].back}

LEMMA SameRowsDriven == ASSUME SameRows PROVE AllDriven' <=> AllDriven
BY DEF SameRows, AllDriven

LEMMA NarrowKeeps ==
    ASSUME FlowInv, SameRows, Narrower, UNCHANGED orch, stage' \in {stage, "running"},
           SweepServes', SuccessAdvances',
           orch = "live" /\ AllDriven =>
             \A r \in Runs : run'[r].status = "failed" =>
                               run[r].status = "failed" \/ stage' # "pending"
    PROVE  FlowKept
<1>1. AllDriven' <=> AllDriven
  BY SameRowsDriven
<1>2. OneAtATime'
  <2> SUFFICES ASSUME orch' = "live", AllDriven'
               PROVE  /\ \A r, q \in Runs : Driving(r)' /\ Driving(q)' => r = q
                      /\ \A r, q \in Runs : Active(r)' /\ Active(q)' => r = q
                      /\ \A r \in Runs : Active(r)' => stage' = "running"
                      /\ \A r, q \in Runs : Marking(r)' => ~Active(q)'
                      /\ \A t \in {sweep, boot} : th'[t].pc # "block"
    BY DEF OneAtATime, sweep, boot
  <2> QED BY <1>1 DEF FlowInv, OneAtATime, Narrower
<1>3. NoDriveYet'
  <2> SUFFICES ASSUME orch' = "none"
               PROVE  /\ \A r \in Runs : ~Marking(r)' /\ ~Inserting(r)'
                      /\ \A r \in Runs : ~run'[r].driven
                      /\ \A t \in Thread : th'[t].pc # "after" /\ th'[t].back # "after"
                      /\ AllDriven' /\ (\E t \in {sweep, boot} : th'[t].pc = "block")
                           => stage' = "running"
    BY DEF NoDriveYet, sweep, boot
  <2> QED BY <1>1 DEF FlowInv, NoDriveYet, Narrower, SameRows
<1>4. OneInAll => OneInAll'
  <2> SUFFICES ASSUME OneInAll, orch' = "live", AllDriven'
               PROVE  /\ \A r, q \in Runs :
                           run'[r].status # "none" /\ run'[q].status # "none" => r = q
                      /\ \A r, q \in Runs :
                           run'[r].status # "none" => ~Marking(q)' /\ ~Inserting(q)'
                      /\ \A r \in Runs : run'[r].status = "failed" => stage' # "pending"
    BY DEF OneInAll
  <2> QED BY <1>1 DEF OneInAll, Narrower, SameRows
<1> QED BY <1>2, <1>3, <1>4 DEF FlowKept, FlowInv

(* An orchestration that is over asks nothing of the drive.                 *)
LEMMA OverKeeps ==
    ASSUME orch' = "over", SweepServes', SuccessAdvances'
    PROVE  FlowKept
BY DEF FlowKept, FlowInv, OneAtATime, NoDriveYet, OneInAll

(* A local state a step may give a thread and bring nothing new.            *)
Gentle(t, x) ==
    /\ x.pc \in {"tail", "route"} => th[t].pc \in {"tail", "route"} /\ x.run = th[t].run
    /\ x.pc \in {"mark", "insert"} /\ x.adv => x.pc = th[t].pc /\ th[t].adv
    /\ x.pc = "block" => th[t].pc = "block"
    /\ \A r \in Runs : t = sup(r) /\ x.pc # "idle" =>
                         th[t].pc # "idle" \/ run[r].status = "none"
    /\ x.pc \in {"claim", "tail"} /\ x.verdict = "succeeded" => x.adv
    /\ t = sweep /\ x.pc # "idle" => th[t].pc # "idle" \/ Serving
    /\ "after" \in {x.pc, x.back} => orch # "none" \/ "after" \in {th[t].pc, th[t].back}

GentleStep == \A t \in Thread : th'[t] = th[t] \/ Gentle(t, th'[t])

ServerGentle == server' \in {"down", "booting"} =>
                  server \in {"down", "booting"} \/ th'[sweep].pc = "idle"

LEMMA GentleThreads ==
    ASSUME IInv, FlowInv, GentleStep, ServerGentle
    PROVE  SweepServes' /\ SuccessAdvances'
<1>1. SweepServes'
  <2> SUFFICES ASSUME server' \in {"down", "booting"}
               PROVE  th'[sweep].pc = "idle"
    BY DEF SweepServes, sweep
  <2> QED BY ThreadNames DEF GentleStep, Gentle, Serving, ServerGentle, FlowInv, SweepServes
<1>2. SuccessAdvances'
  BY DEF SuccessAdvances, GentleStep, Gentle, FlowInv
<1> QED BY <1>1, <1>2

LEMMA GentleNarrower ==
    ASSUME IInv, GentleStep, SameRows,
           \A r \in Runs : run'[r].status = "running" => run[r].status = "running"
    PROVE  Narrower
<1>1. ASSUME NEW r \in Runs
      PROVE  /\ Marking(r)' => Marking(r)
             /\ Inserting(r)' => Inserting(r)
             /\ Driving(r)' => Driving(r)
             /\ Active(r)' => Active(r)
  <2>1. sup(r) \in Thread /\ (th'[sup(r)] = th[sup(r)] \/ Gentle(sup(r), th'[sup(r)]))
    BY ThreadNames DEF GentleStep
  <2>2. /\ Marking(r)' <=> th'[sup(r)].pc = "mark" /\ th'[sup(r)].adv
        /\ Inserting(r)' <=> th'[sup(r)].pc = "insert" /\ th'[sup(r)].adv
    BY DEF Marking, Inserting, sup
  <2>3. /\ Marking(r)' => Marking(r)
        /\ Inserting(r)' => Inserting(r)
    BY <2>1, <2>2 DEF Gentle, Marking, Inserting
  <2>4. run[r].status # "none" /\ th'[sup(r)].pc # "idle" => th[sup(r)].pc # "idle"
    BY <2>1 DEF Gentle
  <2>5. Driving(r)' => Driving(r)
    BY <2>3, <2>4 DEF Driving, SameRows, sup
  <2>6. Deciding(r)' => Deciding(r)
    BY DEF Deciding, GentleStep, Gentle
  <2>7. Active(r)' => Active(r)
    BY <2>3, <2>6 DEF Active
  <2> QED BY <2>3, <2>5, <2>7
<1>2. \A t \in {sweep, boot} : th'[t].pc = "block" => th[t].pc = "block"
  BY ThreadNames DEF GentleStep, Gentle
<1>3. \A t \in Thread : "after" \in {th'[t].pc, th'[t].back} =>
                          orch # "none" \/ "after" \in {th[t].pc, th[t].back}
  BY DEF GentleStep, Gentle
<1> QED BY <1>1, <1>2, <1>3 DEF Narrower

(* A step that keeps the rows as they are, and moves threads gently.        *)
StatusKept == \A r \in Runs : run'[r].status = run[r].status /\ run'[r].driven = run[r].driven

LEMMA GentleKeeps ==
    ASSUME IInv, FlowInv, GentleStep, ServerGentle, StatusKept,
           \/ orch' = "over"
           \/ UNCHANGED orch /\ stage' \in {stage, "running"}
    PROVE  FlowKept
<1>1. SweepServes' /\ SuccessAdvances'
  BY GentleThreads
<1>2. CASE orch' = "over"
  BY <1>1, <1>2, OverKeeps
<1>3. CASE UNCHANGED orch /\ stage' \in {stage, "running"}
  <2>1. SameRows /\ Narrower
    BY GentleNarrower DEF SameRows, StatusKept
  <2>2. \A r \in Runs : run'[r].status = "failed" => run[r].status = "failed"
    BY DEF StatusKept
  <2> QED BY <1>1, <1>3, <2>1, <2>2, NarrowKeeps
<1> QED BY <1>2, <1>3

(* One thread moves.                                                        *)
LEMMA FlowTurn ==
    ASSUME IInv, FlowInv, NEW t \in Thread, NEW x, th' = [th EXCEPT ![t] = x], Gentle(t, x),
           UNCHANGED server, StatusKept,
           \/ orch' = "over"
           \/ UNCHANGED orch /\ stage' \in {stage, "running"}
    PROVE  FlowKept
<1>1. GentleStep
  BY DEF GentleStep, IInv, TypeOK
<1> QED BY <1>1, GentleKeeps DEF ServerGentle

LEMMA FlowStill ==
    ASSUME IInv, FlowInv, UNCHANGED <<th, stage, orch>>, ServerGentle, StatusKept
    PROVE  FlowKept
BY GentleKeeps DEF GentleStep
-----------------------------------------------------------------------------
(* The local states that are gentle.                                        *)
Plain(x) ==
    /\ x.pc \notin {"tail", "route", "block", "claim", "after"} /\ x.back # "after"
    /\ x.pc \in {"mark", "insert"} => ~x.adv

Awake(t) == th[t].pc # "idle" \/ (t # sweep /\ \A r \in Runs : t # sup(r))

LEMMA PlainGentle ==
    ASSUME NEW t \in Thread, NEW x, Plain(x), x.pc = "idle" \/ Awake(t)
    PROVE  Gentle(t, x)
BY DEF Plain, Awake, Gentle

PlainPc == Pc \ {"tail", "route", "block", "claim", "after"}

LEMMA IdlePlain ==
    ASSUME NEW pc \in PlainPc, NEW S, NEW q, NEW b, b # "after"
    PROVE  /\ Plain(Idle) /\ Plain([Idle EXCEPT !.pc = pc])
           /\ Plain([Idle EXCEPT !.pc = pc, !.todo = S])
           /\ Plain([Idle EXCEPT !.pc = pc, !.run = q])
           /\ Plain([Idle EXCEPT !.pc = pc, !.run = q, !.todo = S])
           /\ Plain([Idle EXCEPT !.pc = pc, !.todo = S, !.back = b])
BY DEF Plain, Idle, PlainPc

LEMMA IdleGentle == ASSUME NEW t \in Thread PROVE Gentle(t, Idle)
BY DEF Gentle, Idle

LEMMA GotoGentle ==
    ASSUME IInv, NEW t \in Thread, NEW pc, Goto(t, pc), th[t].pc # "idle",
           \/ pc \in PlainPc \ {"mark", "insert"}
           \/ pc = "insert" /\ ~th[t].adv
           \/ pc = "route" /\ th[t].pc = "tail"
    PROVE  /\ th' = [th EXCEPT ![t] = [th[t] EXCEPT !.pc = pc]]
           /\ Gentle(t, [th[t] EXCEPT !.pc = pc])
<1> DEFINE x == [th[t] EXCEPT !.pc = pc]
<1>1. th[t] \in Local /\ th \in [Thread -> Local]
  BY DEF IInv, TypeOK
<1>2. x.pc = pc /\ x.run = th[t].run /\ x.adv = th[t].adv /\ x.back = th[t].back
  BY <1>1 DEF Local
<1>3. th' = [th EXCEPT ![t] = x]
  BY <1>1 DEF Goto
<1> HIDE DEF x
<1>4. Gentle(t, x)
  BY <1>2 DEF Gentle, PlainPc
<1> QED BY <1>3, <1>4 DEF x

LEMMA SkipGentle ==
    ASSUME IInv, NEW t \in Thread, NEW r, th[t].pc \notin {"idle", "claim", "tail"}
    PROVE  Gentle(t, Skip(t, r))
<1>1. th[t] \in Local
  BY DEF IInv, TypeOK
<1>2. /\ Skip(t, r).pc = th[t].pc /\ Skip(t, r).run = th[t].run
      /\ Skip(t, r).adv = th[t].adv /\ Skip(t, r).back = th[t].back
  BY <1>1 DEF Skip, Local
<1> QED BY <1>2 DEF Gentle

LEMMA ReturnGentle ==
    ASSUME IInv, NEW t \in Thread, th[t].pc # "idle"
    PROVE  Gentle(t, Return(t))
<1>1. th[t] \in Local
  BY DEF IInv, TypeOK
<1>2. Return(t).pc = th[t].back /\ Return(t).back \in {"idle", th[t].back}
  BY <1>1 DEF Return, Local, Idle
<1>3. Return(t).pc \notin {"mark", "insert", "tail", "route", "block", "claim"}
  BY <1>1, <1>2 DEF Local, Callers
<1> QED BY <1>2, <1>3 DEF Gentle

(* A completion is called for a success only with the stage to advance; the *)
(* driver goes on from it once an orchestration is there.                   *)
LEMMA CompleteGentle ==
    ASSUME IInv, NEW t \in Thread, NEW r, NEW v, NEW adv, NEW saw, NEW b, NEW S,
           th[t].pc # "idle", v = "succeeded" => adv, b = "after" => orch # "none"
    PROVE  /\ Gentle(t, Complete(t, r, v, adv, saw, b))
           /\ Gentle(t, [Complete(t, r, v, adv, saw, b) EXCEPT !.todo = S])
<1> DEFINE x == Complete(t, r, v, adv, saw, b)
           y == [x EXCEPT !.todo = S]
<1>1. th[t] \in Local
  BY DEF IInv, TypeOK
<1>2. /\ x.pc = "claim" /\ x.verdict = v /\ x.adv = adv /\ x.back = b
      /\ y.pc = "claim" /\ y.verdict = v /\ y.adv = adv /\ y.back = b
  BY <1>1 DEF Complete, Local
<1> HIDE DEF x, y
<1>3. Gentle(t, x) /\ Gentle(t, y)
  BY <1>2 DEF Gentle
<1> QED BY <1>3 DEF x, y

LEMMA FailGentle ==
    ASSUME IInv, NEW t \in Thread, NEW r, NEW adv, NEW saw, NEW b, th[t].pc # "idle", b # "after"
    PROVE  Gentle(t, Fail(t, r, adv, saw, b))
BY CompleteGentle DEF Fail

LEMMA EndDriveKeeps ==
    ASSUME IInv, FlowInv, NEW t \in Thread, NEW s, EndDrive(t, s), Awake(t),
           UNCHANGED <<run, server>>
    PROVE  FlowKept
<1> DEFINE x == [Idle EXCEPT !.pc = "children", !.todo = Driven]
<1>1. Plain(x)
  BY DEF Plain, Idle
<1>2. th' = [th EXCEPT ![t] = x] /\ orch' = "over"
  BY DEF EndDrive
<1> HIDE DEF x
<1>3. Gentle(t, x)
  BY <1>1, PlainGentle
<1> QED BY <1>2, <1>3, FlowTurn DEF StatusKept

LEMMA FieldFlows ==
    ASSUME IInv, NEW r \in Runs, NEW b,
           \/ run' = [run EXCEPT ![r].fresh = b]
           \/ run' = [run EXCEPT ![r].finished = b]
           \/ run' = [run EXCEPT ![r].cancel = b]
           \/ run' = [run EXCEPT ![r].pid = b]
    PROVE  StatusKept
<1>1. run \in [Runs -> Row]
  BY DEF IInv, TypeOK
<1> QED BY <1>1 DEF StatusKept, Row

-----------------------------------------------------------------------------
(* The steps of a supervisor.                                               *)
LEMMA FlowDispatch ==
    ASSUME IInv, FlowInv, NEW r \in Runs, start_run_async(r) \/ Supersede(r)
    PROVE  FlowKept
<1>1. sup(r) \in Thread /\ th[sup(r)] \in Local
  BY ThreadNames DEF IInv, TypeOK
<1>2. StatusKept /\ UNCHANGED <<stage, orch, server>>
  BY DEF StatusKept, start_run_async, Supersede
<1>3. CASE start_run_async(r)
  <2> DEFINE x == [Idle EXCEPT !.pc = "reap", !.run = r, !.todo = InFlight]
  <2>1. x.pc = "reap" /\ x.back = "idle"
    BY DEF Idle
  <2>2. th' = [th EXCEPT ![sup(r)] = x] /\ run[r].status = "none"
    BY <1>3 DEF start_run_async, Next_id, Unused
  <2> HIDE DEF x
  <2>3. \A q \in Runs : sup(r) = sup(q) => q = r
    BY ThreadNames
  <2>4. Gentle(sup(r), x)
    BY <2>1, <2>2, <2>3, ThreadNames DEF Gentle
  <2> QED BY <1>1, <1>2, <2>2, <2>4, FlowTurn
<1>4. CASE Supersede(r)
  <2>1. th[sup(r)].pc = "reap"
    BY <1>4 DEF Supersede
  <2>2. CASE th[sup(r)].todo = {}
    <3> DEFINE x == [Idle EXCEPT !.pc = "mark"]
    <3>1. Plain(x)
      BY DEF Plain, Idle
    <3>2. th' = [th EXCEPT ![sup(r)] = x]
      BY <1>4, <2>2 DEF Supersede
    <3> HIDE DEF x
    <3>3. Gentle(sup(r), x)
      BY <1>1, <2>1, <3>1, PlainGentle DEF Awake
    <3> QED BY <1>1, <1>2, <3>2, <3>3, FlowTurn
  <2>3. CASE th[sup(r)].todo # {}
    <3>1. PICK q \in th[sup(r)].todo :
            th' = [th EXCEPT ![sup(r)] = Fail(sup(r), q, TRUE, "none", "reap")]
      BY <1>4, <2>3 DEF Supersede
    <3>2. Gentle(sup(r), Fail(sup(r), q, TRUE, "none", "reap"))
      BY <1>1, <2>1, FailGentle
    <3> QED BY <1>1, <1>2, <3>1, <3>2, FlowTurn
  <2> QED BY <2>2, <2>3
<1> QED BY <1>3, <1>4

(* A settled run has a row, whose verdict is the one its thread holds.      *)
LEMMA SettledRow ==
    ASSUME IInv, NEW t \in Thread, th[t].pc \in InTail
    PROVE  /\ th[t].run \in Runs
           /\ run[th[t].run].status = th[t].verdict /\ th[t].verdict \in Verdicts
BY DEF IInv, Holding, Busy, InTail, Settling

LEMMA ActiveRow ==
    ASSUME IInv, NEW r \in Runs, Active(r)
    PROVE  Inserting(r) \/ run[r].status # "none"
BY SettledRow DEF Active, Deciding, InTail, Verdicts

LEMMA OrchType == ASSUME IInv PROVE orch \in {"none", "live", "over"}
BY DEF IInv, TypeOK

(* The drive begins: there is no row under it, and nothing is active.       *)
LEMMA FlowDrive ==
    ASSUME IInv, FlowInv, NEW r \in Runs, start_orchestration_run(r)
    PROVE  FlowKept
<1> DEFINE x == [Idle EXCEPT !.pc = "mark", !.adv = TRUE]
<1>1. /\ orch = "none" /\ orch' = "live" /\ stage \in {"pending", "blocked"}
      /\ UNCHANGED <<run, stage, server>> /\ th' = [th EXCEPT ![sup(r)] = x]
      /\ run[r].status = "none"
  BY DEF start_orchestration_run, Next_id, Unused
<1>2. x.pc = "mark" /\ x.adv
  BY DEF Idle
<1> HIDE DEF x
<1>3. sup(r) \in Thread /\ th'[sup(r)] = x /\ \A t \in Thread : t # sup(r) => th'[t] = th[t]
  BY <1>1, ThreadNames DEF IInv, TypeOK
<1>4. SweepServes' /\ SuccessAdvances'
  BY <1>1, <1>2, <1>3, ThreadNames DEF FlowInv, SweepServes, SuccessAdvances, sweep
<1>5. AllDriven' => AllDriven /\ \A q \in Runs : run[q].status = "none"
  BY <1>1 DEF AllDriven, FlowInv, NoDriveYet
<1>6. \A q \in Runs : /\ Marking(q)' => q = r
                      /\ ~Inserting(q)'
  <2> SUFFICES ASSUME NEW q \in Runs
               PROVE  (Marking(q)' => q = r) /\ ~Inserting(q)'
    OBVIOUS
  <2>1. CASE q = r
    BY <1>2, <1>3, <2>1 DEF Inserting, sup
  <2>2. CASE q # r
    <3>1. sup(q) \in Thread /\ sup(q) # sup(r)
      BY <2>2, ThreadNames
    <3>2. ~Marking(q) /\ ~Inserting(q)
      BY <1>1 DEF FlowInv, NoDriveYet
    <3> QED BY <1>3, <3>1, <3>2 DEF Marking, Inserting, sup
  <2> QED BY <2>1, <2>2
<1>7. ASSUME AllDriven'
      PROVE  /\ \A q \in Runs : ~Active(q)'
             /\ \A q \in Runs : Driving(q)' => q = r
             /\ \A t \in {sweep, boot} : th'[t].pc # "block"
  <2>1. \A q \in Runs : run[q].status = "none"
    BY <1>5, <1>7
  <2>2. \A t \in Thread : th[t].pc \notin InTail
    BY <2>1, SettledRow DEF Verdicts
  <2>3. \A t \in Thread : th'[t].pc \notin {"tail", "route"}
    BY <1>2, <1>3, <2>2 DEF InTail
  <2>4. \A q \in Runs : ~Active(q)'
    BY <1>1, <1>6, <2>1, <2>3 DEF Active, Deciding
  <2>5. \A q \in Runs : Driving(q)' => q = r
    BY <1>1, <1>6, <2>1 DEF Driving
  <2>6. \A t \in {sweep, boot} : th'[t].pc # "block"
    BY <1>1, <1>3, <1>5, <1>7, ThreadNames DEF FlowInv, NoDriveYet
  <2> QED BY <2>4, <2>5, <2>6
<1>8. OneAtATime'
  <2> SUFFICES ASSUME AllDriven'
               PROVE  /\ \A p, q \in Runs : Driving(p)' /\ Driving(q)' => p = q
                      /\ \A p, q \in Runs : Active(p)' /\ Active(q)' => p = q
                      /\ \A p \in Runs : Active(p)' => stage' = "running"
                      /\ \A p, q \in Runs : Marking(p)' => ~Active(q)'
                      /\ \A t \in {sweep, boot} : th'[t].pc # "block"
    BY DEF OneAtATime, sweep, boot
  <2> QED BY <1>7
<1>9. NoDriveYet'
  BY <1>1 DEF NoDriveYet
<1>10. OneInAll'
  <2> SUFFICES ASSUME AllDriven'
               PROVE  \A q \in Runs : run'[q].status = "none"
    BY DEF OneInAll
  <2> QED BY <1>1, <1>5
<1> QED BY <1>4, <1>8, <1>9, <1>10 DEF FlowKept, FlowInv

(* The driver marks the stage: the only one, with nothing active.           *)
LEMMA FlowMark ==
    ASSUME IInv, FlowInv, NEW r \in Runs, Mark(r)
    PROVE  FlowKept
<1>1. sup(r) \in Thread /\ th[sup(r)] \in Local /\ th[sup(r)].pc = "mark"
  BY ThreadNames DEF IInv, TypeOK, Mark
<1>2. StatusKept /\ UNCHANGED <<orch, server, run, left>>
  BY DEF StatusKept, Mark
<1>3. CASE th[sup(r)].adv /\ orch # "live"
  <2>1. orch = "over"
    BY <1>1, <1>3, OrchType DEF FlowInv, NoDriveYet, Marking
  <2>2. Goto(sup(r), "children") /\ "children" \in PlainPc \ {"mark", "insert"}
    BY <1>3 DEF Mark, PlainPc, Pc, Settling
  <2> QED BY <1>1, <1>2, <2>1, <2>2, GotoGentle, FlowTurn
<1>4. CASE ~th[sup(r)].adv
  <2>1. Goto(sup(r), "insert") /\ stage' = "running"
    BY <1>4 DEF Mark
  <2> QED BY <1>1, <1>2, <1>4, <2>1, GotoGentle, FlowTurn
<1>5. CASE th[sup(r)].adv /\ orch = "live"
  <2> DEFINE x == [th[sup(r)] EXCEPT !.pc = "insert"]
  <2>1. x.pc = "insert" /\ x.adv /\ x.back = th[sup(r)].back
    BY <1>1, <1>5 DEF Local
  <2>2. th' = [th EXCEPT ![sup(r)] = x] /\ stage' = "running"
    BY <1>1, <1>5 DEF Mark, Goto, IInv, TypeOK
  <2> HIDE DEF x
  <2>3. th'[sup(r)] = x /\ \A t \in Thread : t # sup(r) => th'[t] = th[t]
    BY <1>1, <2>2 DEF IInv, TypeOK
  <2>4. SweepServes' /\ SuccessAdvances'
    BY <1>1, <1>2, <2>1, <2>3, ThreadNames DEF FlowInv, SweepServes, SuccessAdvances, sweep
  <2>5. AllDriven' <=> AllDriven
    BY <1>2 DEF AllDriven
  <2>6. Marking(r) /\ Driving(r)
    BY <1>1, <1>5 DEF Marking, Driving
  <2>7. \A q \in Runs : /\ Marking(q)' => Marking(q) /\ q # r
                        /\ Inserting(q)' => Inserting(q) \/ q = r
                        /\ Driving(q)' => Driving(q)
                        /\ Active(q)' => Active(q) \/ q = r
    <3> SUFFICES ASSUME NEW q \in Runs
                 PROVE  /\ Marking(q)' => Marking(q) /\ q # r
                        /\ Inserting(q)' => Inserting(q) \/ q = r
                        /\ Driving(q)' => Driving(q)
                        /\ Active(q)' => Active(q) \/ q = r
      OBVIOUS
    <3>1. sup(q) \in Thread /\ (q # r => sup(q) # sup(r))
      BY ThreadNames
    <3>2. Marking(q)' => Marking(q) /\ q # r
      BY <2>1, <2>3, <3>1 DEF Marking, sup
    <3>3. Inserting(q)' => Inserting(q) \/ q = r
      BY <2>3, <3>1 DEF Inserting, sup
    <3>4. Driving(q)' => Driving(q)
      <4>1. CASE q = r
        BY <2>6, <4>1
      <4>2. CASE q # r
        BY <1>2, <2>3, <3>1, <3>2, <3>3, <4>2 DEF Driving, sup
      <4> QED BY <4>1, <4>2
    <3>5. Deciding(q)' => Deciding(q)
      BY <2>1, <2>3 DEF Deciding
    <3> QED BY <1>2, <3>2, <3>3, <3>4, <3>5 DEF Active
  <2>8. OneAtATime'
    <3> SUFFICES ASSUME AllDriven'
                 PROVE  /\ \A p, q \in Runs : Driving(p)' /\ Driving(q)' => p = q
                        /\ \A p, q \in Runs : Active(p)' /\ Active(q)' => p = q
                        /\ \A p \in Runs : Active(p)' => stage' = "running"
                        /\ \A p, q \in Runs : Marking(p)' => ~Active(q)'
                        /\ \A t \in {sweep, boot} : th'[t].pc # "block"
      BY DEF OneAtATime, sweep, boot
    <3>1. /\ \A p, q \in Runs : Driving(p) /\ Driving(q) => p = q
          /\ \A q \in Runs : ~Active(q)
          /\ \A t \in {sweep, boot} : th[t].pc # "block"
      BY <1>5, <2>5, <2>6 DEF FlowInv, OneAtATime
    <3>2. \A q \in Runs : ~Marking(q)'
      BY <2>6, <2>7, <3>1 DEF Driving
    <3>3. \A t \in {sweep, boot} : th'[t].pc # "block"
      BY <2>3, <3>1, ThreadNames
    <3> QED BY <2>2, <2>7, <3>1, <3>2, <3>3
  <2>9. NoDriveYet'
    BY <1>2, <1>5 DEF NoDriveYet
  <2>10. OneInAll => OneInAll'
    <3> SUFFICES ASSUME OneInAll, AllDriven'
                 PROVE  /\ \A p, q \in Runs :
                             run'[p].status # "none" /\ run'[q].status # "none" => p = q
                        /\ \A p, q \in Runs :
                             run'[p].status # "none" => ~Marking(q)' /\ ~Inserting(q)'
                        /\ \A p \in Runs : run'[p].status = "failed" => stage' # "pending"
      BY DEF OneInAll
    <3>1. \A p \in Runs : run[p].status = "none"
      BY <1>5, <2>5, <2>6 DEF OneInAll
    <3> QED BY <1>2, <3>1
  <2> QED BY <2>4, <2>8, <2>9, <2>10 DEF FlowKept, FlowInv
<1> QED BY <1>3, <1>4, <1>5, OrchType

(* A row of the drive takes the place of its driver among what is active; a *)
(* row of the board ends the promise.                                       *)
LEMMA FlowInsert ==
    ASSUME IInv, FlowInv, NEW r \in Runs, Insert(r)
    PROVE  FlowKept
<1>1. sup(r) \in Thread /\ th[sup(r)] \in Local /\ th[sup(r)].pc = "insert"
  BY ThreadNames DEF IInv, TypeOK, Insert
<1>2. UNCHANGED <<stage, orch, server, left>>
  BY DEF Insert
<1>3. PICK x \in {Idle, [Idle EXCEPT !.pc = "wait", !.run = r]} :
        th' = [th EXCEPT ![sup(r)] = x]
  BY DEF Insert
<1>4. x.pc \in {"idle", "wait"} /\ x.back = "idle"
  <2>1. /\ Idle.pc = "idle" /\ Idle.back = "idle"
        /\ [Idle EXCEPT !.pc = "wait", !.run = r].pc = "wait"
        /\ [Idle EXCEPT !.pc = "wait", !.run = r].back = "idle"
    BY DEF Idle
  <2> QED BY <2>1
<1>5. th'[sup(r)] = x /\ \A t \in Thread : t # sup(r) => th'[t] = th[t]
  BY <1>1, <1>3 DEF IInv, TypeOK
<1>6. /\ run'[r].status = "running" /\ run'[r].driven = th[sup(r)].adv
      /\ \A q \in Runs : q # r => run'[q] = run[q]
  <2>1. run \in [Runs -> Row]
    BY DEF IInv, TypeOK
  <2> QED BY <2>1 DEF Insert, NoRow
<1>7. run[r].status = "none"
  BY <1>1 DEF IInv, Rowless, Early
<1>8. SweepServes' /\ SuccessAdvances'
  BY <1>2, <1>4, <1>5, ThreadNames DEF FlowInv, SweepServes, SuccessAdvances, sweep
<1>9. \A q \in Runs : /\ Marking(q)' => Marking(q)
                      /\ Inserting(q)' => Inserting(q) /\ q # r
                      /\ Active(q)' => Active(q) \/ q = r
                      /\ Driving(q)' => Driving(q) \/ q = r
  <2> SUFFICES ASSUME NEW q \in Runs
               PROVE  /\ Marking(q)' => Marking(q)
                      /\ Inserting(q)' => Inserting(q) /\ q # r
                      /\ Active(q)' => Active(q) \/ q = r
                      /\ Driving(q)' => Driving(q) \/ q = r
    OBVIOUS
  <2>1. sup(q) \in Thread /\ (q # r => sup(q) # sup(r))
    BY ThreadNames
  <2>2. Marking(q)' => Marking(q)
    BY <1>4, <1>5, <2>1 DEF Marking, sup
  <2>3. Inserting(q)' => Inserting(q) /\ q # r
    BY <1>4, <1>5, <2>1 DEF Inserting, sup
  <2>4. Deciding(q)' => Deciding(q)
    BY <1>4, <1>5 DEF Deciding
  <2>5. Driving(q)' => Driving(q) \/ q = r
    <3>1. CASE q # r
      BY <1>5, <1>6, <2>1, <2>2, <2>3, <3>1 DEF Driving, sup
    <3> QED BY <3>1
  <2> QED BY <1>6, <2>2, <2>3, <2>4, <2>5 DEF Active
<1>10. NoDriveYet'
  <2> SUFFICES ASSUME orch = "none"
               PROVE  /\ \A q \in Runs : ~Marking(q)' /\ ~Inserting(q)'
                      /\ \A q \in Runs : ~run'[q].driven
                      /\ \A t \in Thread : th'[t].pc # "after" /\ th'[t].back # "after"
                      /\ AllDriven' /\ (\E t \in {sweep, boot} : th'[t].pc = "block")
                           => stage' = "running"
    BY <1>2 DEF NoDriveYet, sweep, boot
  <2>1. ~th[sup(r)].adv
    BY <1>1 DEF FlowInv, NoDriveYet, Inserting
  <2>2. ~AllDriven'
    BY <1>6, <2>1 DEF AllDriven
  <2>3. \A q \in Runs : ~run'[q].driven
    BY <1>6, <2>1 DEF FlowInv, NoDriveYet
  <2>4. \A t \in Thread : th'[t].pc # "after" /\ th'[t].back # "after"
    BY <1>4, <1>5 DEF FlowInv, NoDriveYet
  <2> QED BY <1>9, <2>2, <2>3, <2>4 DEF FlowInv, NoDriveYet
<1>11. AllDriven' => AllDriven /\ Inserting(r)
  BY <1>1, <1>6, <1>7 DEF AllDriven, Inserting
<1>12. OneAtATime'
  <2> SUFFICES ASSUME orch = "live", AllDriven'
               PROVE  /\ \A p, q \in Runs : Driving(p)' /\ Driving(q)' => p = q
                      /\ \A p, q \in Runs : Active(p)' /\ Active(q)' => p = q
                      /\ \A p \in Runs : Active(p)' => stage' = "running"
                      /\ \A p, q \in Runs : Marking(p)' => ~Active(q)'
                      /\ \A t \in {sweep, boot} : th'[t].pc # "block"
    BY <1>2 DEF OneAtATime, sweep, boot
  <2>1. AllDriven /\ Inserting(r) /\ Active(r) /\ Driving(r)
    BY <1>11 DEF Active, Driving
  <2>2. /\ \A p, q \in Runs : Driving(p) /\ Driving(q) => p = q
        /\ \A p, q \in Runs : Active(p) /\ Active(q) => p = q
        /\ stage = "running"
        /\ \A p \in Runs : ~Marking(p)
        /\ \A t \in {sweep, boot} : th[t].pc # "block"
    BY <2>1 DEF FlowInv, OneAtATime
  <2>3. \A t \in {sweep, boot} : th'[t].pc # "block"
    BY <1>5, <2>2, ThreadNames
  <2> QED BY <1>2, <1>9, <2>1, <2>2, <2>3
<1>13. OneInAll => OneInAll'
  <2> SUFFICES ASSUME OneInAll, orch = "live", AllDriven'
               PROVE  /\ \A p, q \in Runs :
                           run'[p].status # "none" /\ run'[q].status # "none" => p = q
                      /\ \A p, q \in Runs :
                           run'[p].status # "none" => ~Marking(q)' /\ ~Inserting(q)'
                      /\ \A p \in Runs : run'[p].status = "failed" => stage' # "pending"
    BY <1>2 DEF OneInAll
  <2>1. AllDriven /\ Inserting(r) /\ Driving(r)
    BY <1>11 DEF Driving
  <2>2. \A p \in Runs : run[p].status = "none"
    BY <2>1 DEF OneInAll
  <2>3. \A p \in Runs : run'[p].status # "none" => p = r
    BY <1>6, <2>2
  <2>4. \A q \in Runs : Driving(q) => q = r
    BY <2>1 DEF FlowInv, OneAtATime
  <2>5. \A q \in Runs : ~Marking(q)' /\ ~Inserting(q)'
    <3> SUFFICES ASSUME NEW q \in Runs
                 PROVE  ~Marking(q)' /\ ~Inserting(q)'
      OBVIOUS
    <3>1. CASE q = r
      BY <1>4, <1>5, <3>1 DEF Marking, Inserting, sup
    <3>2. CASE q # r
      BY <1>9, <2>4, <3>2 DEF Driving
    <3> QED BY <3>1, <3>2
  <2> QED BY <1>6, <2>3, <2>5
<1> QED BY <1>8, <1>10, <1>12, <1>13 DEF FlowKept, FlowInv

LEMMA FlowStart ==
    ASSUME IInv, FlowInv, NEW r \in Runs,
           \/ Admitted(r) \/ NotAdmitted(r) \/ ensure_still_in_flight(r) \/ Spawn(r)
    PROVE  FlowKept
<1>1. sup(r) \in Thread /\ th[sup(r)].pc # "idle" /\ Awake(sup(r)) /\ UNCHANGED <<run, server>>
  BY ThreadNames DEF Awake, Admitted, NotAdmitted, ensure_still_in_flight, Spawn
<1>2. StatusKept
  BY <1>1 DEF StatusKept
<1>3. {"check", "spawn", "record"} \subseteq PlainPc \ {"mark", "insert"}
  BY DEF PlainPc, Pc, Settling
<1>4. CASE \E pc \in {"check", "spawn", "record"} : Goto(sup(r), pc) /\ UNCHANGED <<stage, orch>>
  <2>1. PICK pc \in {"check", "spawn", "record"} :
          Goto(sup(r), pc) /\ UNCHANGED <<stage, orch>>
    BY <1>4
  <2> QED BY <1>1, <1>2, <1>3, <2>1, GotoGentle, FlowTurn
<1>5. CASE \E s : EndDrive(sup(r), s)
  BY <1>1, <1>5, EndDriveKeeps
<1>6. ASSUME NEW b, b = "after" => run[r].driven, UNCHANGED <<stage, orch>>,
             th' = [th EXCEPT ![sup(r)] = Complete(sup(r), r, "failed", TRUE, "none", b)]
      PROVE  FlowKept
  <2>1. b = "after" => orch # "none"
    BY <1>6 DEF FlowInv, NoDriveYet
  <2>2. Gentle(sup(r), Complete(sup(r), r, "failed", TRUE, "none", b))
    BY <1>1, <2>1, CompleteGentle
  <2> QED BY <1>1, <1>2, <1>6, <2>2, FlowTurn
<1>7. CASE Admitted(r)
  BY <1>4, <1>7 DEF Admitted
<1>8. CASE NotAdmitted(r)
  <2>1. CASE run[r].driven
    BY <1>5, <1>8, <2>1 DEF NotAdmitted
  <2>2. CASE ~run[r].driven
    <3>1. /\ th' = [th EXCEPT ![sup(r)] = Complete(sup(r), r, "failed", TRUE, "none", "idle")]
          /\ UNCHANGED <<stage, orch>>
      BY <1>8, <2>2 DEF NotAdmitted
    <3>2. Gentle(sup(r), Complete(sup(r), r, "failed", TRUE, "none", "idle"))
      BY <1>1, CompleteGentle
    <3> QED BY <1>1, <1>2, <3>1, <3>2, FlowTurn
  <2> QED BY <2>1, <2>2
<1>9. CASE ensure_still_in_flight(r)
  <2>1. CASE th' = [th EXCEPT ![sup(r)] = Idle] /\ UNCHANGED <<stage, orch>>
    BY <1>1, <1>2, <2>1, IdleGentle, FlowTurn
  <2> QED BY <1>4, <1>5, <1>9, <2>1 DEF ensure_still_in_flight
<1>10. CASE Spawn(r)
  <2>1. UNCHANGED <<stage, orch>>
    BY <1>10 DEF Spawn
  <2>2. CASE Goto(sup(r), "record")
    BY <1>4, <2>1, <2>2
  <2>3. CASE th' = [th EXCEPT ![sup(r)] =
                      Complete(sup(r), r, "failed", TRUE, "none", AfterRun(r))]
    <3>1. AfterRun(r) = "after" => run[r].driven
      BY DEF AfterRun
    <3> QED BY <1>6, <2>1, <2>3, <3>1
  <2> QED BY <1>10, <2>2, <2>3 DEF Spawn
<1> QED BY <1>7, <1>8, <1>9, <1>10

LEMMA FlowSupervisor ==
    ASSUME IInv, FlowInv, NEW r \in Runs, record_process_identity(r) \/ run_print_mode(r)
    PROVE  FlowKept
<1>1. sup(r) \in Thread /\ th[sup(r)].pc # "idle" /\ UNCHANGED <<stage, orch, server>>
  BY ThreadNames DEF record_process_identity, run_print_mode
<1>2. CASE record_process_identity(r)
  <2>1. StatusKept
    BY <1>2, FieldFlows DEF record_process_identity
  <2>2. Goto(sup(r), "watch") /\ "watch" \in PlainPc \ {"mark", "insert"}
    BY <1>2 DEF record_process_identity, PlainPc, Pc, Settling
  <2> QED BY <1>1, <2>1, <2>2, GotoGentle, FlowTurn
<1>3. CASE run_print_mode(r)
  <2>1. StatusKept
    BY <1>3 DEF StatusKept, run_print_mode
  <2>2. PICK v : th' = [th EXCEPT ![sup(r)] = Complete(sup(r), r, v, TRUE, "none", AfterRun(r))]
    BY <1>3 DEF run_print_mode
  <2>3. AfterRun(r) = "after" => orch # "none"
    BY DEF AfterRun, FlowInv, NoDriveYet
  <2>4. Gentle(sup(r), Complete(sup(r), r, v, TRUE, "none", AfterRun(r)))
    BY <1>1, <2>3, CompleteGentle
  <2> QED BY <1>1, <2>1, <2>2, <2>4, FlowTurn
<1> QED BY <1>2, <1>3

(* The driver goes on to a run of its own, once the stage is re-armed:      *)
(* nothing is active then.                                                  *)
LEMMA FlowAgain ==
    ASSUME IInv, FlowInv, NEW r \in Runs, NEW q \in Runs,
           th[sup(r)].pc = "after", run[r].status = "failed", stage = "pending", Next_id(q),
           th' = [th EXCEPT ![sup(r)] = Idle,
                            ![sup(q)] = [Idle EXCEPT !.pc = "mark", !.adv = TRUE]],
           UNCHANGED <<run, stage, orch, server, left>>
    PROVE  FlowKept
<1> DEFINE x == [Idle EXCEPT !.pc = "mark", !.adv = TRUE]
<1>1. sup(r) \in Thread /\ sup(q) \in Thread /\ sup(r) # sup(q)
  BY ThreadNames DEF Next_id, Unused, Idle
<1>2. x.pc = "mark" /\ x.adv /\ x.back = "idle" /\ Idle.pc = "idle" /\ Idle.back = "idle"
  BY DEF Idle
<1>3. th' = [th EXCEPT ![sup(r)] = Idle, ![sup(q)] = x]
  OBVIOUS
<1> HIDE DEF x
<1>4. /\ th'[sup(r)] = Idle /\ th'[sup(q)] = x
      /\ \A t \in Thread : t # sup(r) /\ t # sup(q) => th'[t] = th[t]
  BY <1>1, <1>3 DEF IInv, TypeOK
<1>5. SweepServes' /\ SuccessAdvances'
  <2>1. th'[sweep] = th[sweep]
    BY <1>4, ThreadNames
  <2>2. \A t \in Thread : th'[t].pc \in {"claim", "tail"} => th'[t] = th[t]
    BY <1>2, <1>4
  <2> QED BY <2>1, <2>2 DEF FlowInv, SweepServes, SuccessAdvances, sweep
<1>6. orch # "none"
  BY <1>1 DEF FlowInv, NoDriveYet
<1>7. NoDriveYet'
  BY <1>6 DEF NoDriveYet
<1>8. AllDriven' <=> AllDriven
  BY DEF AllDriven
<1>9. \A p \in Runs : /\ Marking(p)' => Marking(p) \/ p = q
                      /\ Inserting(p)' => Inserting(p)
                      /\ Driving(p)' => p # r /\ (Driving(p) \/ p = q)
                      /\ Active(p)' => Active(p)
  <2> SUFFICES ASSUME NEW p \in Runs
               PROVE  /\ Marking(p)' => Marking(p) \/ p = q
                      /\ Inserting(p)' => Inserting(p)
                      /\ Driving(p)' => p # r /\ (Driving(p) \/ p = q)
                      /\ Active(p)' => Active(p)
    OBVIOUS
  <2>1. sup(p) \in Thread /\ (p # r => sup(p) # sup(r)) /\ (p # q => sup(p) # sup(q))
    BY ThreadNames
  <2>2. Marking(p)' => Marking(p) \/ p = q
    BY <1>2, <1>4, <2>1 DEF Marking, sup
  <2>3. Inserting(p)' => Inserting(p)
    BY <1>2, <1>4, <2>1 DEF Inserting, sup
  <2>4. Driving(p)' => p # r /\ (Driving(p) \/ p = q)
    <3>1. CASE p = r
      BY <1>2, <1>4, <3>1 DEF Driving, Marking, Inserting, sup
    <3>2. CASE p # r /\ p # q
      BY <1>4, <2>1, <3>2 DEF Driving, Marking, Inserting, sup
    <3> QED BY <1>1, <3>1, <3>2
  <2>5. Deciding(p)' => Deciding(p)
    BY <1>2, <1>4 DEF Deciding
  <2> QED BY <2>2, <2>3, <2>4, <2>5 DEF Active
<1>10. OneAtATime'
  <2> SUFFICES ASSUME orch = "live", AllDriven'
               PROVE  /\ \A p, z \in Runs : Driving(p)' /\ Driving(z)' => p = z
                      /\ \A p, z \in Runs : Active(p)' /\ Active(z)' => p = z
                      /\ \A p \in Runs : Active(p)' => stage' = "running"
                      /\ \A p, z \in Runs : Marking(p)' => ~Active(z)'
                      /\ \A t \in {sweep, boot} : th'[t].pc # "block"
    BY DEF OneAtATime, sweep, boot
  <2>1. Driving(r)
    BY <1>8 DEF AllDriven, Driving
  <2>2. /\ \A p \in Runs : Driving(p) => p = r
        /\ \A p \in Runs : ~Active(p)
        /\ \A t \in {sweep, boot} : th[t].pc # "block"
    BY <1>8, <2>1 DEF FlowInv, OneAtATime
  <2>3. \A t \in {sweep, boot} : th'[t].pc # "block"
    BY <1>4, <2>2, ThreadNames
  <2> QED BY <1>9, <2>2, <2>3
<1>11. OneInAll => OneInAll'
  <2> SUFFICES ASSUME OneInAll, orch = "live", AllDriven
               PROVE  FALSE
    BY <1>8 DEF OneInAll
  <2> QED BY DEF OneInAll
<1> QED BY <1>5, <1>7, <1>10, <1>11 DEF FlowKept, FlowInv

LEMMA FlowAfter ==
    ASSUME IInv, FlowInv, NEW r \in Runs, AfterStage(r)
    PROVE  FlowKept
<1>1. /\ sup(r) \in Thread /\ th[sup(r)].pc = "after" /\ Awake(sup(r))
      /\ UNCHANGED <<run, server, left>>
  BY ThreadNames DEF AfterStage, Awake
<1>2. CASE \E s : EndDrive(sup(r), s)
  BY <1>1, <1>2, EndDriveKeeps
<1>3. CASE /\ run[r].status = "failed" /\ stage = "pending"
           /\ \E q \in Runs :
                /\ Next_id(q)
                /\ th' = [th EXCEPT ![sup(r)] = Idle,
                                    ![sup(q)] = [Idle EXCEPT !.pc = "mark", !.adv = TRUE]]
           /\ UNCHANGED <<stage, orch>>
  BY <1>1, <1>3, FlowAgain
<1> QED BY <1>2, <1>3 DEF AfterStage

-----------------------------------------------------------------------------
(* The steps of the others that bring nothing new.                          *)
LEMMA FlowChildren ==
    ASSUME IInv, FlowInv, NEW t \in Thread, _fail_in_flight_children(t)
    PROVE  FlowKept
<1>1. th[t].pc = "children" /\ Awake(t) /\ StatusKept /\ UNCHANGED <<stage, orch, server>>
  BY DEF _fail_in_flight_children, Awake, StatusKept
<1>2. CASE th[t].todo = {}
  <2> DEFINE x == [Idle EXCEPT !.pc = AfterChildren(t)]
  <2>1. Plain(x)
    BY DEF Plain, Idle, AfterChildren
  <2>2. th' = [th EXCEPT ![t] = x]
    BY <1>2 DEF _fail_in_flight_children
  <2> HIDE DEF x
  <2>3. Gentle(t, x)
    BY <1>1, <2>1, PlainGentle
  <2> QED BY <1>1, <2>2, <2>3, FlowTurn
<1>3. CASE th[t].todo # {}
  <2>1. PICK r \in th[t].todo, mute \in Unanswered :
          \/ th' = [th EXCEPT ![t] = Fail(t, r, FALSE, Seen(r, mute), "children")]
          \/ th' = [th EXCEPT ![t] = Skip(t, r)]
    BY <1>3 DEF _fail_in_flight_children
  <2>2. Gentle(t, Fail(t, r, FALSE, Seen(r, mute), "children")) /\ Gentle(t, Skip(t, r))
    BY <1>1, FailGentle, SkipGentle
  <2> QED BY <1>1, <2>1, <2>2, FlowTurn
<1> QED BY <1>2, <1>3

LEMMA FlowOutside ==
    ASSUME IInv, FlowInv, NEW r \in Runs,
           AgentExits(r) \/ renew_agent_run_lease(r) \/ LeaseLapses(r) \/ RenewalMissed(r)
    PROVE  FlowKept
<1>1. UNCHANGED <<th, stage, orch, server>>
  BY DEF AgentExits, renew_agent_run_lease, LeaseLapses, RenewalMissed
<1>2. StatusKept
  <2>1. CASE UNCHANGED run
    BY <2>1 DEF StatusKept
  <2>2. CASE \E b : run' = [run EXCEPT ![r].fresh = b]
    BY <2>2, FieldFlows
  <2> QED BY <2>1, <2>2 DEF AgentExits, renew_agent_run_lease, LeaseLapses, RenewalMissed
<1> QED BY <1>1, <1>2, FlowStill DEF ServerGentle

LEMMA FlowWeb ==
    ASSUME IInv, FlowInv,
           (\E r \in Runs : request_cancel(r)) \/ stop_detached_process \/ EndFromOutside
    PROVE  FlowKept
<1>1. web \in Thread /\ Awake(web)
  BY ThreadNames DEF Awake, web, sweep
<1>2. ASSUME NEW r \in Runs, request_cancel(r)
      PROVE  FlowKept
  <2> DEFINE x == [Idle EXCEPT !.pc = "signal", !.run = r]
  <2>1. Plain(x)
    BY DEF Plain, Idle
  <2>2. th' = [th EXCEPT ![web] = x] /\ UNCHANGED <<stage, orch, server>>
    BY <1>2 DEF request_cancel
  <2>3. StatusKept
    BY <1>2, FieldFlows DEF request_cancel
  <2> HIDE DEF x
  <2>4. Gentle(web, x)
    BY <1>1, <2>1, PlainGentle
  <2> QED BY <1>1, <2>2, <2>3, <2>4, FlowTurn
<1>3. CASE stop_detached_process
  <2>1. th' = [th EXCEPT ![web] = Idle] /\ UNCHANGED <<run, stage, orch, server>>
    BY <1>3 DEF stop_detached_process
  <2> QED BY <1>1, <2>1, IdleGentle, FlowTurn DEF StatusKept
<1>4. CASE EndFromOutside
  BY <1>1, <1>4, EndDriveKeeps DEF EndFromOutside
<1> QED BY <1>2, <1>3, <1>4

LEMMA FlowResupervisor ==
    ASSUME IInv, FlowInv, NEW r \in Runs, Resupervise(r)
    PROVE  FlowKept
<1>1. res(r) \in Thread /\ th[res(r)].pc # "idle" /\ UNCHANGED <<stage, orch, server>>
  BY ThreadNames DEF Resupervise, _supervise_until_gone, _claim_settlement
<1>2. CASE _supervise_until_gone(r)
  <2>1. StatusKept /\ Goto(res(r), "seize") /\ "seize" \in PlainPc \ {"mark", "insert"}
    BY <1>2 DEF StatusKept, _supervise_until_gone, PlainPc, Pc, Settling
  <2> QED BY <1>1, <2>1, GotoGentle, FlowTurn
<1>3. CASE _claim_settlement(r)
  <2>1. StatusKept
    <3>1. CASE UNCHANGED run
      BY <3>1 DEF StatusKept
    <3>2. CASE run' = [run EXCEPT ![r].finished = TRUE]
      BY <3>2, FieldFlows
    <3> QED BY <1>3, <3>1, <3>2 DEF _claim_settlement
  <2>2. CASE th' = [th EXCEPT ![res(r)] = Idle]
    BY <1>1, <2>1, <2>2, IdleGentle, FlowTurn
  <2>3. ASSUME NEW v, th' = [th EXCEPT ![res(r)] = Complete(res(r), r, v, TRUE, "none", "idle")]
        PROVE  FlowKept
    <3>1. Gentle(res(r), Complete(res(r), r, v, TRUE, "none", "idle"))
      BY <1>1, CompleteGentle
    <3> QED BY <1>1, <2>1, <2>3, <3>1, FlowTurn
  <2> QED BY <1>3, <2>2, <2>3 DEF _claim_settlement
<1> QED BY <1>2, <1>3 DEF Resupervise

LEMMA FlowSweep ==
    ASSUME IInv, FlowInv, reconcile_once \/ Sweep
    PROVE  FlowKept
<1>1. sweep \in Thread /\ \A r \in Runs : sweep # sup(r)
  BY ThreadNames
<1>2. ASSUME NEW pc \in {"expired", "orphaned", "leases", "stranded"}, NEW S,
             th[sweep].pc # "idle" \/ Serving, UNCHANGED <<run, stage, orch, server>>,
             \/ th' = [th EXCEPT ![sweep] = [Idle EXCEPT !.pc = pc, !.todo = S]]
             \/ th' = [th EXCEPT ![sweep] = [Idle EXCEPT !.pc = pc]]
      PROVE  FlowKept
  <2> DEFINE x == [Idle EXCEPT !.pc = pc, !.todo = S]
             y == [Idle EXCEPT !.pc = pc]
  <2>1. x.pc = pc /\ x.back = "idle" /\ y.pc = pc /\ y.back = "idle"
    BY DEF Idle
  <2>2. th' = [th EXCEPT ![sweep] = x] \/ th' = [th EXCEPT ![sweep] = y]
    BY <1>2
  <2> HIDE DEF x, y
  <2>3. Gentle(sweep, x) /\ Gentle(sweep, y)
    BY <1>1, <1>2, <2>1 DEF Gentle
  <2> QED BY <1>1, <1>2, <2>2, <2>3, FlowTurn DEF StatusKept
<1>3. ASSUME NEW r, NEW adv, NEW saw, NEW b \in Callers, b # "after", th[sweep].pc = b,
             b # "idle", UNCHANGED <<run, stage, orch, server>>,
             \/ th' = [th EXCEPT ![sweep] = Fail(sweep, r, adv, saw, b)]
             \/ th' = [th EXCEPT ![sweep] = Skip(sweep, r)]
      PROVE  FlowKept
  <2>1. Gentle(sweep, Fail(sweep, r, adv, saw, b)) /\ Gentle(sweep, Skip(sweep, r))
    BY <1>1, <1>3, FailGentle, SkipGentle DEF Callers
  <2> QED BY <1>1, <1>3, <2>1, FlowTurn DEF StatusKept
<1>4. CASE reconcile_once
  BY <1>2, <1>4 DEF reconcile_once
<1>5. CASE settle_expired_agent_runs
  <2>1. /\ th[sweep].pc = "expired" /\ "expired" \in Callers
        /\ UNCHANGED <<run, stage, orch, server>>
    BY <1>5 DEF settle_expired_agent_runs, Callers
  <2>2. CASE th[sweep].todo = {}
    BY <1>2, <1>5, <2>1, <2>2 DEF settle_expired_agent_runs
  <2>3. CASE th[sweep].todo # {}
    <3>1. PICK r \in th[sweep].todo, mute \in Unanswered :
            \/ th' = [th EXCEPT ![sweep] = Fail(sweep, r, TRUE, Seen(r, mute), "expired")]
            \/ th' = [th EXCEPT ![sweep] = Skip(sweep, r)]
      BY <1>5, <2>3 DEF settle_expired_agent_runs
    <3> DEFINE saw == Seen(r, mute)
    <3>2. \/ th' = [th EXCEPT ![sweep] = Fail(sweep, r, TRUE, saw, "expired")]
          \/ th' = [th EXCEPT ![sweep] = Skip(sweep, r)]
      BY <3>1
    <3> HIDE DEF saw
    <3> QED BY <1>3, <2>1, <3>2
  <2> QED BY <2>2, <2>3
<1>6. CASE settle_orphaned_agent_runs
  <2>1. /\ th[sweep].pc = "orphaned" /\ "orphaned" \in Callers
        /\ UNCHANGED <<run, stage, orch, server>>
    BY <1>6 DEF settle_orphaned_agent_runs, Callers
  <2>2. CASE th[sweep].todo = {}
    BY <1>2, <1>6, <2>1, <2>2 DEF settle_orphaned_agent_runs
  <2>3. CASE th[sweep].todo # {}
    <3>1. PICK r \in th[sweep].todo, mute \in Unanswered :
            \/ th' = [th EXCEPT ![sweep] = Fail(sweep, r, FALSE, Seen(r, mute), "orphaned")]
            \/ th' = [th EXCEPT ![sweep] = Skip(sweep, r)]
      BY <1>6, <2>3 DEF settle_orphaned_agent_runs
    <3> QED BY <1>3, <2>1, <3>1
  <2> QED BY <2>2, <2>3
<1>7. CASE settle_expired_orchestration_leases
  <2>1. EndDrive(sweep, stage) /\ UNCHANGED <<run, server>> /\ Awake(sweep)
    BY <1>7 DEF settle_expired_orchestration_leases, Awake
  <2> QED BY <1>1, <2>1, EndDriveKeeps
<1>8. CASE NoLeaseExpired
  BY <1>2, <1>8 DEF NoLeaseExpired
<1> QED BY <1>4, <1>5, <1>6, <1>7, <1>8 DEF Sweep

LEMMA FlowServer ==
    ASSUME IInv, FlowInv, Drain \/ end_drain \/ Crash \/ Boot
    PROVE  FlowKept
<1>1. StatusKept /\ UNCHANGED <<stage, orch>>
  BY DEF StatusKept, Drain, end_drain, Crash, Boot
<1>2. CASE Drain \/ end_drain
  BY <1>1, <1>2, FlowStill DEF Drain, end_drain, ServerGentle
<1>3. CASE Crash
  <2>1. \A t \in Thread : th'[t] = Idle
    BY <1>3 DEF Crash
  <2>2. GentleStep /\ ServerGentle
    BY <2>1, IdleGentle, ThreadNames DEF GentleStep, ServerGentle, Idle
  <2> QED BY <1>1, <2>2, GentleKeeps
<1>4. CASE Boot
  <2> DEFINE x == [Idle EXCEPT !.pc = "reattach"]
  <2>1. Plain(x)
    BY DEF Plain, Idle
  <2>2. th' = [th EXCEPT ![boot] = x] /\ server \in {"down", "booting"}
    BY <1>4 DEF Boot
  <2> HIDE DEF x
  <2>3. boot \in Thread /\ Gentle(boot, x)
    BY <2>1, ThreadNames, BootAlone, PlainGentle DEF Awake
  <2>4. GentleStep
    BY <2>2, <2>3 DEF GentleStep, IInv, TypeOK
  <2> QED BY <1>1, <2>2, <2>4, GentleKeeps DEF ServerGentle
<1> QED BY <1>2, <1>3, <1>4

LEMMA FlowReattach ==
    ASSUME IInv, FlowInv, reattach_surviving_runs
    PROVE  FlowKept
<1>1. PICK M \in Mutes :
        LET alive == {r \in InFlight : liveness(r, r \in M) = "alive"} IN
        /\ run' = [r \in Runs |-> [run[r] EXCEPT !.fresh = @ \/ r \in alive]]
        /\ th' = [t \in Thread |->
             IF t = boot THEN [Idle EXCEPT !.pc = "interrupted"]
             ELSE IF t[1] = "res" /\ t[2] \in alive
                  THEN [Idle EXCEPT !.pc = "follow", !.run = t[2]]
             ELSE th[t]]
  BY DEF reattach_surviving_runs
<1> DEFINE alive == {r \in InFlight : liveness(r, r \in M) = "alive"}
           follow(t) == [Idle EXCEPT !.pc = "follow", !.run = t[2]]
           back == [Idle EXCEPT !.pc = "interrupted"]
<1>2. /\ run' = [r \in Runs |-> [run[r] EXCEPT !.fresh = @ \/ r \in alive]]
      /\ th' = [t \in Thread |-> IF t = boot THEN back
                                 ELSE IF t[1] = "res" /\ t[2] \in alive THEN follow(t)
                                 ELSE th[t]]
  BY <1>1
<1>3. Plain(back) /\ \A t \in Thread : Plain(follow(t))
  BY DEF Plain, Idle
<1> HIDE DEF alive, follow, back
<1>4. StatusKept
  BY <1>2 DEF StatusKept, IInv, TypeOK, Row
<1>5. \A t \in Thread : t[1] = "res" => Awake(t)
  BY DEF Awake, sup, sweep
<1>6. Awake(boot)
  BY ThreadNames, BootAlone DEF Awake
<1>7. GentleStep
  <2> SUFFICES ASSUME NEW t \in Thread
               PROVE  th'[t] = th[t] \/ Gentle(t, th'[t])
    BY DEF GentleStep
  <2>1. CASE t = boot
    <3>1. th'[t] = back
      BY <1>2, <2>1
    <3> QED BY <1>3, <1>6, <2>1, <3>1, PlainGentle
  <2>2. CASE t # boot /\ t[1] = "res" /\ t[2] \in alive
    <3>1. th'[t] = follow(t)
      BY <1>2, <2>2
    <3> QED BY <1>3, <1>5, <2>2, <3>1, PlainGentle
  <2>3. CASE t # boot /\ ~(t[1] = "res" /\ t[2] \in alive)
    BY <1>2, <2>3
  <2> QED BY <2>1, <2>2, <2>3
<1>8. UNCHANGED <<stage, orch, server>>
  BY DEF reattach_surviving_runs
<1> QED BY <1>4, <1>7, <1>8, GentleKeeps DEF ServerGentle

LEMMA FlowRestart ==
    ASSUME IInv, FlowInv, fail_interrupted_runs \/ fail_interrupted_orchestration_runs
    PROVE  FlowKept
<1>1. boot \in Thread /\ th[boot] \in Local /\ th[boot].pc \in {"interrupted", "parents"}
  BY ThreadNames DEF IInv, TypeOK, fail_interrupted_runs, fail_interrupted_orchestration_runs
<1>2. Awake(boot) /\ UNCHANGED <<run, server>> /\ StatusKept
  BY <1>1 DEF Awake, StatusKept, fail_interrupted_runs, fail_interrupted_orchestration_runs
<1>3. CASE \E s : EndDrive(boot, s)
  BY <1>1, <1>2, <1>3, EndDriveKeeps
<1>4. ASSUME NEW x, UNCHANGED <<stage, orch>>, th' = [th EXCEPT ![boot] = x], Plain(x)
      PROVE  FlowKept
  BY <1>1, <1>2, <1>4, PlainGentle, FlowTurn
<1>5. CASE fail_interrupted_runs
  <2>1. UNCHANGED <<stage, orch>>
    BY <1>5 DEF fail_interrupted_runs
  <2>2. ASSUME NEW S, th' = [th EXCEPT ![boot].todo = S, ![boot].back = "interrupted"],
               th[boot].pc = "interrupted"
        PROVE  FlowKept
    <3> DEFINE x == [th[boot] EXCEPT !.todo = S, !.back = "interrupted"]
    <3>1. x.pc = "interrupted" /\ x.back = "interrupted"
      BY <1>1, <2>2 DEF Local
    <3>2. th' = [th EXCEPT ![boot] = x]
      BY <1>1, <2>2 DEF IInv, TypeOK, Local
    <3> HIDE DEF x
    <3>3. Plain(x)
      BY <3>1 DEF Plain
    <3> QED BY <1>4, <2>1, <3>2, <3>3
  <2>3. ASSUME NEW r, th' = [th EXCEPT ![boot] = Fail(boot, r, TRUE, Seen(r, FALSE), "interrupted")]
        PROVE  FlowKept
    <3>1. Gentle(boot, Fail(boot, r, TRUE, Seen(r, FALSE), "interrupted"))
      BY <1>1, FailGentle
    <3> QED BY <1>1, <1>2, <2>1, <2>3, <3>1, FlowTurn
  <2>4. CASE th' = [th EXCEPT ![boot] = [Idle EXCEPT !.pc = "parents"]]
    <3>1. Plain([Idle EXCEPT !.pc = "parents"])
      BY DEF Plain, Idle
    <3> QED BY <1>4, <2>1, <2>4, <3>1
  <2> QED BY <1>5, <2>2, <2>3, <2>4 DEF fail_interrupted_runs
<1>6. CASE fail_interrupted_orchestration_runs
  <2>1. CASE /\ th' = [th EXCEPT ![boot] = [Idle EXCEPT !.pc = "stranded"]]
             /\ UNCHANGED <<stage, orch>>
    <3>1. Plain([Idle EXCEPT !.pc = "stranded"])
      BY DEF Plain, Idle
    <3> QED BY <1>4, <2>1, <3>1
  <2> QED BY <1>3, <1>6, <2>1 DEF fail_interrupted_orchestration_runs
<1> QED BY <1>5, <1>6

-----------------------------------------------------------------------------
(* A stage found stranded has no orchestration, and is running; the sweep   *)
(* and the boot never look at once.                                         *)
LEMMA FlowStranded ==
    ASSUME IInv, FlowInv, BootInv, NEW t \in {sweep, boot}, Strand(t)
    PROVE  FlowKept
<1>1. t \in Thread /\ th[t].pc \in {"stranded", "block"} /\ th[t] \in Local
  BY ThreadNames DEF Strand, settle_stranded_stages, BlockStranded, IInv, TypeOK
<1>2. server' # server => t = boot /\ server' = "up"
  BY DEF Strand, settle_stranded_stages, BlockStranded
<1>3. UNCHANGED <<run, orch, left>> /\ StatusKept
  BY DEF Strand, settle_stranded_stages, BlockStranded, StatusKept
<1>4. CASE settle_stranded_stages(t) /\ ~Stranded
  <2>1. Goto(t, "idle") /\ "idle" \in PlainPc \ {"mark", "insert"} /\ UNCHANGED stage
    BY <1>4 DEF settle_stranded_stages, PlainPc, Pc, Settling
  <2>2. /\ th' = [th EXCEPT ![t] = [th[t] EXCEPT !.pc = "idle"]]
        /\ Gentle(t, [th[t] EXCEPT !.pc = "idle"])
    BY <1>1, <2>1, GotoGentle
  <2>3. GentleStep
    BY <1>1, <2>2 DEF GentleStep, IInv, TypeOK
  <2> QED BY <1>2, <1>3, <2>1, <2>3, GentleKeeps DEF ServerGentle
<1>5. CASE settle_stranded_stages(t) /\ Stranded
  <2> DEFINE x == [th[t] EXCEPT !.pc = "block"]
  <2>1. x.pc = "block" /\ x.back = th[t].back
    BY <1>1 DEF Local
  <2>2. th' = [th EXCEPT ![t] = x] /\ UNCHANGED stage /\ th[t].pc = "stranded"
    BY <1>1, <1>5 DEF settle_stranded_stages, Goto, IInv, TypeOK
  <2> HIDE DEF x
  <2>3. th'[t] = x /\ \A u \in Thread : u # t => th'[u] = th[u]
    BY <1>1, <2>2 DEF IInv, TypeOK
  <2>4. stage = "running" /\ orch # "live"
    BY <1>5 DEF Stranded
  <2>5. SweepServes' /\ SuccessAdvances'
    BY <1>2, <2>1, <2>2, <2>3, ThreadNames DEF FlowInv, SweepServes, SuccessAdvances, sweep
  <2>6. \A q \in Runs : th'[sup(q)] = th[sup(q)]
    BY <1>1, <2>3, ThreadNames
  <2>7. NoDriveYet'
    <3>1. \A u \in Thread : th[u].pc # "after" /\ th[u].back # "after" =>
                            th'[u].pc # "after" /\ th'[u].back # "after"
      BY <2>1, <2>3
    <3>2. \A q \in Runs : (Marking(q)' <=> Marking(q)) /\ (Inserting(q)' <=> Inserting(q))
      BY <2>6 DEF Marking, Inserting, sup
    <3> QED BY <1>3, <2>2, <2>4, <3>1, <3>2 DEF FlowInv, NoDriveYet
  <2> QED BY <1>3, <2>4, <2>5, <2>7 DEF FlowKept, FlowInv, OneAtATime, OneInAll
<1>6. CASE BlockStranded(t)
  <2>1. /\ th[t].pc = "block" /\ stage' = "blocked" /\ th' = [th EXCEPT ![t] = Idle]
        /\ server' = IF t = boot THEN "up" ELSE server
    BY <1>6 DEF BlockStranded
  <2>2. th'[t] = Idle /\ \A u \in Thread : u # t => th'[u] = th[u]
    BY <1>1, <2>1 DEF IInv, TypeOK
  <2>3. \A u \in {sweep, boot} : th'[u].pc # "block"
    <3>1. sweep # boot /\ sweep \in Thread /\ boot \in Thread
      BY ThreadNames, BootAlone
    <3>2. th[sweep].pc = "idle" \/ th[boot].pc = "idle"
      BY DEF BootInv, Hushed, FlowInv, SweepServes
    <3> QED BY <2>1, <2>2, <3>1, <3>2 DEF Idle
  <2>4. GentleStep /\ ServerGentle
    BY <1>1, <1>2, <2>2, IdleGentle DEF GentleStep, ServerGentle
  <2>5. SweepServes' /\ SuccessAdvances'
    BY <2>4, GentleThreads
  <2>6. AllDriven' <=> AllDriven
    BY <1>3 DEF AllDriven
  <2>7. orch = "live" => ~AllDriven
    BY <2>1 DEF FlowInv, OneAtATime
  <2>8. Narrower
    BY <1>3, <2>4, GentleNarrower DEF SameRows
  <2>9. NoDriveYet'
    <3> SUFFICES ASSUME orch = "none"
                 PROVE  /\ \A q \in Runs : ~Marking(q)' /\ ~Inserting(q)'
                        /\ \A q \in Runs : ~run'[q].driven
                        /\ \A u \in Thread : th'[u].pc # "after" /\ th'[u].back # "after"
      BY <1>3, <2>3 DEF NoDriveYet, sweep, boot
    <3> QED BY <1>3, <2>8 DEF FlowInv, NoDriveYet, Narrower
  <2> QED BY <1>3, <2>5, <2>6, <2>7, <2>9 DEF FlowKept, FlowInv, OneAtATime, OneInAll
<1> QED BY <1>4, <1>5, <1>6 DEF Strand

-----------------------------------------------------------------------------
(* The completion of a run.                                                 *)
(* The claim: the run was in flight, and is being decided now.              *)
LEMMA FlowClaim ==
    ASSUME IInv, FlowInv, NEW t \in Thread, claim_completion(t)
    PROVE  FlowKept
<1>1. /\ th[t] \in Local /\ th[t].pc = "claim" /\ th[t].run \in Runs /\ th[t].verdict \in Verdicts
      /\ th \in [Thread -> Local] /\ run \in [Runs -> Row]
  BY DEF IInv, TypeOK, Busy, Settling, claim_completion
<1> DEFINE r == th[t].run
<1>2. UNCHANGED <<stage, orch, server, left>>
  BY DEF claim_completion
<1>3. CASE run[r].status # "running"
  <2>1. th' = [th EXCEPT ![t] = Return(t)] /\ StatusKept
    BY <1>3 DEF claim_completion, StatusKept
  <2>2. Gentle(t, Return(t))
    BY <1>1, ReturnGentle
  <2> QED BY <1>2, <2>1, <2>2, FlowTurn
<1>4. CASE run[r].status = "running"
  <2> DEFINE x == [th[t] EXCEPT !.pc = "tail"]
  <2>1. /\ x.pc = "tail" /\ x.run = r /\ x.verdict = th[t].verdict /\ x.adv = th[t].adv
        /\ x.back = th[t].back
    BY <1>1 DEF Local
  <2>2. th' = [th EXCEPT ![t] = x]
    BY <1>1, <1>4 DEF claim_completion, Goto
  <2>3. run' = [run EXCEPT ![r].status = th[t].verdict, ![r].finished = TRUE]
    BY <1>4 DEF claim_completion
  <2> HIDE DEF x
  <2>4. th'[t] = x /\ \A u \in Thread : u # t => th'[u] = th[u]
    BY <1>1, <2>2
  <2>5. /\ run'[r].status = th[t].verdict /\ run'[r].driven = run[r].driven
        /\ \A q \in Runs : q # r => run'[q] = run[q]
    BY <1>1, <2>3 DEF Row
  <2>6. SameRows
    BY <1>1, <1>4, <2>5 DEF SameRows, Verdicts
  <2>7. SweepServes' /\ SuccessAdvances'
    BY <1>1, <1>2, <2>1, <2>4, ThreadNames DEF FlowInv, SweepServes, SuccessAdvances, sweep
  <2>8. ASSUME NEW q \in Runs
        PROVE  /\ Marking(q)' => Marking(q)
               /\ Inserting(q)' => Inserting(q)
               /\ Driving(q)' => Driving(q)
               /\ Active(q)' => Active(q)
    <3>1. sup(q) \in Thread
      BY ThreadNames
    <3>2. Marking(q)' => Marking(q)
      BY <2>1, <2>4, <3>1 DEF Marking, sup
    <3>3. Inserting(q)' => Inserting(q)
      BY <2>1, <2>4, <3>1 DEF Inserting, sup
    <3>4. th'[sup(q)].pc # "idle" => th[sup(q)].pc # "idle"
      BY <1>1, <2>4, <3>1
    <3>5. Driving(q)' => Driving(q)
      BY <2>6, <3>2, <3>3, <3>4 DEF Driving, SameRows, sup
    <3>6. Deciding(q)' => Deciding(q) \/ q = r
      BY <2>1, <2>4 DEF Deciding
    <3>7. Active(q)' => Active(q)
      BY <1>4, <2>5, <3>3, <3>6 DEF Active
    <3> QED BY <3>2, <3>3, <3>5, <3>7
  <2>9. Narrower
    <3>1. \A u \in {sweep, boot} : th'[u].pc = "block" => th[u].pc = "block"
      BY <2>1, <2>4, ThreadNames
    <3>2. \A u \in Thread : "after" \in {th'[u].pc, th'[u].back} =>
                              orch # "none" \/ "after" \in {th[u].pc, th[u].back}
      BY <2>1, <2>4
    <3> QED BY <2>8, <3>1, <3>2 DEF Narrower
  <2>10. ASSUME orch = "live", AllDriven
         PROVE  stage = "running"
    BY <1>1, <1>4, <2>10 DEF FlowInv, OneAtATime, Active
  <2> QED BY <1>2, <2>6, <2>7, <2>9, <2>10, NarrowKeeps
<1> QED BY <1>3, <1>4

(* The last of what was active says where the stage goes.                   *)
LEMMA Decided ==
    ASSUME IInv, FlowInv, NEW t \in Thread, th[t].pc \in InTail, NEW x,
           th' = [th EXCEPT ![t] = x], Gentle(t, x), x.pc \notin {"tail", "route"},
           UNCHANGED <<run, orch, server>>, stage' # "running",
           th[t].pc = "announce" => left["raise"] # 0,
           left["retry"] = 0 /\ stage' = "pending" => th[t].verdict # "failed",
           Steady
    PROVE  FlowKept
<1>1. PICK r \in Runs : /\ r = th[t].run
                        /\ run[r].status = th[t].verdict /\ th[t].verdict \in Verdicts
  BY SettledRow
<1>2. th'[t] = x /\ \A u \in Thread : u # t => th'[u] = th[u]
  BY DEF IInv, TypeOK
<1>3. GentleStep /\ ServerGentle
  BY DEF GentleStep, ServerGentle, IInv, TypeOK
<1>4. SweepServes' /\ SuccessAdvances'
  BY <1>3, GentleThreads
<1>5. Narrower /\ SameRows
  BY <1>3, GentleNarrower DEF SameRows
<1>6. AllDriven' <=> AllDriven
  BY <1>5, SameRowsDriven
<1>7. NoDriveYet'
  <2> SUFFICES ASSUME orch = "none"
               PROVE  /\ \A q \in Runs : ~Marking(q)' /\ ~Inserting(q)'
                      /\ \A q \in Runs : ~run'[q].driven
                      /\ \A u \in Thread : th'[u].pc # "after" /\ th'[u].back # "after"
                      /\ ~AllDriven'
    BY DEF NoDriveYet, sweep, boot
  <2>1. ~AllDriven
    BY <1>1 DEF AllDriven, FlowInv, NoDriveYet, Verdicts
  <2> QED BY <1>5, <1>6, <2>1 DEF FlowInv, NoDriveYet, Narrower
<1>8. ~Inserting(r) /\ run[r].status # "running"
  BY <1>1 DEF Inserting, IInv, Rowless, Early, Verdicts
<1>9. ASSUME orch = "live", AllDriven, NEW q \in Runs
      PROVE  ~Active(q)'
  <2>1. ASSUME q = r, Deciding(q)'
        PROVE  FALSE
    <3>1. PICK u \in Thread : th'[u].pc \in {"tail", "route"} /\ th'[u].run = r
      BY <2>1 DEF Deciding
    <3>2. u # t
      BY <1>2, <3>1
    <3> QED BY <1>1, <1>2, <2>1, <3>1, <3>2 DEF IInv, Alone, InTail
  <2>2. Active(r)' => Deciding(r)'
    BY <1>5, <1>8 DEF Active, Narrower
  <2>3. Active(q)' => Active(q)
    BY <1>5 DEF Narrower
  <2>4. CASE th[t].pc \in {"tail", "route"}
    <3>1. Active(r)
      BY <1>1, <2>4 DEF Active, Deciding
    <3>2. Active(q) => q = r
      BY <1>1, <1>9, <3>1 DEF FlowInv, OneAtATime
    <3> QED BY <2>1, <2>2, <2>3, <3>2
  <2>5. CASE th[t].pc = "announce"
    <3>1. OneInAll
      BY <2>5 DEF Steady
    <3>2. run[r].status # "none"
      BY <1>1 DEF Verdicts
    <3>3. ~Inserting(q) /\ (run[q].status # "none" => q = r)
      BY <1>1, <1>9, <3>1, <3>2 DEF OneInAll
    <3>4. Active(q) => q = r
      BY <3>3, ActiveRow
    <3> QED BY <2>1, <2>2, <2>3, <3>4
  <2> QED BY <2>4, <2>5 DEF InTail
<1>10. OneAtATime'
  <2> SUFFICES ASSUME orch = "live", AllDriven
               PROVE  /\ \A p, q \in Runs : Driving(p)' /\ Driving(q)' => p = q
                      /\ \A p \in Runs : ~Active(p)'
                      /\ \A u \in {sweep, boot} : th'[u].pc # "block"
    BY <1>6 DEF OneAtATime, sweep, boot
  <2> QED BY <1>5, <1>9 DEF FlowInv, OneAtATime, Narrower
<1>11. left["retry"] = 0 /\ OneInAll => OneInAll'
  <2> SUFFICES ASSUME left["retry"] = 0, OneInAll, orch = "live", AllDriven
               PROVE  /\ \A p, q \in Runs :
                           run'[p].status # "none" /\ run'[q].status # "none" => p = q
                      /\ \A p, q \in Runs :
                           run'[p].status # "none" => ~Marking(q)' /\ ~Inserting(q)'
                      /\ \A p \in Runs : run'[p].status = "failed" => stage' # "pending"
    BY <1>6 DEF OneInAll
  <2>1. \A p \in Runs : run[p].status # "none" => p = r
    BY <1>1 DEF OneInAll, Verdicts
  <2>2. \A p \in Runs : run'[p].status = "failed" => stage' # "pending"
    BY <1>1, <2>1
  <2> QED BY <1>5, <2>2 DEF OneInAll, Narrower
<1> QED BY <1>4, <1>7, <1>10, <1>11 DEF FlowKept, FlowInv

LEMMA FlowSettle ==
    ASSUME IInv, FlowInv, Steady, NEW t \in Thread, Settle(t)
    PROVE  FlowKept
<1>1. th[t] \in Local /\ th \in [Thread -> Local]
  BY DEF IInv, TypeOK
<1>2. CASE _stop_if_already_settled(t)
  <2>1. PICK pc \in {"announce", "route"} : Goto(t, pc)
    BY <1>2 DEF _stop_if_already_settled
  <2>2. th[t].pc = "tail" /\ UNCHANGED <<run, stage, orch, server>>
    BY <1>2 DEF _stop_if_already_settled
  <2>3. pc \in PlainPc \ {"mark", "insert"} \/ pc = "route"
    BY <2>1 DEF PlainPc, Pc, Settling
  <2> QED BY <2>1, <2>2, <2>3, GotoGentle, FlowTurn DEF StatusKept
<1>3. CASE advance_stage_after_run(t)
  <2>1. /\ th[t].pc = "route" /\ Goto(t, "announce") /\ UNCHANGED <<run, orch, server>>
        /\ stage' # "running"
        /\ left["retry"] = 0 /\ stage' = "pending" => th[t].verdict # "failed"
    BY <1>3 DEF advance_stage_after_run, Spend
  <2>2. "announce" \in PlainPc \ {"mark", "insert"}
    BY DEF PlainPc, Pc, Settling
  <2> DEFINE x == [th[t] EXCEPT !.pc = "announce"]
  <2>3. th' = [th EXCEPT ![t] = x] /\ Gentle(t, x) /\ x.pc = "announce"
    BY <1>1, <2>1, <2>2, GotoGentle DEF Local
  <2> HIDE DEF x
  <2> QED BY <2>1, <2>3, Decided DEF InTail
<1>4. CASE complete_run_tail(t)
  <2>1. /\ th[t].pc = "announce" /\ th' = [th EXCEPT ![t] = Return(t)]
        /\ UNCHANGED <<run, stage, orch, server>>
    BY <1>4 DEF complete_run_tail
  <2> QED BY <2>1, ReturnGentle, FlowTurn DEF StatusKept
<1>5. CASE settle_stage_after_failed_completion(t)
  <2>1. /\ th[t].pc \in InTail /\ th' = [th EXCEPT ![t] = Return(t)]
        /\ UNCHANGED <<run, orch, server>> /\ stage' \in {"blocked", stage} /\ left["raise"] # 0
    BY <1>5 DEF settle_stage_after_failed_completion, Spend, InTail, IInv, TypeOK, Events
  <2>2. Gentle(t, Return(t)) /\ Return(t).pc \notin {"tail", "route"}
    <3>1. Return(t).pc = th[t].back
      BY <1>1 DEF Return, Local, Idle
    <3> QED BY <1>1, <2>1, <3>1, ReturnGentle DEF Local, Callers, InTail
  <2>3. CASE UNCHANGED stage
    BY <2>1, <2>2, <2>3, FlowTurn DEF StatusKept
  <2>4. CASE stage' = "blocked"
    BY <2>1, <2>2, <2>4, Decided
  <2> QED BY <2>1, <2>3, <2>4
<1> QED BY <1>2, <1>3, <1>4, <1>5, FlowClaim DEF Settle

LEMMA FlowNext == ASSUME IInv, FlowInv, Steady, BootInv, Next PROVE FlowKept
<1>1. ASSUME NEW r \in Runs, start_run_async(r) \/ start_orchestration_run(r)
      PROVE  FlowKept
  BY <1>1, FlowDispatch, FlowDrive
<1>2. ASSUME NEW r \in Runs, Supervise(r) \/ NotAdmitted(r)
      PROVE  FlowKept
  BY <1>2, FlowDispatch, FlowMark, FlowInsert, FlowStart, FlowSupervisor, FlowAfter
     DEF Supervise
<1>3. ASSUME NEW r \in Runs, Resupervise(r)
      PROVE  FlowKept
  BY <1>3, FlowResupervisor
<1>4. ASSUME NEW r \in Runs,
             AgentExits(r) \/ renew_agent_run_lease(r) \/ LeaseLapses(r) \/ RenewalMissed(r)
      PROVE  FlowKept
  BY <1>4, FlowOutside
<1>5. CASE (\E r \in Runs : request_cancel(r)) \/ stop_detached_process \/ EndFromOutside
  BY <1>5, FlowWeb
<1>6. ASSUME NEW t \in Thread, Settle(t) \/ _fail_in_flight_children(t)
      PROVE  FlowKept
  BY <1>6, FlowSettle, FlowChildren
<1>7. ASSUME NEW t \in {sweep, boot}, Strand(t)
      PROVE  FlowKept
  BY <1>7, FlowStranded
<1>8. CASE reconcile_once \/ Sweep
  BY <1>8, FlowSweep
<1>9. CASE Restart
  BY <1>9, FlowReattach, FlowRestart DEF Restart
<1>10. CASE Drain \/ end_drain \/ Crash \/ Boot
  BY <1>10, FlowServer
<1> QED
  BY <1>1, <1>2, <1>3, <1>4, <1>5, <1>6, <1>7, <1>8, <1>9, <1>10 DEF Next

-----------------------------------------------------------------------------
(* A budget that is spent stays so.                                         *)
Spent == \A e \in {"raise", "retry"} : left[e] = 0 => left'[e] = 0

LEMMA SpentKept ==
    ASSUME IInv, (\E e \in Events : Spend(e)) \/ (\E mute : Asked(mute)) \/ UNCHANGED left
    PROVE  Spent
<1>1. left \in [Events -> Nat] /\ {"raise", "retry", "mute"} \subseteq Events
  BY DEF IInv, TypeOK, Events
<1>2. ASSUME NEW e \in Events, Spend(e)
      PROVE  Spent
  BY <1>1, <1>2 DEF Spend, Spent
<1>3. ASSUME NEW mute, Asked(mute)
      PROVE  Spent
  <2>1. UNCHANGED left \/ left' = [left EXCEPT !["mute"] = @ - 1]
    BY <1>3 DEF Asked
  <2> QED BY <1>1, <2>1 DEF Spent
<1> QED BY <1>2, <1>3 DEF Spent

LEMMA SpentNext == ASSUME IInv, Next PROVE Spent
<1>1. {"start", "drive", "retry", "crash", "drain", "missed", "cancel", "over", "raise"}
        \subseteq Events
  BY DEF Events
<1>2. ASSUME NEW r \in Runs, start_run_async(r) \/ start_orchestration_run(r) \/ NotAdmitted(r)
      PROVE  Spent
  BY <1>1, <1>2, SpentKept DEF start_run_async, start_orchestration_run, NotAdmitted
<1>3. ASSUME NEW r \in Runs, Supervise(r)
      PROVE  Spent
  <2>1. (\E mute : Asked(mute)) \/ UNCHANGED left
    BY <1>3 DEF Supervise, Supersede, Mark, Insert, Admitted, ensure_still_in_flight, Spawn,
       record_process_identity, run_print_mode, AfterStage
  <2> QED BY <2>1, SpentKept
<1>4. ASSUME NEW r \in Runs, Resupervise(r)
      PROVE  Spent
  <2>1. (\E mute : Asked(mute)) \/ UNCHANGED left
    BY <1>4 DEF Resupervise, _supervise_until_gone, _claim_settlement
  <2> QED BY <2>1, SpentKept
<1>5. ASSUME NEW r \in Runs,
             \/ AgentExits(r) \/ renew_agent_run_lease(r) \/ LeaseLapses(r) \/ RenewalMissed(r)
             \/ request_cancel(r)
      PROVE  Spent
  BY <1>1, <1>5, SpentKept
     DEF AgentExits, renew_agent_run_lease, LeaseLapses, RenewalMissed, request_cancel
<1>6. ASSUME NEW t \in Thread, Settle(t)
      PROVE  Spent
  <2>1. Spend("retry") \/ Spend("raise") \/ UNCHANGED left
    BY <1>6 DEF Settle, claim_completion, _stop_if_already_settled, advance_stage_after_run,
       complete_run_tail, settle_stage_after_failed_completion
  <2> QED BY <1>1, <2>1, SpentKept
<1>7. ASSUME NEW t \in Thread, _fail_in_flight_children(t)
      PROVE  Spent
  <2>1. (\E mute : Asked(mute)) \/ UNCHANGED left
    BY <1>7 DEF _fail_in_flight_children
  <2> QED BY <2>1, SpentKept
<1>8. ASSUME NEW t, Strand(t)
      PROVE  Spent
  BY <1>8, SpentKept DEF Strand, settle_stranded_stages, BlockStranded
<1>9. CASE stop_detached_process \/ EndFromOutside \/ reconcile_once \/ Sweep
  <2>1. (\E mute : Asked(mute)) \/ Spend("over") \/ UNCHANGED left
    BY <1>9 DEF stop_detached_process, EndFromOutside, reconcile_once, Sweep,
       settle_expired_agent_runs, settle_orphaned_agent_runs,
       settle_expired_orchestration_leases, NoLeaseExpired
  <2> QED BY <1>1, <2>1, SpentKept
<1>10. CASE Restart
  <2>1. (\E M : Asked(M # {})) \/ UNCHANGED left
    BY <1>10 DEF Restart, reattach_surviving_runs, fail_interrupted_runs,
       fail_interrupted_orchestration_runs
  <2> QED BY <2>1, SpentKept
<1>11. CASE Drain \/ end_drain \/ Crash \/ Boot
  BY <1>1, <1>11, SpentKept DEF Drain, end_drain, Crash, Boot
<1> QED
  BY <1>2, <1>3, <1>4, <1>5, <1>6, <1>7, <1>8, <1>9, <1>10, <1>11 DEF Next

-----------------------------------------------------------------------------
LEMMA FlowInit == Init => FlowInv /\ OneInAll
<1> SUFFICES ASSUME Init PROVE FlowInv /\ OneInAll
  OBVIOUS
<1>1. \A t \in Thread : th[t].pc = "idle" /\ th[t].back = "idle"
  BY DEF Init, Idle
<1>2. \A r \in Runs : ~run[r].driven
  BY DEF Init, NoRow
<1>3. orch = "none" /\ server = "up"
  BY DEF Init
<1>4. NoDriveYet
  BY <1>1, <1>2, ThreadNames DEF NoDriveYet, Marking, Inserting
<1> QED
  BY <1>1, <1>3, <1>4
     DEF FlowInv, OneAtATime, OneInAll, SweepServes, SuccessAdvances

DriveInv == FlowInv /\ Steady

LEMMA DriveKept ==
    ASSUME IInv, BootInv, DriveInv, Next
    PROVE  DriveInv'
<1>1. FlowKept /\ Spent
  BY FlowNext, SpentNext DEF DriveInv
<1> QED BY <1>1 DEF DriveInv, FlowKept, Steady, Spent

LEMMA DriveStutter == ASSUME DriveInv, UNCHANGED vars PROVE DriveInv'
<1>1. FlowInv'
  BY DEF vars, DriveInv, FlowInv, OneAtATime, NoDriveYet, SweepServes, SuccessAdvances, AllDriven,
     Driving, Marking, Inserting, Active, Deciding, sup, sweep, boot
<1>2. Steady'
  BY DEF vars, DriveInv, Steady, OneInAll, AllDriven, Marking, Inserting, sup
<1> QED BY <1>1, <1>2 DEF DriveInv

(* Nothing but the tail takes a thread from the tail to its announcement.   *)
LEMMA OnlyTheTail ==
    ASSUME IInv, Next, NEW t \in Thread, th[t].pc = "tail", th'[t].pc = "announce"
    PROVE  _stop_if_already_settled(t)
<1>1. th \in [Thread -> Local] /\ th[t] \in Local
  BY DEF IInv, TypeOK
<1>2. ASSUME NEW u \in Thread, Only(u), th[u].pc # "tail"
      PROVE  FALSE
  BY <1>2 DEF Only
<1>3. ASSUME UNCHANGED th
      PROVE  FALSE
  BY <1>3
<1>4. ASSUME NEW r \in Runs, start_run_async(r) \/ start_orchestration_run(r) \/ NotAdmitted(r)
      PROVE  FALSE
  <2>1. sup(r) \in Thread /\ th[sup(r)].pc # "tail" /\ Only(sup(r))
    BY <1>1, <1>4, ThreadNames DEF Only, start_run_async, start_orchestration_run, NotAdmitted,
       Next_id, Unused, Idle, EndDrive
  <2> QED BY <1>2, <2>1
<1>5. ASSUME NEW r \in Runs, Supervise(r)
      PROVE  FALSE
  <2>1. CASE AfterStage(r)
    <3>1. sup(r) \in Thread /\ th[sup(r)].pc # "tail"
      BY <2>1, ThreadNames DEF AfterStage
    <3>2. CASE Only(sup(r))
      BY <1>2, <3>1, <3>2
    <3>3. ASSUME NEW q \in Runs, th[sup(q)] = Idle,
                 th' = [th EXCEPT ![sup(r)] = Idle,
                                  ![sup(q)] = [Idle EXCEPT !.pc = "mark", !.adv = TRUE]]
          PROVE  FALSE
      <4>1. t # sup(r) /\ t # sup(q)
        BY <3>1, <3>3 DEF Idle
      <4> QED BY <1>1, <3>3, <4>1
    <3> QED BY <1>1, <2>1, <3>1, <3>2, <3>3 DEF AfterStage, EndDrive, Only, Next_id, Unused
  <2>2. CASE ~AfterStage(r)
    <3>1. sup(r) \in Thread /\ th[sup(r)].pc # "tail"
      BY <1>5, <2>2, ThreadNames DEF Supervise, Supersede, Mark, Insert, Admitted,
         ensure_still_in_flight, Spawn, record_process_identity, run_print_mode
    <3>2. Only(sup(r))
      BY <1>1, <1>5, <2>2 DEF Only, Supervise, Supersede, Mark, Insert, Admitted,
         ensure_still_in_flight, Spawn, record_process_identity, run_print_mode, Goto, EndDrive
    <3> QED BY <1>2, <3>1, <3>2
  <2> QED BY <2>1, <2>2
<1>6. ASSUME NEW r \in Runs, Resupervise(r)
      PROVE  FALSE
  <2>1. res(r) \in Thread /\ th[res(r)].pc # "tail" /\ Only(res(r))
    BY <1>1, <1>6, ThreadNames DEF Only, Resupervise, _supervise_until_gone, _claim_settlement,
       Goto
  <2> QED BY <1>2, <2>1
<1>7. ASSUME NEW r \in Runs,
             AgentExits(r) \/ renew_agent_run_lease(r) \/ LeaseLapses(r) \/ RenewalMissed(r)
      PROVE  FALSE
  BY <1>3, <1>7 DEF AgentExits, renew_agent_run_lease, LeaseLapses, RenewalMissed
<1>8. ASSUME (\E r \in Runs : request_cancel(r)) \/ stop_detached_process \/ EndFromOutside
      PROVE  FALSE
  <2>1. web \in Thread /\ th[web].pc # "tail" /\ Only(web)
    BY <1>1, <1>8, ThreadNames DEF Only, request_cancel, stop_detached_process, EndFromOutside,
       EndDrive
  <2> QED BY <1>2, <2>1
<1>9. ASSUME NEW u \in Thread, _fail_in_flight_children(u) \/ (u \in {sweep, boot} /\ Strand(u))
      PROVE  FALSE
  <2>1. th[u].pc # "tail" /\ Only(u)
    BY <1>1, <1>9 DEF Only, _fail_in_flight_children, Strand, settle_stranded_stages,
       BlockStranded, Goto
  <2> QED BY <1>2, <2>1
<1>10. ASSUME reconcile_once \/ Sweep
       PROVE  FALSE
  <2>1. sweep \in Thread /\ th[sweep].pc # "tail" /\ Only(sweep)
    BY <1>1, <1>10, ThreadNames DEF Only, reconcile_once, Sweep, settle_expired_agent_runs,
       settle_orphaned_agent_runs, settle_expired_orchestration_leases, NoLeaseExpired, EndDrive
  <2> QED BY <1>2, <2>1
<1>11. ASSUME fail_interrupted_runs \/ fail_interrupted_orchestration_runs
       PROVE  FALSE
  <2>1. boot \in Thread /\ th[boot].pc # "tail" /\ Only(boot)
    BY <1>1, <1>11, ThreadNames DEF Only, fail_interrupted_runs,
       fail_interrupted_orchestration_runs, EndDrive
  <2> QED BY <1>2, <2>1
<1>12. ASSUME reattach_surviving_runs
       PROVE  FALSE
  <2> DEFINE i == [Idle EXCEPT !.pc = "interrupted"]
             f == [Idle EXCEPT !.pc = "follow", !.run = t[2]]
  <2>1. th'[t] \in {i, f, th[t]}
    BY <1>12 DEF reattach_surviving_runs
  <2>2. i.pc # "announce" /\ f.pc # "announce"
    BY DEF Idle
  <2> HIDE DEF i, f
  <2> QED BY <2>1, <2>2
<1>13. ASSUME Drain \/ end_drain \/ Crash \/ Boot
       PROVE  FALSE
  <2>1. CASE Crash
    BY <2>1 DEF Crash, Idle
  <2>2. CASE Boot
    <3> DEFINE x == [Idle EXCEPT !.pc = "reattach"]
    <3>1. x.pc # "announce"
      BY DEF Idle
    <3>2. th'[t] \in {x, th[t]}
      BY <1>1, <2>2 DEF Boot
    <3> HIDE DEF x
    <3> QED BY <3>1, <3>2
  <2> QED BY <1>3, <1>13, <2>1, <2>2 DEF Drain, end_drain
<1>14. ASSUME NEW u \in Thread, Settle(u)
       PROVE  _stop_if_already_settled(t)
  <2>1. Only(u)
    BY <1>1, <1>14 DEF Only, Settle, claim_completion, _stop_if_already_settled,
       advance_stage_after_run, complete_run_tail, settle_stage_after_failed_completion, Goto
  <2>2. u = t
    BY <2>1 DEF Only
  <2>3. th' # [th EXCEPT ![t] = Return(t)]
    <3>1. Return(t).pc = th[t].back
      BY <1>1 DEF Return, Local, Idle
    <3> QED BY <1>1, <3>1 DEF Local, Callers
  <2> QED BY <1>14, <2>2, <2>3 DEF Settle, claim_completion, advance_stage_after_run,
     complete_run_tail, settle_stage_after_failed_completion
<1> QED
  BY <1>4, <1>5, <1>6, <1>7, <1>8, <1>9, <1>10, <1>11, <1>12, <1>13, <1>14, ThreadNames
     DEF Next, Restart

(* While the drive lives and every row is under it, whoever decides about a *)
(* success finds the stage running.                                         *)
LEMMA SuccessStep ==
    ASSUME IInv, DriveInv, Next, NEW t \in Thread, th[t].pc = "tail", th'[t].pc = "announce",
           th[t].verdict = "succeeded", AllDriven
    PROVE  orch # "live"
<1>1. th[t].adv
  BY DEF DriveInv, FlowInv, SuccessAdvances
<1>2. th[t].pc = "tail" /\ Goto(t, IF stage \in FINISHED THEN "announce" ELSE "route")
  BY <1>1, OnlyTheTail DEF _stop_if_already_settled
<1>3. stage \in FINISHED
  BY <1>2 DEF Goto, IInv, TypeOK, Local
<1>4. th[t].run \in Runs
  BY SettledRow DEF InTail
<1>5. Active(th[t].run)
  BY DEF Active, Deciding
<1> QED BY <1>3, <1>4, <1>5 DEF DriveInv, FlowInv, OneAtATime, FINISHED

(* A success decides where its stage goes, whatever the sweep, a stop, a    *)
(* crash, a superseding start that has no row yet and the driver itself do  *)
(* meanwhile: no other completion finishes the stage of a run that drives   *)
(* it (orchestration.complete_run and its early return on a settled stage). *)
(* Of two troubles one must stay away: a completion that raises at its end  *)
(* after it re-armed the stage blocks it under the run that follows.        *)
THEOREM SuccessDecides ==
    Spec /\ (left["raise"] = 0 \/ left["retry"] = 0) => SuccessCounts
<1> DEFINE Step == \A t \in Thread :
                     LET r == th[t].run IN
                     /\ th[t].pc = "tail" /\ th'[t].pc = "announce"
                     /\ th[t].verdict = "succeeded"
                     /\ \A q \in Runs : run[q].status # "none" => run[q].driven
                     => orch # "live"
<1>1. Init /\ (left["raise"] = 0 \/ left["retry"] = 0) => DriveInv
  BY FlowInit DEF DriveInv, Steady
<1>2. IInv /\ BootInv /\ DriveInv /\ [Next]_vars => DriveInv'
  BY DriveKept, DriveStutter
<1>3. IInv /\ DriveInv /\ [Next]_vars => [Step]_vars
  BY SuccessStep DEF AllDriven
<1>4. IInv /\ ReapInv /\ BootInv /\ [Next]_vars => ReapInv' /\ BootInv'
  BY ReapNextKeeps, ReapStutter
<1> QED BY <1>1, <1>2, <1>3, <1>4, ReapInit, Invariance, PTL DEF Spec, Safety, SuccessCounts
=============================================================================
