------------------------- MODULE RunLifecycleProofs -------------------------
(***************************************************************************)
(* What holds of RunLifecycle for every set of runs and every budget: its   *)
(* types, and that however the threads race, a run shows one verdict, which *)
(* stands (the specification RunVerdict).                                   *)
(*                                                                         *)
(* Few steps touch a verdict: Insert gives a run its row, claim_completion  *)
(* gives it its verdict, complete_run_tail announces it.  Every other step  *)
(* is Quiet: it moves threads, and the invariant needs only to know where   *)
(* they may not go.                                                         *)
(***************************************************************************)
EXTENDS RunLifecycle, TLAPS

InTail == {"tail", "route", "announce"}

(* Whoever is past the claim holds the verdict of the row, not announced    *)
(* yet, and is alone to hold it.                                            *)
Busy == \A t \in Thread :
            th[t].pc \in Settling => th[t].run \in Runs /\ th[t].verdict \in Verdicts

Holding == \A t \in Thread :
               th[t].pc \in InTail => /\ run[th[t].run].status = th[t].verdict
                                    /\ completed[th[t].run] = <<>>

Alone == \A t, u \in Thread :
             th[t].pc \in InTail /\ th[u].pc \in InTail /\ th[t].run = th[u].run => t = u

(* What is announced has its verdict; a run that is being started has no    *)
(* row yet.                                                                 *)
Announced == \A r \in Runs : completed[r] # <<>> => run[r].status \in Verdicts

Early(x) == x.pc \in {"reap", "mark", "insert"} \/ (x.pc \in Settling /\ x.back = "reap")

Rowless == \A r \in Runs : Early(th[sup(r)]) => run[r].status = "none"

IInv == TypeOK /\ Busy /\ Holding /\ Alone /\ Announced /\ Rowless

(* A local state a quiet step may give a thread.                            *)
Calm(t, x) ==
    /\ x.pc \in Settling => x.pc = "claim" /\ x.run \in Runs /\ x.verdict \in Verdicts
    /\ \A r \in Runs : t = sup(r) /\ Early(x) => run[r].status = "none"

Moved ==
    /\ th' \in [Thread -> Local]
    /\ \A t \in Thread :
          \/ th'[t] = th[t]
          \/ Calm(t, th'[t])
          \/ th[t].pc \in InTail /\ \E p \in InTail : th'[t] = [th[t] EXCEPT !.pc = p]

Kept == completed' = completed /\ \A r \in Runs : run'[r].status = run[r].status

Quiet == TypeOK' /\ Moved /\ Kept

-----------------------------------------------------------------------------
LEMMA ThreadNames ==
    /\ \A r \in Runs : sup(r) \in Thread /\ res(r) \in Thread
    /\ web \in Thread /\ sweep \in Thread /\ boot \in Thread
    /\ \A r, q \in Runs : sup(r) # res(q) /\ (sup(r) = sup(q) => r = q)
    /\ \A r \in Runs : sup(r) # web /\ sup(r) # sweep /\ sup(r) # boot
    /\ \A r \in Runs : res(r) # web /\ res(r) # sweep /\ res(r) # boot
  BY DEF sup, res, web, sweep, boot, Thread

LEMMA IdleLocal == Idle \in Local
  BY DEF Idle, Local, Saw, Pc, Settling, Callers

LEMMA Callers_Pc == Callers \subseteq Pc /\ \A b \in Callers : b \notin Settling
  BY DEF Callers, Pc, Settling

(* The moves of one thread.                                                 *)
LEMMA OneMove ==
    ASSUME IInv, NEW t \in Thread, NEW x \in Local, Calm(t, x), th' = [th EXCEPT ![t] = x]
    PROVE  Moved
  BY DEF IInv, TypeOK, Moved

LEMMA GotoMove ==
    ASSUME IInv, NEW t \in Thread, NEW pc \in Pc \ (Settling \cup {"reap", "mark", "insert"}),
           Goto(t, pc)
    PROVE  Moved
  <1> DEFINE x == [th[t] EXCEPT !.pc = pc]
  <1>1. x \in Local
    BY DEF IInv, TypeOK, Local
  <1>2. x.pc = pc
    BY DEF IInv, TypeOK, Local
  <1>3. Calm(t, x)
    BY <1>2 DEF Calm, Early
  <1>4. th' = [th EXCEPT ![t] = x]
    BY DEF Goto
  <1> HIDE DEF x
  <1>. QED
    BY <1>1, <1>3, <1>4, OneMove

LEMMA IdleMove ==
    ASSUME IInv, NEW t \in Thread, NEW pc \in Pc \ (Settling \cup {"reap", "mark", "insert"}),
           NEW S \in SUBSET Runs, NEW q \in Runs \cup {0}
    PROVE  /\ th' = [th EXCEPT ![t] = [Idle EXCEPT !.pc = pc, !.todo = S]] => Moved
           /\ th' = [th EXCEPT ![t] = [Idle EXCEPT !.pc = pc, !.run = q]] => Moved
           /\ th' = [th EXCEPT ![t] = [Idle EXCEPT !.pc = pc]] => Moved
           /\ th' = [th EXCEPT ![t] = Idle] => Moved
  <1>1. /\ [Idle EXCEPT !.pc = pc, !.todo = S] \in Local
        /\ [Idle EXCEPT !.pc = pc, !.run = q] \in Local
        /\ [Idle EXCEPT !.pc = pc] \in Local
    BY DEF Idle, Local, Saw, Callers
  <1>2. /\ Calm(t, [Idle EXCEPT !.pc = pc, !.todo = S])
        /\ Calm(t, [Idle EXCEPT !.pc = pc, !.run = q])
        /\ Calm(t, [Idle EXCEPT !.pc = pc])
        /\ Calm(t, Idle)
    BY DEF Calm, Early, Idle, Settling
  <1>. QED
    BY <1>1, <1>2, IdleLocal, OneMove

LEMMA SeenSaw == \A r, mute : Seen(r, mute) \in Saw
  BY DEF Seen, Saw

LEMMA CompleteMove ==
    ASSUME IInv, NEW t \in Thread, NEW r \in Runs, NEW v \in Verdicts, NEW adv \in BOOLEAN,
           NEW saw \in Saw, NEW b \in Callers, b # "reap", NEW S \in SUBSET Runs
    PROVE  /\ th' = [th EXCEPT ![t] = Complete(t, r, v, adv, saw, b)] => Moved
           /\ th' = [th EXCEPT ![t] = [Complete(t, r, v, adv, saw, b) EXCEPT !.todo = S]] => Moved
  <1> DEFINE x == Complete(t, r, v, adv, saw, b)
             y == [x EXCEPT !.todo = S]
  <1>1. th[t] \in Local
    BY DEF IInv, TypeOK
  <1>2. x \in Local /\ y \in Local
    BY ZenonT(30), <1>1 DEF Complete, Local, Pc, Settling
  <1>3. /\ x.pc = "claim" /\ x.run = r /\ x.verdict = v /\ x.back = b
        /\ y.pc = "claim" /\ y.run = r /\ y.verdict = v /\ y.back = b
    BY <1>1 DEF Complete, Local
  <1>4. Calm(t, x) /\ Calm(t, y)
    BY <1>3 DEF Calm, Early
  <1> HIDE DEF x, y
  <1>5. /\ th' = [th EXCEPT ![t] = x] => Moved
        /\ th' = [th EXCEPT ![t] = y] => Moved
    BY <1>2, <1>4, OneMove
  <1>. QED
    BY <1>5 DEF x, y

LEMMA ReturnMove ==
    ASSUME IInv, NEW t \in Thread, th[t].pc \in Settling,
           th' = [th EXCEPT ![t] = Return(t)]
    PROVE  Moved
  <1>1. th[t] \in Local
    BY DEF IInv, TypeOK
  <1>2. Return(t) \in Local
    BY ZenonT(30), <1>1, IdleLocal, Callers_Pc DEF Return, Local, Idle, Callers
  <1>3. Return(t).pc = th[t].back
    BY <1>1 DEF Return, Local, Idle
  <1>4. Return(t).pc \notin Settling
    BY <1>1, <1>3, Callers_Pc DEF Local
  <1>5. ASSUME NEW r \in Runs, t = sup(r), Early(Return(t))
        PROVE  run[r].status = "none"
    <2>1. th[t].back = "reap"
      BY <1>1, <1>3, <1>4, <1>5 DEF Early, Local, Callers
    <2>. QED
      BY <1>5, <2>1 DEF IInv, Rowless, Early
  <1>6. Calm(t, Return(t))
    BY <1>4, <1>5 DEF Calm
  <1>. QED
    BY <1>2, <1>6, OneMove

LEMMA SpendType ==
    ASSUME TypeOK, NEW e \in Events, Spend(e)
    PROVE  left' \in [Events -> Nat]
  BY DEF TypeOK, Spend

LEMMA AskedType ==
    ASSUME TypeOK, NEW mute \in Unanswered, Asked(mute)
    PROVE  mute \in BOOLEAN /\ left' \in [Events -> Nat]
  <1>1. mute \in BOOLEAN
    BY DEF Unanswered
  <1>2. mute => left["mute"] > 0
    BY DEF Unanswered
  <1>3. CASE mute
    BY <1>1, <1>2, <1>3 DEF TypeOK, Asked, Events
  <1>4. CASE ~mute
    BY <1>1, <1>4 DEF TypeOK, Asked
  <1>. QED
    BY <1>1, <1>3, <1>4

LEMMA MutesType ==
    ASSUME TypeOK, NEW M \in Mutes, Asked(M # {})
    PROVE  left' \in [Events -> Nat]
  BY DEF TypeOK, Asked, Mutes, Events

-----------------------------------------------------------------------------
(* A quiet step keeps the invariant.                                        *)
LEMMA QuietSteps ==
    ASSUME IInv, Quiet
    PROVE  IInv'
  <1>. USE DEF IInv, Quiet
  <1>1. /\ th \in [Thread -> Local] /\ th' \in [Thread -> Local]
        /\ run \in [Runs -> Row] /\ run' \in [Runs -> Row]
    BY DEF TypeOK
  <1>2. ASSUME NEW t \in Thread, th'[t].pc \in InTail
        PROVE  th[t].pc \in InTail /\ th'[t].run = th[t].run /\ th'[t].verdict = th[t].verdict
    <2>1. CASE th'[t] = th[t]
      BY <1>2, <2>1
    <2>2. CASE Calm(t, th'[t])
      BY <1>2, <2>2 DEF Calm, InTail, Settling
    <2>3. CASE th[t].pc \in InTail /\ \E p \in InTail : th'[t] = [th[t] EXCEPT !.pc = p]
      BY <1>1, <2>3 DEF Local
    <2>. QED
      BY <2>1, <2>2, <2>3 DEF Moved
  <1>3. Busy'
    <2>1. SUFFICES ASSUME NEW t \in Thread, th'[t].pc \in Settling
                   PROVE  th'[t].run \in Runs /\ th'[t].verdict \in Verdicts
      BY DEF Busy
    <2>2. CASE th'[t] = th[t]
      BY <2>1, <2>2 DEF Busy
    <2>3. CASE Calm(t, th'[t])
      BY <2>1, <2>3 DEF Calm
    <2>4. CASE th[t].pc \in InTail /\ \E p \in InTail : th'[t] = [th[t] EXCEPT !.pc = p]
      BY <1>1, <2>4 DEF Local, Busy, InTail, Settling
    <2>. QED
      BY <2>2, <2>3, <2>4 DEF Moved
  <1>4. Holding'
    <2>1. SUFFICES ASSUME NEW t \in Thread, th'[t].pc \in InTail
                   PROVE  /\ run'[th'[t].run].status = th'[t].verdict
                          /\ completed'[th'[t].run] = <<>>
      BY DEF Holding
    <2>2. th[t].run \in Runs
      BY <1>2, <2>1 DEF Busy, InTail, Settling
    <2>. QED
      BY <1>2, <2>1, <2>2 DEF Holding, Kept
  <1>5. Alone'
    BY <1>2 DEF Alone
  <1>6. Announced'
    BY DEF Announced, Kept
  <1>7. Rowless'
    <2>1. SUFFICES ASSUME NEW r \in Runs, Early(th'[sup(r)])
                   PROVE  run[r].status = "none"
      BY DEF Rowless, Kept, Early, sup
    <2>2. sup(r) \in Thread
      BY ThreadNames
    <2>3. CASE th'[sup(r)] = th[sup(r)]
      BY <2>1, <2>3 DEF Rowless
    <2>4. CASE Calm(sup(r), th'[sup(r)])
      BY <2>1, <2>4 DEF Calm
    <2>5. CASE th[sup(r)].pc \in InTail
               /\ \E p \in InTail : th'[sup(r)] = [th[sup(r)] EXCEPT !.pc = p]
      <3>1. th[sup(r)] \in Local
        BY <1>1, <2>2
      <3>2. th'[sup(r)].back = th[sup(r)].back /\ th'[sup(r)].pc \in InTail
        BY <3>1, <2>5 DEF Local
      <3>3. Early(th[sup(r)])
        BY <2>1, <2>5, <3>2 DEF Early, InTail, Settling
      <3>. QED
        BY <3>3 DEF Rowless
    <2>. QED
      BY <2>2, <2>3, <2>4, <2>5 DEF Moved
  <1>. QED
    BY <1>3, <1>4, <1>5, <1>6, <1>7

LEMMA QuietThreads ==
    ASSUME IInv, UNCHANGED th
    PROVE  Moved
  BY DEF IInv, TypeOK, Moved

-----------------------------------------------------------------------------
(* The quiet steps of a supervisor.                                         *)
LEMMA QuietDispatch ==
    ASSUME IInv, NEW r \in Runs,
           \/ start_run_async(r) \/ Supersede(r) \/ start_orchestration_run(r) \/ Mark(r)
    PROVE  Quiet
  <1>. USE DEF IInv
  <1>1. sup(r) \in Thread /\ th[sup(r)] \in Local /\ \A q \in Runs : sup(q) = sup(r) => q = r
    BY ThreadNames DEF TypeOK
  <1>2. InFlight \subseteq Runs
    BY DEF InFlight
  <1>3. CASE start_run_async(r)
    <2> DEFINE x == [Idle EXCEPT !.pc = "reap", !.run = r, !.todo = InFlight]
    <2>1. x \in Local
      BY <1>2 DEF Idle, Local, Saw, Pc, Callers
    <2>2. Calm(sup(r), x)
      BY <1>1, <1>3 DEF Calm, Idle, Settling, start_run_async, Next_id, Unused
    <2>3. th' = [th EXCEPT ![sup(r)] = x]
      BY <1>3 DEF start_run_async
    <2> HIDE DEF x
    <2>4. Moved
      BY <1>1, <2>1, <2>2, <2>3, OneMove
    <2>5. left' \in [Events -> Nat]
      BY <1>3, SpendType DEF start_run_async, Events
    <2>. QED
      BY <1>3, <2>4, <2>5 DEF Quiet, Moved, Kept, TypeOK, start_run_async
  <1>4. CASE Supersede(r)
    <2>1. Early(th[sup(r)])
      BY <1>4 DEF Supersede, Early
    <2>2. run[r].status = "none"
      BY <2>1 DEF Rowless
    <2>3. ASSUME th[sup(r)].todo = {}
         PROVE  Moved
      <3> DEFINE x == [Idle EXCEPT !.pc = "mark"]
      <3>1. x \in Local
        BY DEF Idle, Local, Saw, Pc, Callers
      <3>2. Calm(sup(r), x)
        BY <1>1, <2>2 DEF Calm, Idle, Settling
      <3>3. th' = [th EXCEPT ![sup(r)] = x]
        BY <1>4, <2>3 DEF Supersede
      <3> HIDE DEF x
      <3>. QED
        BY <1>1, <3>1, <3>2, <3>3, OneMove
    <2>4. ASSUME th[sup(r)].todo # {}
         PROVE  Moved
      <3>1. PICK q \in th[sup(r)].todo :
               th' = [th EXCEPT ![sup(r)] = Fail(sup(r), q, TRUE, "none", "reap")]
        BY <1>4, <2>4 DEF Supersede
      <3>2. q \in Runs
        BY <1>1 DEF Local
      <3> DEFINE x == Fail(sup(r), q, TRUE, "none", "reap")
      <3>3. x \in Local /\ x.pc = "claim" /\ x.run = q /\ x.verdict = "failed"
        BY ZenonT(30), <1>1, <3>2 DEF Fail, Complete, Local, Saw, Pc, Settling, Callers, Verdicts
      <3>4. Calm(sup(r), x)
        BY <1>1, <2>2, <3>2, <3>3 DEF Calm, Verdicts
      <3> HIDE DEF x
      <3>5. th' = [th EXCEPT ![sup(r)] = x]
        BY <3>1 DEF x
      <3>. QED
        BY <1>1, <3>3, <3>4, <3>5, OneMove
    <2>. QED
      BY <1>4, <2>3, <2>4 DEF Quiet, Moved, Kept, TypeOK, Supersede
  <1>5. CASE start_orchestration_run(r)
    <2> DEFINE x == [Idle EXCEPT !.pc = "mark", !.adv = TRUE]
    <2>1. x \in Local
      BY DEF Idle, Local, Saw, Pc, Callers
    <2>2. Calm(sup(r), x)
      BY <1>1, <1>5 DEF Calm, Idle, Settling, start_orchestration_run, Next_id, Unused
    <2>3. th' = [th EXCEPT ![sup(r)] = x]
      BY <1>5 DEF start_orchestration_run
    <2> HIDE DEF x
    <2>4. Moved
      BY <1>1, <2>1, <2>2, <2>3, OneMove
    <2>5. left' \in [Events -> Nat]
      BY <1>5, SpendType DEF start_orchestration_run, Events
    <2>. QED
      BY <1>5, <2>4, <2>5 DEF Quiet, Moved, Kept, TypeOK, start_orchestration_run
  <1>6. CASE Mark(r)
    <2>1. Early(th[sup(r)])
      BY <1>6 DEF Mark, Early
    <2>2. run[r].status = "none"
      BY <2>1 DEF Rowless
    <2>3. ASSUME Goto(sup(r), "children")
         PROVE  Moved
      BY <1>1, <2>3, GotoMove DEF Pc, Settling
    <2>4. ASSUME Goto(sup(r), "insert")
         PROVE  Moved
      <3> DEFINE x == [th[sup(r)] EXCEPT !.pc = "insert"]
      <3>1. x \in Local
        BY <1>1 DEF Local, Pc
      <3>2. Calm(sup(r), x)
        BY <1>1, <2>2 DEF Calm, Local, Settling
      <3>3. th' = [th EXCEPT ![sup(r)] = x]
        BY <2>4 DEF Goto
      <3> HIDE DEF x
      <3>. QED
        BY <1>1, <3>1, <3>2, <3>3, OneMove
    <2>5. Moved
      BY <1>6, <2>3, <2>4 DEF Mark
    <2>6. stage' \in Stage
      BY <1>6 DEF Mark, Stage
    <2>. QED
      BY <1>6, <2>5, <2>6 DEF Quiet, Moved, Kept, TypeOK, Mark
  <1>. QED
    BY <1>3, <1>4, <1>5, <1>6

LEMMA EndDriveMove ==
    ASSUME IInv, NEW t \in Thread, NEW s \in Stage, EndDrive(t, s)
    PROVE  Moved /\ stage' \in Stage /\ orch' \in {"none", "live", "over"}
  <1>1. Driven \subseteq Runs
    BY DEF Driven, InFlight
  <1>2. "children" \in Pc \ (Settling \cup {"reap", "mark", "insert"})
    BY DEF Pc, Settling
  <1>. QED
    BY <1>1, <1>2, IdleMove DEF EndDrive

LEMMA QuietStart ==
    ASSUME IInv, NEW r \in Runs,
           \/ Admitted(r) \/ NotAdmitted(r) \/ ensure_still_in_flight(r) \/ Spawn(r)
           \/ record_process_identity(r)
    PROVE  Quiet
  <1>. USE DEF IInv
  <1>1. sup(r) \in Thread /\ th[sup(r)] \in Local
    BY ThreadNames DEF TypeOK
  <1>2. {"check", "spawn", "record", "watch"} \subseteq Pc \ (Settling \cup {"reap", "mark", "insert"})
    BY DEF Pc, Settling
  <1>3. "idle" \in Callers /\ AfterRun(r) \in Callers /\ AfterRun(r) # "reap"
    BY DEF AfterRun, Callers
  <1>4. "failed" \in Verdicts /\ "blocked" \in Stage
    BY DEF Verdicts, Stage
  <1>5. CASE Admitted(r)
    <2>1. Moved
      BY <1>1, <1>2, <1>5, GotoMove DEF Admitted
    <2>. QED
      BY <1>5, <2>1 DEF Quiet, Moved, Kept, TypeOK, Admitted
  <1>6. CASE NotAdmitted(r)
    <2>1. left' \in [Events -> Nat]
      BY <1>6, SpendType DEF NotAdmitted, Events
    <2>2. Moved /\ stage' \in Stage /\ orch' \in {"none", "live", "over"}
      <3>1. CASE run[r].driven
        BY <1>1, <1>4, <1>6, <3>1, EndDriveMove DEF NotAdmitted
      <3>2. CASE ~run[r].driven
        <4>1. th' = [th EXCEPT ![sup(r)] = Complete(sup(r), r, "failed", TRUE, "none", "idle")]
          BY <1>6, <3>2 DEF NotAdmitted
        <4>2. Moved
          BY <1>1, <1>3, <1>4, <4>1, CompleteMove DEF Saw
        <4>. QED
          BY <1>6, <3>2, <4>2 DEF NotAdmitted, TypeOK
      <3>. QED
        BY <3>1, <3>2
    <2>. QED
      BY <1>6, <2>1, <2>2 DEF Quiet, Moved, Kept, TypeOK, NotAdmitted
  <1>7. CASE ensure_still_in_flight(r)
    <2>1. Moved /\ stage' \in Stage /\ orch' \in {"none", "live", "over"}
      <3>1. CASE run[r].status = "running"
        <4>1. Goto(sup(r), "spawn") /\ UNCHANGED <<stage, orch>>
          BY <1>7, <3>1 DEF ensure_still_in_flight
        <4>2. Moved
          BY <1>1, <1>2, <4>1, GotoMove
        <4>. QED
          BY <4>1, <4>2 DEF TypeOK
      <3>2. CASE run[r].status # "running" /\ ~run[r].driven
        <4>1. th' = [th EXCEPT ![sup(r)] = Idle] /\ UNCHANGED <<stage, orch>>
          BY <1>7, <3>2 DEF ensure_still_in_flight
        <4>2. Moved
          BY <1>1, <1>2, <4>1, IdleMove
        <4>. QED
          BY <4>1, <4>2 DEF TypeOK
      <3>3. CASE run[r].status # "running" /\ run[r].driven
        <4>1. EndDrive(sup(r), "blocked")
          BY <1>7, <3>3 DEF ensure_still_in_flight
        <4>. QED
          BY <1>1, <1>4, <4>1, EndDriveMove
      <3>. QED
        BY <3>1, <3>2, <3>3
    <2>. QED
      BY <1>7, <2>1 DEF Quiet, Moved, Kept, TypeOK, ensure_still_in_flight
  <1>8. CASE Spawn(r)
    <2>1. Moved /\ agent' \in [Runs -> Agent]
      <3>1. CASE agent' = [agent EXCEPT ![r] = "working"] /\ Goto(sup(r), "record")
        <4>1. Moved
          BY <1>1, <1>2, <3>1, GotoMove
        <4>. QED
          BY <3>1, <4>1 DEF TypeOK, Agent
      <3>2. CASE /\ th' = [th EXCEPT ![sup(r)] =
                             Complete(sup(r), r, "failed", TRUE, "none", AfterRun(r))]
                 /\ UNCHANGED agent
        <4>1. Moved
          BY <1>1, <1>3, <1>4, <3>2, CompleteMove DEF Saw
        <4>. QED
          BY <3>2, <4>1 DEF TypeOK
      <3>. QED
        BY <1>8, <3>1, <3>2 DEF Spawn
    <2>. QED
      BY <1>8, <2>1 DEF Quiet, Moved, Kept, TypeOK, Spawn
  <1>9. CASE record_process_identity(r)
    <2>1. Moved
      BY <1>1, <1>2, <1>9, GotoMove DEF record_process_identity
    <2>2. PICK mute \in Unanswered :
            /\ run' = [run EXCEPT ![r].pid = ~mute /\ agent[r] = "working"]
            /\ Asked(mute)
      BY <1>9 DEF record_process_identity
    <2>3. left' \in [Events -> Nat]
      BY <2>2, AskedType
    <2> DEFINE b == ~mute /\ agent[r] = "working"
    <2>4. b \in BOOLEAN
      OBVIOUS
    <2>5. run' = [run EXCEPT ![r].pid = b]
      BY <2>2
    <2> HIDE DEF b
    <2>6. run' \in [Runs -> Row] /\ \A q \in Runs : run'[q].status = run[q].status
      BY ZenonT(30), <2>4, <2>5 DEF TypeOK, Row
    <2>. QED
      BY <1>9, <2>1, <2>3, <2>6 DEF Quiet, Moved, Kept, TypeOK, record_process_identity
  <1>. QED
    BY <1>5, <1>6, <1>7, <1>8, <1>9

LEMMA QuietSupervisor ==
    ASSUME IInv, NEW r \in Runs, run_print_mode(r) \/ AfterStage(r)
    PROVE  Quiet
  <1>. USE DEF IInv
  <1>1. sup(r) \in Thread /\ th[sup(r)] \in Local
    BY ThreadNames DEF TypeOK
  <1>2. AfterRun(r) \in Callers /\ AfterRun(r) # "reap"
    BY DEF AfterRun, Callers
  <1>3. CASE run_print_mode(r)
    <2>1. PICK v \in Verdicts :
            th' = [th EXCEPT ![sup(r)] = Complete(sup(r), r, v, TRUE, "none", AfterRun(r))]
      BY <1>3 DEF run_print_mode, Verdicts
    <2>2. Moved
      BY <1>1, <1>2, <2>1, CompleteMove DEF Saw
    <2>3. agent' \in [Runs -> Agent]
      BY <1>3 DEF run_print_mode, TypeOK, Agent
    <2>. QED
      BY <1>3, <2>2, <2>3 DEF Quiet, Moved, Kept, TypeOK, run_print_mode
  <1>4. CASE AfterStage(r)
    <2>1. ASSUME NEW s \in Stage, EndDrive(sup(r), s)
          PROVE  Moved /\ stage' \in Stage /\ orch' \in {"none", "live", "over"}
      BY <1>1, <2>1, EndDriveMove
    <2>2. ASSUME NEW q \in Runs, Next_id(q),
                 th' = [th EXCEPT ![sup(r)] = Idle,
                                  ![sup(q)] = [Idle EXCEPT !.pc = "mark", !.adv = TRUE]]
          PROVE  Moved
      <3> DEFINE x == [Idle EXCEPT !.pc = "mark", !.adv = TRUE]
      <3>1. x \in Local
        BY DEF Idle, Local, Saw, Pc, Callers
      <3>2. \A p \in Runs : sup(p) \in Thread /\ (sup(p) = sup(q) => p = q)
        BY ThreadNames
      <3>3. Calm(sup(q), x)
        BY <2>2, <3>2 DEF Calm, Idle, Settling, Next_id, Unused
      <3>4. Calm(sup(r), Idle)
        BY DEF Calm, Early, Idle, Settling
      <3> HIDE DEF x
      <3>5. th' = [th EXCEPT ![sup(r)] = Idle, ![sup(q)] = x]
        BY <2>2 DEF x
      <3>6. th' \in [Thread -> Local]
        BY <3>1, <3>2, <3>5, IdleLocal DEF TypeOK
      <3>7. \A t \in Thread : \/ t = sup(q) /\ th'[t] = x
                              \/ t = sup(r) /\ th'[t] = Idle
                              \/ th'[t] = th[t]
        BY <3>2, <3>5 DEF TypeOK
      <3>. QED
        BY <3>3, <3>4, <3>6, <3>7 DEF Moved
    <2>3. Moved /\ stage' \in Stage /\ orch' \in {"none", "live", "over"}
      <3>1. stage \in Stage /\ "blocked" \in Stage
        BY DEF TypeOK, Stage
      <3>2. CASE EndDrive(sup(r), stage) \/ EndDrive(sup(r), "blocked")
        BY <2>1, <3>1, <3>2
      <3>3. CASE ~(EndDrive(sup(r), stage) \/ EndDrive(sup(r), "blocked"))
        <4>1. PICK q \in Runs :
                /\ Next_id(q)
                /\ th' = [th EXCEPT ![sup(r)] = Idle,
                                    ![sup(q)] = [Idle EXCEPT !.pc = "mark", !.adv = TRUE]]
                /\ UNCHANGED <<stage, orch>>
          BY <1>4, <3>3 DEF AfterStage
        <4>. QED
          BY <2>2, <4>1 DEF TypeOK
      <3>. QED
        BY <3>2, <3>3
    <2>. QED
      BY <1>4, <2>3 DEF Quiet, Moved, Kept, TypeOK, AfterStage
  <1>. QED
    BY <1>3, <1>4

-----------------------------------------------------------------------------
(* The quiet steps of everybody else.                                       *)
LEMMA QuietOutside ==
    ASSUME IInv, NEW r \in Runs,
           \/ AgentExits(r) \/ renew_agent_run_lease(r) \/ LeaseLapses(r) \/ RenewalMissed(r)
           \/ request_cancel(r)
    PROVE  Quiet
  <1>. USE DEF IInv
  <1>1. web \in Thread /\ th[web] \in Local
    BY ThreadNames DEF TypeOK
  <1>3. CASE AgentExits(r)
    <2>1. Moved
      BY <1>3, QuietThreads DEF AgentExits
    <2>2. agent' \in [Runs -> Agent]
      BY <1>3 DEF AgentExits, TypeOK, Agent
    <2>. QED
      BY <1>3, <2>1, <2>2 DEF Quiet, Moved, Kept, TypeOK, AgentExits
  <1>4. ASSUME NEW b \in BOOLEAN, run' = [run EXCEPT ![r].fresh = b]
        PROVE  run' \in [Runs -> Row] /\ \A q \in Runs : run'[q].status = run[q].status
    BY ZenonT(40), <1>4 DEF TypeOK, Row
  <1>5. CASE renew_agent_run_lease(r)
    <2>1. Moved
      BY <1>5, QuietThreads DEF renew_agent_run_lease
    <2>2. run' \in [Runs -> Row] /\ \A q \in Runs : run'[q].status = run[q].status
      BY <1>4, <1>5 DEF renew_agent_run_lease
    <2>. QED
      BY <1>5, <2>1, <2>2 DEF Quiet, Moved, Kept, TypeOK, renew_agent_run_lease
  <1>6. CASE LeaseLapses(r)
    <2>1. Moved
      BY <1>6, QuietThreads DEF LeaseLapses
    <2>2. run' \in [Runs -> Row] /\ \A q \in Runs : run'[q].status = run[q].status
      BY <1>4, <1>6 DEF LeaseLapses
    <2>. QED
      BY <1>6, <2>1, <2>2 DEF Quiet, Moved, Kept, TypeOK, LeaseLapses
  <1>7. CASE RenewalMissed(r)
    <2>1. Moved
      BY <1>7, QuietThreads DEF RenewalMissed
    <2>2. run' \in [Runs -> Row] /\ \A q \in Runs : run'[q].status = run[q].status
      BY <1>4, <1>7 DEF RenewalMissed
    <2>3. left' \in [Events -> Nat]
      BY <1>7, SpendType DEF RenewalMissed, Events
    <2>. QED
      BY <1>7, <2>1, <2>2, <2>3 DEF Quiet, Moved, Kept, TypeOK, RenewalMissed
  <1>8. CASE request_cancel(r)
    <2> DEFINE x == [Idle EXCEPT !.pc = "signal", !.run = r]
    <2>1. x \in Local
      BY DEF Idle, Local, Saw, Pc, Callers
    <2>2. Calm(web, x)
      BY ThreadNames DEF Calm, Idle, Settling
    <2>3. th' = [th EXCEPT ![web] = x]
      BY <1>8 DEF request_cancel
    <2> HIDE DEF x
    <2>4. Moved
      BY <1>1, <2>1, <2>2, <2>3, OneMove
    <2>5. left' \in [Events -> Nat]
      BY <1>8, SpendType DEF request_cancel, Events
    <2>6. run' \in [Runs -> Row] /\ \A q \in Runs : run'[q].status = run[q].status
      BY ZenonT(90), <1>8 DEF request_cancel, TypeOK, Row
    <2>. QED
      BY <1>8, <2>4, <2>5, <2>6 DEF Quiet, Moved, Kept, TypeOK, request_cancel
  <1>. QED
    BY <1>3, <1>5, <1>6, <1>7, <1>8

LEMMA QuietWeb ==
    ASSUME IInv, stop_detached_process \/ EndFromOutside
    PROVE  Quiet
  <1>. USE DEF IInv
  <1>1. web \in Thread /\ th[web] \in Local
    BY ThreadNames DEF TypeOK
  <1>2. "idle" \in Pc \ (Settling \cup {"reap", "mark", "insert"}) /\ 0 \in Runs \cup {0}
    BY DEF Pc, Settling
  <1>3. CASE stop_detached_process
    <2>1. Moved
      BY <1>1, <1>2, <1>3, IdleMove DEF stop_detached_process
    <2>2. PICK mute \in Unanswered :
            /\ agent' = IF liveness(th[web].run, mute) = "alive"
                        THEN [agent EXCEPT ![th[web].run] = "failed"] ELSE agent
            /\ Asked(mute)
      BY <1>3 DEF stop_detached_process
    <2>3. left' \in [Events -> Nat]
      BY <2>2, AskedType
    <2>4. agent' \in [Runs -> Agent]
      BY <2>2 DEF TypeOK, Agent
    <2>. QED
      BY <1>3, <2>1, <2>3, <2>4 DEF Quiet, Moved, Kept, TypeOK, stop_detached_process
  <1>4. CASE EndFromOutside
    <2>1. PICK s \in {stage, "blocked"} : EndDrive(web, s)
      BY <1>4 DEF EndFromOutside
    <2>2. s \in Stage
      BY <2>1 DEF TypeOK, Stage
    <2>3. Moved /\ stage' \in Stage /\ orch' \in {"none", "live", "over"}
      BY <1>1, <2>1, <2>2, EndDriveMove
    <2>4. left' \in [Events -> Nat]
      BY <1>4, SpendType DEF EndFromOutside, Events
    <2>. QED
      BY <1>4, <2>3, <2>4 DEF Quiet, Moved, Kept, TypeOK, EndFromOutside
  <1>. QED
    BY <1>3, <1>4

LEMMA QuietResupervisor ==
    ASSUME IInv, NEW r \in Runs, Resupervise(r)
    PROVE  Quiet
  <1>. USE DEF IInv
  <1>1. res(r) \in Thread /\ th[res(r)] \in Local
    BY ThreadNames DEF TypeOK
  <1>2. {"seize", "idle"} \subseteq Pc \ (Settling \cup {"reap", "mark", "insert"})
    BY DEF Pc, Settling
  <1>3. CASE _supervise_until_gone(r)
    <2>1. Moved
      BY <1>1, <1>2, <1>3, GotoMove DEF _supervise_until_gone
    <2>2. left' \in [Events -> Nat]
      BY <1>3, AskedType DEF _supervise_until_gone
    <2>. QED
      BY <1>3, <2>1, <2>2 DEF Quiet, Moved, Kept, TypeOK, _supervise_until_gone
  <1>4. CASE _claim_settlement(r)
    <2>1. CASE run[r].status = "running" /\ ~run[r].finished
      <3>1. PICK v \in Verdicts :
              th' = [th EXCEPT ![res(r)] = Complete(res(r), r, v, TRUE, "none", "idle")]
        BY <1>4, <2>1 DEF _claim_settlement, Verdicts
      <3>2. Moved
        BY <1>1, <3>1, CompleteMove DEF Saw, Callers
      <3>3. run' \in [Runs -> Row] /\ \A q \in Runs : run'[q].status = run[q].status
        <4>1. run' = [run EXCEPT ![r].finished = TRUE]
          BY <1>4, <2>1 DEF _claim_settlement
        <4>. QED
          BY ZenonT(30), <4>1 DEF TypeOK, Row
      <3>. QED
        BY <1>4, <3>2, <3>3 DEF Quiet, Moved, Kept, TypeOK, _claim_settlement
    <2>2. CASE ~(run[r].status = "running" /\ ~run[r].finished)
      <3>1. th' = [th EXCEPT ![res(r)] = Idle] /\ UNCHANGED run
        BY <1>4, <2>2 DEF _claim_settlement
      <3>2. Moved
        BY <1>1, <1>2, <3>1, IdleMove
      <3>. QED
        BY <1>4, <3>1, <3>2 DEF Quiet, Moved, Kept, TypeOK, _claim_settlement
    <2>. QED
      BY <2>1, <2>2
  <1>. QED
    BY <1>3, <1>4 DEF Resupervise

(* A loop over rows: it skips one, or fails its run.                         *)
LEMMA LoopMove ==
    ASSUME IInv, NEW t \in Thread, NEW r \in th[t].todo, NEW adv \in BOOLEAN,
           NEW saw \in Saw, NEW b \in Callers, b # "reap"
    PROVE  /\ th' = [th EXCEPT ![t] = Fail(t, r, adv, saw, b)] => Moved
           /\ th[t].pc \notin Settling \cup {"reap", "mark", "insert"}
                 /\ th' = [th EXCEPT ![t] = Skip(t, r)] => Moved
  <1>1. th[t] \in Local /\ r \in Runs /\ th[t].todo \ {r} \in SUBSET Runs
    BY DEF IInv, TypeOK, Local
  <1>2. ASSUME th' = [th EXCEPT ![t] = Fail(t, r, adv, saw, b)]
        PROVE  Moved
    BY <1>1, <1>2, CompleteMove DEF Fail, Verdicts
  <1>3. ASSUME th[t].pc \notin Settling \cup {"reap", "mark", "insert"},
               th' = [th EXCEPT ![t] = Skip(t, r)]
        PROVE  Moved
    <2>1. Skip(t, r) \in Local /\ Skip(t, r).pc = th[t].pc
      BY <1>1 DEF Skip, Local
    <2>2. Calm(t, Skip(t, r))
      BY <1>3, <2>1 DEF Calm, Early
    <2>. QED
      BY <1>3, <2>1, <2>2, OneMove
  <1>. QED
    BY <1>2, <1>3

LEMMA QuietChildren ==
    ASSUME IInv, NEW t \in Thread, _fail_in_flight_children(t)
    PROVE  Quiet
  <1>. USE DEF IInv
  <1>1. th[t] \in Local /\ th[t].pc \notin Settling \cup {"reap", "mark", "insert"}
    BY DEF TypeOK, _fail_in_flight_children, Settling
  <1>2. CASE th[t].todo = {}
    <2>1. th' = [th EXCEPT ![t] = [Idle EXCEPT !.pc = AfterChildren(t)]] /\ UNCHANGED left
      BY <1>2 DEF _fail_in_flight_children
    <2>2. AfterChildren(t) \in Pc \ (Settling \cup {"reap", "mark", "insert"})
      BY DEF AfterChildren, Pc, Settling
    <2>3. Moved
      BY <2>1, <2>2, IdleMove
    <2>. QED
      BY <2>1, <2>3 DEF Quiet, Moved, Kept, TypeOK, _fail_in_flight_children
  <1>3. CASE th[t].todo # {}
    <2>1. PICK r \in th[t].todo, mute \in Unanswered :
            /\ th' = [th EXCEPT ![t] =
                 IF liveness(r, mute) = "gone"
                 THEN Fail(t, r, FALSE, Seen(r, mute), "children") ELSE Skip(t, r)]
            /\ Asked(mute)
      BY <1>3 DEF _fail_in_flight_children
    <2>2. r \in Runs /\ Seen(r, mute) \in Saw /\ "children" \in Callers
      BY <1>1, SeenSaw DEF Local, Callers
    <2>3. left' \in [Events -> Nat]
      BY <2>1, AskedType
    <2>4. CASE liveness(r, mute) = "gone"
      <3>1. th' = [th EXCEPT ![t] = Fail(t, r, FALSE, Seen(r, mute), "children")]
        BY <2>1, <2>4
      <3>2. Moved
        BY <2>2, <3>1, LoopMove
      <3>. QED
        BY <1>3, <2>3, <3>2 DEF Quiet, Moved, Kept, TypeOK, _fail_in_flight_children
    <2>5. CASE liveness(r, mute) # "gone"
      <3>1. th' = [th EXCEPT ![t] = Skip(t, r)]
        BY <2>1, <2>5
      <3>2. Moved
        BY <1>1, <2>2, <3>1, LoopMove
      <3>. QED
        BY <1>3, <2>3, <3>2 DEF Quiet, Moved, Kept, TypeOK, _fail_in_flight_children
    <2>. QED
      BY <2>4, <2>5
  <1>. QED
    BY <1>2, <1>3

LEMMA QuietSweep ==
    ASSUME IInv, reconcile_once \/ Sweep
    PROVE  Quiet
  <1>. USE DEF IInv
  <1>1. sweep \in Thread /\ th[sweep] \in Local
    BY ThreadNames DEF TypeOK
  <1>2. {"expired", "orphaned", "leases", "stranded"} \subseteq
           Pc \ (Settling \cup {"reap", "mark", "insert"})
    BY DEF Pc, Settling
  <1>3. InFlight \subseteq Runs /\ Driven \subseteq Runs
    BY DEF InFlight, Driven
  <1>4. {"expired", "orphaned"} \subseteq Callers
    BY DEF Callers
  <1>5. CASE reconcile_once
    <2>1. Moved
      BY <1>1, <1>2, <1>3, <1>5, IdleMove DEF reconcile_once
    <2>. QED
      BY <1>5, <2>1 DEF Quiet, Moved, Kept, TypeOK, reconcile_once
  <1>6. CASE settle_expired_agent_runs
    <2>1. CASE th[sweep].todo = {}
      <3>1. th' = [th EXCEPT ![sweep] = [Idle EXCEPT !.pc = "orphaned", !.todo = Driven]]
               /\ UNCHANGED left
        BY <1>6, <2>1 DEF settle_expired_agent_runs
      <3>2. Moved
        BY <1>1, <1>2, <1>3, <3>1, IdleMove
      <3>. QED
        BY <1>6, <3>1, <3>2 DEF Quiet, Moved, Kept, TypeOK, settle_expired_agent_runs
    <2>2. CASE th[sweep].todo # {}
      <3>1. PICK r \in th[sweep].todo, mute \in Unanswered :
              /\ th' = [th EXCEPT ![sweep] =
                   IF Expired(r, mute)
                   THEN Fail(sweep, r, TRUE, Seen(r, mute), "expired") ELSE Skip(sweep, r)]
              /\ Asked(mute)
        BY <1>6, <2>2 DEF settle_expired_agent_runs
      <3> DEFINE saw == Seen(r, mute)
      <3>2. saw \in Saw
        BY SeenSaw
      <3>3. left' \in [Events -> Nat]
        BY <3>1, AskedType
      <3>4. th[sweep].pc \notin Settling \cup {"reap", "mark", "insert"}
        BY <1>6 DEF settle_expired_agent_runs, Settling
      <3>5. \/ th' = [th EXCEPT ![sweep] = Fail(sweep, r, TRUE, saw, "expired")]
            \/ th' = [th EXCEPT ![sweep] = Skip(sweep, r)]
        BY <3>1
      <3> HIDE DEF saw
      <3>6. Moved
        BY <1>1, <1>4, <3>2, <3>4, <3>5, LoopMove
      <3>. QED
        BY <1>6, <2>2, <3>3, <3>6 DEF Quiet, Moved, Kept, TypeOK, settle_expired_agent_runs
    <2>. QED
      BY <2>1, <2>2
  <1>7. CASE settle_orphaned_agent_runs
    <2>1. CASE th[sweep].todo = {}
      <3>1. th' = [th EXCEPT ![sweep] = [Idle EXCEPT !.pc = "leases"]] /\ UNCHANGED left
        BY <1>7, <2>1 DEF settle_orphaned_agent_runs
      <3>2. Moved
        BY <1>1, <1>2, <3>1, IdleMove
      <3>. QED
        BY <1>7, <3>1, <3>2 DEF Quiet, Moved, Kept, TypeOK, settle_orphaned_agent_runs
    <2>2. CASE th[sweep].todo # {}
      <3>1. PICK r \in th[sweep].todo, mute \in Unanswered :
              /\ th' = [th EXCEPT ![sweep] =
                   IF orch = "over" /\ liveness(r, mute) = "gone"
                   THEN Fail(sweep, r, FALSE, Seen(r, mute), "orphaned") ELSE Skip(sweep, r)]
              /\ Asked(mute)
        BY <1>7, <2>2 DEF settle_orphaned_agent_runs
      <3>2. r \in Runs /\ Seen(r, mute) \in Saw
        BY <1>1, <3>1, SeenSaw DEF Local
      <3>3. left' \in [Events -> Nat]
        BY <3>1, AskedType
      <3>4. th[sweep].pc \notin Settling \cup {"reap", "mark", "insert"}
        BY <1>7 DEF settle_orphaned_agent_runs, Settling
      <3>5. \/ th' = [th EXCEPT ![sweep] = Fail(sweep, r, FALSE, Seen(r, mute), "orphaned")]
            \/ th' = [th EXCEPT ![sweep] = Skip(sweep, r)]
        BY <3>1
      <3>6. Moved
        BY <1>1, <1>4, <3>2, <3>4, <3>5, LoopMove
      <3>. QED
        BY <1>7, <2>2, <3>3, <3>6 DEF Quiet, Moved, Kept, TypeOK, settle_orphaned_agent_runs
    <2>. QED
      BY <2>1, <2>2
  <1>8. CASE settle_expired_orchestration_leases
    <2>1. stage \in Stage
      BY DEF TypeOK
    <2>2. Moved /\ stage' \in Stage /\ orch' \in {"none", "live", "over"}
      BY <1>1, <1>8, <2>1, EndDriveMove DEF settle_expired_orchestration_leases
    <2>. QED
      BY <1>8, <2>2 DEF Quiet, Moved, Kept, TypeOK, settle_expired_orchestration_leases
  <1>9. CASE NoLeaseExpired
    <2>1. Moved
      BY <1>1, <1>2, <1>9, IdleMove DEF NoLeaseExpired
    <2>. QED
      BY <1>9, <2>1 DEF Quiet, Moved, Kept, TypeOK, NoLeaseExpired
  <1>. QED
    BY <1>5, <1>6, <1>7, <1>8, <1>9 DEF Sweep

LEMMA QuietStranded ==
    ASSUME IInv, NEW t \in {sweep, boot}, Strand(t)
    PROVE  Quiet
  <1>. USE DEF IInv
  <1>1. t \in Thread /\ th[t] \in Local
    BY ThreadNames DEF TypeOK
  <1>2. {"block", "idle"} \subseteq Pc \ (Settling \cup {"reap", "mark", "insert"})
    BY DEF Pc, Settling
  <1>3. CASE settle_stranded_stages(t)
    <2>1. Goto(t, "block") \/ Goto(t, "idle")
      BY <1>3 DEF settle_stranded_stages
    <2>2. Moved
      BY <1>1, <1>2, <2>1, GotoMove
    <2>3. server' = "up" \/ server' = server
      BY <1>3 DEF settle_stranded_stages
    <2>. QED
      BY <1>3, <2>2, <2>3 DEF Quiet, Moved, Kept, TypeOK, settle_stranded_stages
  <1>4. CASE BlockStranded(t)
    <2>1. Moved
      BY <1>1, <1>2, <1>4, IdleMove DEF BlockStranded
    <2>2. stage' \in Stage /\ (server' = "up" \/ server' = server)
      BY <1>4 DEF BlockStranded, Stage
    <2>. QED
      BY <1>4, <2>1, <2>2 DEF Quiet, Moved, Kept, TypeOK, BlockStranded
  <1>. QED
    BY <1>3, <1>4 DEF Strand

LEMMA QuietServer ==
    ASSUME IInv, Drain \/ end_drain \/ Crash \/ Boot
    PROVE  Quiet
  <1>. USE DEF IInv
  <1>1. boot \in Thread /\ th[boot] \in Local
    BY ThreadNames DEF TypeOK
  <1>2. CASE Drain
    <2>1. Moved
      BY <1>2, QuietThreads DEF Drain
    <2>2. left' \in [Events -> Nat]
      BY <1>2, SpendType DEF Drain, Events
    <2>. QED
      BY <1>2, <2>1, <2>2 DEF Quiet, Moved, Kept, TypeOK, Drain
  <1>3. CASE end_drain
    <2>1. Moved
      BY <1>3, QuietThreads DEF end_drain
    <2>. QED
      BY <1>3, <2>1 DEF Quiet, Moved, Kept, TypeOK, end_drain
  <1>4. CASE Crash
    <2>1. th' = [t \in Thread |-> Idle]
      BY <1>4 DEF Crash
    <2>2. \A t \in Thread : Calm(t, Idle)
      BY DEF Calm, Early, Idle, Settling
    <2>3. Moved
      BY <2>1, <2>2, IdleLocal DEF Moved
    <2>4. left' \in [Events -> Nat]
      BY <1>4, SpendType DEF Crash, Events
    <2>5. agent' \in [Runs -> Agent]
      BY <1>4 DEF Crash, TypeOK, Agent
    <2>. QED
      BY <1>4, <2>3, <2>4, <2>5 DEF Quiet, Moved, Kept, TypeOK, Crash
  <1>5. CASE Boot
    <2>1. "reattach" \in Pc \ (Settling \cup {"reap", "mark", "insert"})
      BY DEF Pc, Settling
    <2>2. Moved
      BY <1>1, <1>5, <2>1, IdleMove DEF Boot
    <2>. QED
      BY <1>5, <2>2 DEF Quiet, Moved, Kept, TypeOK, Boot
  <1>. QED
    BY <1>2, <1>3, <1>4, <1>5

LEMMA QuietReattach ==
    ASSUME IInv, reattach_surviving_runs
    PROVE  Quiet
  <1>. USE DEF IInv
  <1>1. PICK M \in Mutes :
          LET alive == {r \in InFlight : liveness(r, r \in M) = "alive"} IN
          /\ run' = [r \in Runs |-> [run[r] EXCEPT !.fresh = @ \/ r \in alive]]
          /\ th' = [t \in Thread |->
               IF t = boot THEN [Idle EXCEPT !.pc = "interrupted"]
               ELSE IF t[1] = "res" /\ t[2] \in alive
                    THEN [Idle EXCEPT !.pc = "follow", !.run = t[2]]
               ELSE th[t]]
          /\ Asked(M # {})
    BY DEF reattach_surviving_runs
  <1> DEFINE alive == {r \in InFlight : liveness(r, r \in M) = "alive"}
             follow(r) == [Idle EXCEPT !.pc = "follow", !.run = r]
             back == [Idle EXCEPT !.pc = "interrupted"]
  <1>2. alive \subseteq Runs
    BY DEF InFlight
  <1>3. back \in Local /\ \A t \in Thread : Calm(t, back)
    BY DEF Idle, Local, Saw, Pc, Callers, Calm, Early, Settling
  <1>4. \A r \in alive : follow(r) \in Local /\ \A t \in Thread : Calm(t, follow(r))
    BY <1>2 DEF Idle, Local, Saw, Pc, Callers, Calm, Early, Settling
  <1>5. /\ run' = [r \in Runs |-> [run[r] EXCEPT !.fresh = @ \/ r \in alive]]
        /\ th' = [t \in Thread |->
             IF t = boot THEN back
             ELSE IF t[1] = "res" /\ t[2] \in alive THEN follow(t[2]) ELSE th[t]]
    BY <1>1
  <1>6. run' \in [Runs -> Row] /\ \A r \in Runs : run'[r].status = run[r].status
    <2>1. SUFFICES ASSUME NEW r \in Runs
                   PROVE  run'[r] \in Row /\ run'[r].status = run[r].status
      BY <1>5
    <2>2. run[r] \in Row
      BY DEF TypeOK
    <2> DEFINE f == run[r].fresh \/ r \in alive
    <2>3. f \in BOOLEAN
      OBVIOUS
    <2>4. run'[r] = [run[r] EXCEPT !.fresh = f]
      BY <1>5
    <2> HIDE DEF f
    <2>. QED
      BY <2>2, <2>3, <2>4 DEF Row
  <1> HIDE DEF alive, follow, back
  <1>7. Moved
    <2>1. ASSUME NEW t \in Thread
          PROVE  th'[t] \in Local /\ (th'[t] = th[t] \/ Calm(t, th'[t]))
      <3>1. th[t] \in Local
        BY DEF TypeOK
      <3>2. CASE t = boot
        BY <1>3, <1>5, <3>2
      <3>3. CASE t # boot /\ t[1] = "res" /\ t[2] \in alive
        BY <1>4, <1>5, <3>3
      <3>4. CASE t # boot /\ ~(t[1] = "res" /\ t[2] \in alive)
        BY <1>5, <3>1, <3>4
      <3>. QED
        BY <3>2, <3>3, <3>4
    <2>2. th' \in [Thread -> Local]
      BY <1>5, <2>1
    <2>. QED
      BY <2>1, <2>2 DEF Moved
  <1>8. left' \in [Events -> Nat]
    BY <1>1, MutesType
  <1>. QED
    BY <1>6, <1>7, <1>8 DEF Quiet, Moved, Kept, TypeOK, reattach_surviving_runs

LEMMA QuietRestart ==
    ASSUME IInv, fail_interrupted_runs \/ fail_interrupted_orchestration_runs
    PROVE  Quiet
  <1>. USE DEF IInv
  <1>1. boot \in Thread /\ th[boot] \in Local /\ \A r \in Runs : boot # sup(r)
    BY ThreadNames DEF TypeOK
  <1>2. {"parents", "stranded"} \subseteq Pc \ (Settling \cup {"reap", "mark", "insert"})
    BY DEF Pc, Settling
  <1>3. "interrupted" \in Callers
    BY DEF Callers
  <1>4. CASE fail_interrupted_runs
    <2>1. ASSUME NEW M \in Mutes,
                 th' = [th EXCEPT ![boot].todo = InFlight \ runs_to_spare(M),
                                  ![boot].back = "interrupted"],
                 Asked(M # {})
          PROVE  Moved /\ left' \in [Events -> Nat]
      <3> DEFINE S == InFlight \ runs_to_spare(M)
                 x == [th[boot] EXCEPT !.todo = S, !.back = "interrupted"]
      <3>1. S \in SUBSET Runs
        BY DEF InFlight
      <3>2. th' = [th EXCEPT ![boot] = x]
        BY <1>1, <2>1 DEF TypeOK, Local
      <3> HIDE DEF S
      <3>3. x \in Local /\ x.pc = "interrupted"
        BY <1>1, <1>3, <1>4, <3>1 DEF Local, fail_interrupted_runs
      <3>4. Calm(boot, x)
        BY <1>1, <3>3 DEF Calm, Settling
      <3> HIDE DEF x
      <3>5. Moved
        BY <1>1, <3>2, <3>3, <3>4, OneMove
      <3>. QED
        BY <2>1, <3>5, MutesType
    <2>2. ASSUME NEW r \in th[boot].todo,
                 th' = [th EXCEPT ![boot] = Fail(boot, r, TRUE, Seen(r, FALSE), "interrupted")],
                 UNCHANGED left
          PROVE  Moved /\ left' \in [Events -> Nat]
      <3>1. r \in Runs /\ Seen(r, FALSE) \in Saw
        BY <1>1, SeenSaw DEF Local
      <3>2. Moved
        BY <1>1, <1>3, <2>2, <3>1, LoopMove
      <3>. QED
        BY <2>2, <3>2 DEF TypeOK
    <2>3. ASSUME th' = [th EXCEPT ![boot] = [Idle EXCEPT !.pc = "parents"]], UNCHANGED left
          PROVE  Moved /\ left' \in [Events -> Nat]
      <3>1. Moved
        BY <1>1, <1>2, <2>3, IdleMove
      <3>. QED
        BY <2>3, <3>1 DEF TypeOK
    <2>4. Moved /\ left' \in [Events -> Nat]
      BY <1>4, <2>1, <2>2, <2>3 DEF fail_interrupted_runs
    <2>. QED
      BY <1>4, <2>4 DEF Quiet, Moved, Kept, TypeOK, fail_interrupted_runs
  <1>5. CASE fail_interrupted_orchestration_runs
    <2>1. PICK M \in Mutes :
            /\ \/ EndDrive(boot, stage)
               \/ th' = [th EXCEPT ![boot] = [Idle EXCEPT !.pc = "stranded"]]
                  /\ UNCHANGED <<stage, orch>>
            /\ Asked(M # {})
      BY <1>5 DEF fail_interrupted_orchestration_runs
    <2>2. left' \in [Events -> Nat]
      BY <2>1, MutesType
    <2>3. stage \in Stage /\ orch \in {"none", "live", "over"}
      BY DEF TypeOK
    <2>4. CASE EndDrive(boot, stage)
      <3>1. Moved /\ stage' \in Stage /\ orch' \in {"none", "live", "over"}
        BY <1>1, <2>3, <2>4, EndDriveMove
      <3>. QED
        BY <1>5, <2>2, <3>1 DEF Quiet, Moved, Kept, TypeOK, fail_interrupted_orchestration_runs
    <2>5. CASE th' = [th EXCEPT ![boot] = [Idle EXCEPT !.pc = "stranded"]]
                  /\ UNCHANGED <<stage, orch>>
      <3>1. Moved
        BY <1>1, <1>2, <2>5, IdleMove
      <3>. QED
        BY <1>5, <2>2, <2>5, <3>1
           DEF Quiet, Moved, Kept, TypeOK, fail_interrupted_orchestration_runs
    <2>. QED
      BY <2>1, <2>4, <2>5
  <1>. QED
    BY <1>4, <1>5

-----------------------------------------------------------------------------
(* The steps that touch a verdict, and what they are to RunVerdict.         *)
Begins(r) ==
    /\ run[r].status = "none" /\ completed' = completed
    /\ \A q \in Runs : run'[q].status = IF q = r THEN "running" ELSE run[q].status

Settles(r) ==
    /\ run[r].status = "running" /\ completed' = completed
    /\ \E v \in Verdicts :
         \A q \in Runs : run'[q].status = IF q = r THEN v ELSE run[q].status

Announces(r) ==
    /\ run[r].status \in Verdicts /\ completed[r] = <<>>
    /\ completed' = [completed EXCEPT ![r] = <<run[r].status>>]
    /\ \A q \in Runs : run'[q].status = run[q].status

LEMMA InsertStep ==
    ASSUME IInv, NEW r \in Runs, Insert(r)
    PROVE  IInv' /\ Begins(r)
  <1>. USE DEF IInv
  <1>1. /\ sup(r) \in Thread /\ th[sup(r)] \in Local /\ th[sup(r)].pc = "insert"
        /\ \A q \in Runs : sup(q) \in Thread /\ (sup(q) = sup(r) => q = r)
    BY ThreadNames DEF TypeOK, Insert
  <1>2. run[r].status = "none"
    BY <1>1 DEF Rowless, Early
  <1> DEFINE row == [NoRow EXCEPT !.status = "running", !.fresh = TRUE, !.driven = th[sup(r)].adv]
             x == IF server = "draining" /\ ~th[sup(r)].adv THEN Idle
                  ELSE [Idle EXCEPT !.pc = "wait", !.run = r]
  <1>3. row \in Row /\ row.status = "running"
    BY <1>1 DEF NoRow, Row, Local
  <1>4. x \in Local /\ x.pc \in {"idle", "wait"}
    BY IdleLocal DEF Idle, Local, Pc, Callers
  <1>5. run' = [run EXCEPT ![r] = row] /\ th' = [th EXCEPT ![sup(r)] = x]
    BY DEF Insert
  <1> HIDE DEF row, x
  <1>6. completed' = completed
    BY DEF Insert
  <1>7. \A q \in Runs : run'[q].status = IF q = r THEN "running" ELSE run[q].status
    BY <1>3, <1>5 DEF TypeOK
  <1>8. /\ th'[sup(r)].pc \in {"idle", "wait"}
        /\ \A t \in Thread : t # sup(r) => th'[t] = th[t]
    BY <1>1, <1>4, <1>5 DEF TypeOK
  <1>9. TypeOK'
    <2>1. run' \in [Runs -> Row]
      BY <1>3, <1>5 DEF TypeOK
    <2>2. th' \in [Thread -> Local]
      BY <1>4, <1>5 DEF TypeOK
    <2>. QED
      BY <2>1, <2>2 DEF TypeOK, Insert
  <1>10. \A t \in Thread : th'[t].pc \in Settling => t # sup(r) /\ th'[t] = th[t]
    BY <1>8 DEF Settling
  <1>11. Busy'
    BY <1>10 DEF Busy
  <1>12. ASSUME NEW t \in Thread, th'[t].pc \in InTail
         PROVE  th'[t] = th[t] /\ th[t].run \in Runs /\ th[t].run # r
    BY <1>2, <1>10, <1>12 DEF Busy, Holding, InTail, Settling, Verdicts
  <1>13. Holding'
    BY <1>6, <1>7, <1>12 DEF Holding
  <1>14. Alone'
    BY <1>12 DEF Alone
  <1>15. Announced'
    BY <1>2, <1>6, <1>7 DEF Announced, Verdicts
  <1>16. Rowless'
    <2>1. SUFFICES ASSUME NEW q \in Runs, Early(th'[sup(q)])
                   PROVE  run'[q].status = "none"
      BY DEF Rowless, Early, sup
    <2>2. q # r
      BY <1>8, <2>1 DEF Early, Settling
    <2>3. th'[sup(q)] = th[sup(q)]
      BY <1>1, <1>8, <2>2
    <2>. QED
      BY <1>7, <2>1, <2>2, <2>3 DEF Rowless
  <1>. QED
    BY <1>2, <1>6, <1>7, <1>9, <1>11, <1>13, <1>14, <1>15, <1>16 DEF Begins

(* The claim that wins.                                                     *)
LEMMA ClaimStep ==
    ASSUME IInv, NEW t \in Thread, claim_completion(t), run[th[t].run].status = "running"
    PROVE  IInv' /\ Settles(th[t].run)
  <1>. USE DEF IInv
  <1> DEFINE r == th[t].run
             v == th[t].verdict
  <1>1. th[t] \in Local /\ th[t].pc = "claim" /\ r \in Runs /\ v \in Verdicts
    BY DEF TypeOK, claim_completion, Busy, Settling
  <1>2. /\ run' = [run EXCEPT ![r].status = v, ![r].finished = TRUE]
        /\ th' = [th EXCEPT ![t].pc = "tail"]
        /\ completed' = completed
    BY DEF claim_completion, Goto
  <1>3. completed[r] = <<>>
    BY <1>1 DEF Announced, Verdicts
  <1>4. /\ th'[t].pc = "tail" /\ th'[t].run = r /\ th'[t].verdict = v
        /\ th'[t].back = th[t].back
        /\ \A u \in Thread : u # t => th'[u] = th[u]
    BY <1>1, <1>2 DEF TypeOK, Local
  <1>5. \A q \in Runs : run'[q].status = IF q = r THEN v ELSE run[q].status
    BY <1>1, <1>2 DEF TypeOK, Row
  <1>6. TypeOK'
    <2>1. run' \in [Runs -> Row]
      BY ZenonT(90), <1>1, <1>2 DEF TypeOK, Row
    <2>2. th' \in [Thread -> Local]
      BY <1>1, <1>2 DEF TypeOK, Local, Pc, Settling
    <2>. QED
      BY <2>1, <2>2 DEF TypeOK, claim_completion
  <1> HIDE DEF r, v
  <1>7. Busy'
    BY <1>1, <1>4 DEF Busy
  <1>8. ASSUME NEW u \in Thread, u # t, th'[u].pc \in InTail
        PROVE  th'[u] = th[u] /\ th[u].run \in Runs /\ th[u].run # r
    <2>1. th'[u] = th[u] /\ th[u].run \in Runs /\ th[u].verdict \in Verdicts
      BY <1>4, <1>8 DEF Busy, InTail, Settling
    <2>2. run[th[u].run].status # "running"
      BY <1>8, <2>1 DEF Holding, Verdicts
    <2>. QED
      BY <2>1, <2>2 DEF r
  <1>9. Holding'
    <2>1. SUFFICES ASSUME NEW u \in Thread, th'[u].pc \in InTail
                   PROVE  /\ run'[th'[u].run].status = th'[u].verdict
                          /\ completed'[th'[u].run] = <<>>
      BY DEF Holding
    <2>2. CASE u = t
      <3>1. run'[r].status = v /\ completed'[r] = <<>>
        BY <1>1, <1>2, <1>3, <1>5
      <3>. QED
        BY <1>4, <2>2, <3>1
    <2>3. CASE u # t
      <3>1. th'[u] = th[u] /\ th[u].run \in Runs /\ th[u].run # r
        BY <1>8, <2>1, <2>3
      <3>2. run[th[u].run].status = th[u].verdict /\ completed[th[u].run] = <<>>
        BY <2>1, <3>1 DEF Holding
      <3>3. run'[th[u].run].status = th[u].verdict /\ completed'[th[u].run] = <<>>
        BY <1>2, <1>5, <3>1, <3>2
      <3>. QED
        BY <3>1, <3>3
    <2>. QED
      BY <2>2, <2>3
  <1>10. Alone'
    BY <1>4, <1>8 DEF Alone
  <1>11. Announced'
    BY <1>1, <1>2, <1>5 DEF Announced
  <1>12. Rowless'
    <2>1. SUFFICES ASSUME NEW q \in Runs, Early(th'[sup(q)])
                   PROVE  run'[q].status = "none"
      BY DEF Rowless, Early, sup
    <2>2. Early(th[sup(q)])
      BY <1>1, <1>4, <2>1, ThreadNames DEF Early, Settling
    <2>3. run[q].status = "none" /\ q # r
      BY <2>2 DEF Rowless, r
    <2>. QED
      BY <1>5, <2>3
  <1>. QED
    BY <1>1, <1>2, <1>5, <1>6, <1>7, <1>9, <1>10, <1>11, <1>12 DEF Settles, r

(* The end of the tail.                                                     *)
LEMMA AnnounceStep ==
    ASSUME IInv, NEW t \in Thread, complete_run_tail(t)
    PROVE  IInv' /\ Announces(th[t].run)
  <1>. USE DEF IInv
  <1> DEFINE r == th[t].run
             v == th[t].verdict
  <1>1. /\ th[t] \in Local /\ th[t].pc = "announce" /\ r \in Runs /\ v \in Verdicts
        /\ run[r].status = v /\ completed[r] = <<>>
    BY DEF TypeOK, complete_run_tail, Busy, Holding, Settling, InTail
  <1>2. completed' = [completed EXCEPT ![r] = <<v>>] /\ UNCHANGED run
    <2>1. completed' = [completed EXCEPT ![r] = Append(@, v)]
      BY DEF complete_run_tail
    <2>2. completed' = [completed EXCEPT ![r] = Append(<<>>, v)]
      BY <1>1, <2>1
    <2>3. Append(<<>>, v) = <<v>>
      BY <1>1
    <2>. QED
      BY <2>2, <2>3 DEF complete_run_tail
  <1>3. th' = [th EXCEPT ![t] = Return(t)]
    BY DEF complete_run_tail
  <1>4. Moved
    BY <1>1, <1>3, ReturnMove DEF Settling
  <1>5. Return(t).pc \notin Settling
    BY <1>1, Callers_Pc DEF Return, Local, Idle, Settling
  <1>6. th'[t].pc \notin Settling /\ \A u \in Thread : u # t => th'[u] = th[u]
    BY <1>3, <1>5 DEF TypeOK
  <1>7. TypeOK'
    <2>1. completed' \in [Runs -> Seq(Verdicts)]
      BY <1>1, <1>2 DEF TypeOK
    <2>2. th' \in [Thread -> Local]
      BY <1>4 DEF Moved
    <2>. QED
      BY <2>1, <2>2 DEF TypeOK, complete_run_tail
  <1>8. Busy'
    BY <1>6 DEF Busy
  <1>9. ASSUME NEW u \in Thread, th'[u].pc \in InTail
        PROVE  u # t /\ th'[u] = th[u] /\ th[u].run \in Runs /\ th[u].run # r
    <2>1. u # t /\ th'[u] = th[u]
      BY <1>6, <1>9 DEF InTail, Settling
    <2>. QED
      BY <1>1, <1>9, <2>1 DEF Alone, Busy, InTail, Settling
  <1> HIDE DEF r, v
  <1>10. Holding'
    BY <1>2, <1>9 DEF Holding, TypeOK
  <1>11. Alone'
    BY <1>9 DEF Alone
  <1>12. Announced'
    BY <1>1, <1>2 DEF Announced, TypeOK
  <1>13. Rowless'
    <2>1. SUFFICES ASSUME NEW q \in Runs, Early(th'[sup(q)])
                   PROVE  run[q].status = "none"
      BY <1>2 DEF Rowless, Early, sup
    <2>2. CASE sup(q) = t
      <3>1. th'[t].pc = th[t].back
        BY <1>1, <1>3 DEF Return, Idle, TypeOK
      <3>2. Early(th[t])
        BY <1>1, <1>6, <2>1, <2>2, <3>1, Callers_Pc DEF Early, Local, Callers, Settling
      <3>. QED
        BY <2>2, <3>2 DEF Rowless
    <2>3. CASE sup(q) # t
      BY <1>6, <2>1, <2>3, ThreadNames DEF Rowless
    <2>. QED
      BY <2>2, <2>3
  <1>. QED
    BY <1>1, <1>2, <1>7, <1>8, <1>10, <1>11, <1>12, <1>13 DEF Announces, r, v

(* The rest of complete_run is quiet.                                       *)
LEMMA QuietSettle ==
    ASSUME IInv, NEW t \in Thread,
           \/ claim_completion(t) /\ run[th[t].run].status # "running"
           \/ _stop_if_already_settled(t) \/ advance_stage_after_run(t)
           \/ settle_stage_after_failed_completion(t)
    PROVE  Quiet
  <1>. USE DEF IInv
  <1>1. th[t] \in Local
    BY DEF TypeOK
  <1>2. ASSUME th[t].pc \in InTail, NEW p \in InTail, Goto(t, p)
        PROVE  Moved
    <2>1. th' = [th EXCEPT ![t] = [th[t] EXCEPT !.pc = p]]
      BY <1>2 DEF Goto
    <2>2. [th[t] EXCEPT !.pc = p] \in Local
      BY <1>1 DEF Local, Pc, Settling, InTail
    <2>. QED
      BY <1>2, <2>1, <2>2 DEF Moved, TypeOK
  <1>3. CASE claim_completion(t) /\ run[th[t].run].status # "running"
    <2>1. th' = [th EXCEPT ![t] = Return(t)] /\ UNCHANGED run
      BY <1>3 DEF claim_completion
    <2>2. Moved
      BY <1>3, <2>1, ReturnMove DEF claim_completion, Settling
    <2>. QED
      BY <1>3, <2>1, <2>2 DEF Quiet, Moved, Kept, TypeOK, claim_completion
  <1>4. CASE _stop_if_already_settled(t)
    <2>1. PICK p \in InTail : Goto(t, p)
      BY <1>4 DEF _stop_if_already_settled, InTail
    <2>2. Moved
      BY <1>2, <1>4, <2>1 DEF _stop_if_already_settled, InTail
    <2>. QED
      BY <1>4, <2>2 DEF Quiet, Moved, Kept, TypeOK, _stop_if_already_settled
  <1>5. CASE advance_stage_after_run(t)
    <2>1. Moved
      BY <1>2, <1>5 DEF advance_stage_after_run, InTail
    <2>2. left' \in [Events -> Nat]
      BY <1>5, SpendType DEF advance_stage_after_run, Events, TypeOK
    <2>3. stage' \in Stage
      BY <1>5 DEF advance_stage_after_run, Stage
    <2>. QED
      BY <1>5, <2>1, <2>2, <2>3 DEF Quiet, Moved, Kept, TypeOK, advance_stage_after_run
  <1>6. CASE settle_stage_after_failed_completion(t)
    <2>1. Moved
      BY <1>6, ReturnMove DEF settle_stage_after_failed_completion, Settling
    <2>2. left' \in [Events -> Nat]
      BY <1>6, SpendType DEF settle_stage_after_failed_completion, Events
    <2>3. stage' \in Stage
      BY <1>6 DEF settle_stage_after_failed_completion, Stage, TypeOK
    <2>. QED
      BY <1>6, <2>1, <2>2, <2>3
         DEF Quiet, Moved, Kept, TypeOK, settle_stage_after_failed_completion
  <1>. QED
    BY <1>3, <1>4, <1>5, <1>6

-----------------------------------------------------------------------------
LEMMA InitInv == Init => IInv
  <1>. SUFFICES ASSUME Init
                PROVE  IInv
    OBVIOUS
  <1>. USE DEF Init
  <1>1. run \in [Runs -> Row]
    BY DEF NoRow, Row, Verdicts
  <1>2. th \in [Thread -> Local]
    BY IdleLocal
  <1>3. left \in [Events -> Nat]
    BY RunsAssumption
  <1>4. completed \in [Runs -> Seq(Verdicts)]
    OBVIOUS
  <1>5. TypeOK
    BY <1>1, <1>2, <1>3, <1>4 DEF TypeOK, Stage, Agent
  <1>6. \A t \in Thread : th[t].pc = "idle"
    BY DEF Idle
  <1>7. Busy /\ Holding /\ Alone
    BY <1>6 DEF Busy, Holding, Alone, InTail, Settling
  <1>8. Announced
    BY DEF Announced
  <1>9. Rowless
    BY <1>6, ThreadNames DEF Rowless, Early, Settling
  <1>. QED
    BY <1>5, <1>7, <1>8, <1>9 DEF IInv

(* Every step is quiet, or one of the three.                                *)
LEMMA NextStep ==
    ASSUME IInv, Next
    PROVE  IInv' /\ (Kept \/ \E r \in Runs : Begins(r) \/ Settles(r) \/ Announces(r))
  <1>1. ASSUME Quiet
        PROVE  IInv' /\ Kept
    BY <1>1, QuietSteps DEF Quiet
  <1>2. ASSUME NEW r \in Runs, Supervise(r) \/ NotAdmitted(r) \/ Resupervise(r)
        PROVE  IInv' /\ (Kept \/ Begins(r))
    <2>1. CASE Insert(r)
      BY <2>1, InsertStep
    <2>2. CASE Supersede(r) \/ Mark(r)
      BY <1>1, <2>2, QuietDispatch
    <2>3. CASE \/ Admitted(r) \/ NotAdmitted(r) \/ ensure_still_in_flight(r) \/ Spawn(r)
               \/ record_process_identity(r)
      BY <1>1, <2>3, QuietStart
    <2>4. CASE run_print_mode(r) \/ AfterStage(r)
      BY <1>1, <2>4, QuietSupervisor
    <2>5. CASE Resupervise(r)
      BY <1>1, <2>5, QuietResupervisor
    <2>. QED
      BY <1>2, <2>1, <2>2, <2>3, <2>4, <2>5 DEF Supervise
  <1>3. ASSUME NEW t \in Thread, Settle(t)
        PROVE  IInv' /\ (Kept \/ \E r \in Runs : Settles(r) \/ Announces(r))
    <2>1. th[t].run \in Runs
      BY <1>3 DEF IInv, Busy, Settle, Settling, claim_completion, _stop_if_already_settled,
                  advance_stage_after_run, complete_run_tail,
                  settle_stage_after_failed_completion
    <2>2. CASE claim_completion(t) /\ run[th[t].run].status = "running"
      BY <2>1, <2>2, ClaimStep
    <2>3. CASE complete_run_tail(t)
      BY <2>1, <2>3, AnnounceStep
    <2>4. CASE \/ claim_completion(t) /\ run[th[t].run].status # "running"
               \/ _stop_if_already_settled(t) \/ advance_stage_after_run(t)
               \/ settle_stage_after_failed_completion(t)
      BY <1>1, <2>4, QuietSettle
    <2>. QED
      BY <1>3, <2>2, <2>3, <2>4 DEF Settle
  <1>4. ASSUME NEW r \in Runs,
               \/ start_run_async(r) \/ start_orchestration_run(r)
               \/ AgentExits(r) \/ renew_agent_run_lease(r) \/ LeaseLapses(r)
               \/ RenewalMissed(r) \/ request_cancel(r)
        PROVE  IInv' /\ Kept
    BY <1>1, <1>4, QuietDispatch, QuietOutside
  <1>5. ASSUME NEW t \in Thread, _fail_in_flight_children(t)
        PROVE  IInv' /\ Kept
    BY <1>1, <1>5, QuietChildren
  <1>6. ASSUME NEW t \in {sweep, boot}, Strand(t)
        PROVE  IInv' /\ Kept
    BY <1>1, <1>6, QuietStranded
  <1>7. ASSUME stop_detached_process \/ EndFromOutside
        PROVE  IInv' /\ Kept
    BY <1>1, <1>7, QuietWeb
  <1>8. ASSUME reconcile_once \/ Sweep \/ Restart
        PROVE  IInv' /\ Kept
    BY <1>1, <1>8, QuietSweep, QuietReattach, QuietRestart DEF Restart
  <1>9. ASSUME Drain \/ end_drain \/ Crash \/ Boot
        PROVE  IInv' /\ Kept
    BY <1>1, <1>9, QuietServer
  <1>. QED
    BY <1>2, <1>3, <1>4, <1>5, <1>6, <1>7, <1>8, <1>9 DEF Next

LEMMA StutterStep ==
    ASSUME IInv, UNCHANGED vars
    PROVE  IInv' /\ Kept
  <1>1. Quiet
    BY QuietThreads DEF Quiet, Kept, vars, IInv, TypeOK
  <1>. QED
    BY <1>1, QuietSteps DEF Quiet

LEMMA Invariance == Spec => []IInv
  <1>1. IInv /\ [Next]_vars => IInv'
    BY NextStep, StutterStep
  <1>. QED
    BY <1>1, InitInv, PTL DEF Spec, Safety

(* The types of the model: every row, event, thread and budget.             *)
THEOREM TypeCorrect == Spec => []TypeOK
  <1>1. IInv => TypeOK
    BY DEF IInv
  <1>. QED
    BY <1>1, Invariance, PTL

-----------------------------------------------------------------------------
(* The three steps are the steps of RunVerdict.                             *)
LEMMA InitMaps == Init => Verdict!Init
  BY DEF Init, Verdict!Init, NoRow

LEMMA StepMaps ==
    ASSUME IInv, Next
    PROVE  [Verdict!Next]_Verdict!vars
  <1> DEFINE verdict == [r \in Runs |-> run[r].status]
  <1>1. completed \in [Runs -> Seq(Verdicts)]
    BY DEF IInv, TypeOK
  <1>2. CASE Kept
    BY <1>2 DEF Kept, Verdict!vars
  <1>3. ASSUME NEW r \in Runs, Begins(r)
        PROVE  Verdict!Begin(r)
    <2>1. verdict[r] = "none" /\ verdict' = [verdict EXCEPT ![r] = "running"]
      BY <1>3 DEF Begins
    <2>. QED
      BY <1>3, <2>1 DEF Begins, Verdict!Begin
  <1>4. ASSUME NEW r \in Runs, Settles(r)
        PROVE  Verdict!Settle(r)
    <2>1. verdict[r] = "running"
      BY <1>4 DEF Settles
    <2>2. PICK v \in Verdicts :
            \A q \in Runs : run'[q].status = IF q = r THEN v ELSE run[q].status
      BY <1>4 DEF Settles
    <2>3. verdict' = [verdict EXCEPT ![r] = v]
      BY <2>2
    <2>. QED
      BY <1>4, <2>1, <2>3 DEF Settles, Verdict!Settle, Verdict!Verdicts, Verdicts
  <1>5. ASSUME NEW r \in Runs, Announces(r)
        PROVE  Verdict!Announce(r)
    <2>1. verdict[r] = run[r].status /\ verdict' = verdict
      BY <1>5 DEF Announces
    <2>. QED
      BY <1>5, <2>1 DEF Announces, Verdict!Announce, Verdict!Verdicts, Verdicts
  <1>. QED
    BY <1>2, <1>3, <1>4, <1>5, NextStep DEF Verdict!Next

LEMMA StutterMaps == UNCHANGED vars => UNCHANGED Verdict!vars
  BY DEF vars, Verdict!vars

(* However supervisors, resupervisors, stops, sweeps, boots and crashes     *)
(* interleave, a run gets one verdict, which stands, and no other verdict   *)
(* is announced: RunLifecycle implements RunVerdict.                        *)
THEOREM VerdictStands == Spec => OneVerdict
  <1>1. IInv /\ [Next]_vars => [Verdict!Next]_Verdict!vars
    BY StepMaps, StutterMaps
  <1>. QED
    BY <1>1, InitMaps, Invariance, PTL DEF Spec, Safety, OneVerdict, Verdict!Safe
=============================================================================
