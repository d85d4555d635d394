------------------------ MODULE PermissionBridgeProofs ------------------------
(***************************************************************************)
(* For any number of requests, of people who answer, and any troubles: what *)
(* an agent is told about a request is an answer that was given about that  *)
(* request, and a run whose thread has come home was announced unless one   *)
(* of its requests was refused.                                             *)
(***************************************************************************)
EXTENDS PermissionBridge, TLAPS

(* A thread that completes the run has a verdict to complete it with.       *)
Decided == bridge.pc \in {"claim", "tail"} => bridge.verdict \in Verdicts

Typed == TypeOK /\ Decided

Asks(i) == lines[i].kind = "ask"

(* What the agent asked and nobody has read stands once on its stdout, is   *)
(* unanswered, and no card is about it.                                     *)
Unread ==
    \A i \in 1 .. Len(lines) : Asks(i) =>
        /\ lines[i].request \in Requests
        /\ told[lines[i].request] = "waiting" /\ card[lines[i].request] = "none"
        /\ bridge.pc = "answer" => lines[i].request # bridge.request
        /\ \A j \in 1 .. Len(lines) :
             Asks(j) /\ lines[j].request = lines[i].request => i = j

(* The request in hand is unanswered until the thread answers it.           *)
InHand ==
    /\ bridge.pc \in {"answer", "raised", "resume", "resumed", "refuse", "refused"} =>
         bridge.request \in Requests
    /\ bridge.pc = "answer" => told[bridge.request] = "waiting" /\ card[bridge.request] = "none"
    /\ bridge.pc = "raised" => told[bridge.request] = "waiting" /\ card[bridge.request] # "none"
    /\ bridge.card # 0 /\ bridge.pc \in {"loop", "turn"} => told[bridge.card] = "waiting"

Unasked == \A q \in Requests : told[q] = "unasked" => card[q] = "none"

Unanswered == \A q \in Requests : card[q] = "none" => given[q] = {}

(* What a person or a stop has selected was raised.                         *)
Selected == \A q \in deciding \cup stop.cards : card[q] # "none"

(* A refusal in hand was told.                                              *)
RefusalTold == bridge.pc \in {"refuse", "refused"} => told[bridge.request] = "refused"

Answering == Unread /\ InHand /\ Unasked /\ Unanswered /\ RefusalTold /\ AnswersAreTheirOwn

Refused == \E q \in Requests : told[q] = "refused"

(* A verdict on the row was announced, or is about to be by the thread that *)
(* wrote it, or died with its server, or is a refusal's; and a thread that  *)
(* is over has not left the announcement to nobody.                         *)
Announcing ==
    /\ run.status \in Verdicts =>
         completed # <<>> \/ Refused \/ other = "tail" \/ bridge.pc \in {"tail", "dead"}
    /\ bridge.pc = "over" => completed # <<>> \/ Refused \/ other = "tail"

BridgeInv == Typed /\ Selected /\ Answering /\ Announcing

(* The types, in the groups that steps disturb.                             *)
RowsTyped ==
    /\ run \in [status : IN_FLIGHT \cup Verdicts, cancel : BOOLEAN]
    /\ completed \in Seq(Verdicts)
    /\ stage \in {"pending", "running", "awaiting", "blocked", "done"}
    /\ card \in [Requests -> {"none", "pending", "approved", "rejected"}]
    /\ given \in [Requests -> SUBSET {"approved", "rejected"}]

ProcTyped == told \in [Requests -> Told] /\ agent \in Agent /\ lines \in Seq(Line)

Waits ==
    bridge.card # 0 =>
      /\ bridge.card = bridge.request /\ card[bridge.card] # "none"
      /\ bridge.pc \in {"loop", "turn", "claim", "tail", "over"}

ThreadTyped == bridge \in Local /\ Waits /\ Decided

OthersTyped ==
    /\ other \in {"idle", "tail"} /\ sweep \in BOOLEAN /\ left \in [Events -> Nat]
    /\ deciding \subseteq Requests
    /\ stop \in [pc : {"idle", "select", "commit"}, cards : SUBSET Requests]

(* What a step does to each variable, whoever takes it.                     *)
RunMoves ==
    \/ run' = run
    \/ \E s \in {"running", "awaiting", "failed"} : run' = [run EXCEPT !.status = s]
    \/ bridge.pc = "claim" /\ run' = [run EXCEPT !.status = bridge.verdict]
    \/ run' = [run EXCEPT !.cancel = TRUE]

CompletedMoves ==
    \/ completed' = completed
    \/ completed' = Append(completed, "failed")
    \/ bridge.pc = "tail" /\ completed' = Append(completed, bridge.verdict)

CardMoves ==
    \/ UNCHANGED <<card, given>>
    \/ card' = [card EXCEPT ![bridge.request] = "pending"] /\ UNCHANGED given
    \/ \E q \in deciding, a \in {"approved", "rejected"} : Answer({q}, a)
    \/ Answer(stop.cards, "rejected")

PeopleMove ==
    \/ UNCHANGED <<deciding, stop>>
    \/ \E q \in Requests : card[q] = "pending" /\ deciding' = deciding \cup {q} /\ UNCHANGED stop
    \/ \E p \in {"select", "commit"} : stop' = [stop EXCEPT !.pc = p] /\ UNCHANGED deciding
    \/ /\ stop' = [pc |-> "commit", cards |-> {q \in Requests : card[q] = "pending"}]
       /\ UNCHANGED deciding
    \/ stop' = NoStop /\ deciding' \in {deciding, {}}

LinesMove ==
    \/ lines' = lines
    \/ lines # <<>> /\ lines' = Tail(lines)
    \/ \E q \in Requests : lines' = Append(lines, [kind |-> "ask", request |-> q])
    \/ \E k \in {"ok", "error"} : lines' = Append(lines, Result(k))

ThreadMoves ==
    \/ bridge' = bridge
    \/ \E p \in {"loop", "turn", "over"} :
          bridge.pc \in {"loop", "turn", "claim", "tail", "answer", "resumed"} /\ Goto(p)
    \/ bridge.pc = "claim" /\ Goto("tail")
    \/ \E p \in {"raised", "resumed", "refused"} :
          bridge.pc \in {"answer", "resume", "refuse"} /\ Goto(p)
    \/ \E p \in {"resume", "refuse", "dead"} : bridge' = [bridge EXCEPT !.pc = p, !.card = 0]
    \/ \E v \in Verdicts : Return(v)
    \/ /\ lines # <<>> /\ bridge.card = 0
       /\ bridge' = [bridge EXCEPT !.pc = "answer", !.request = Head(lines).request]
    \/ bridge.pc = "raised" /\ bridge' = [bridge EXCEPT !.pc = "loop", !.card = bridge.request]

-----------------------------------------------------------------------------
(* Typed, group by group.                                                   *)
LEMMA TypedParts == Typed <=> RowsTyped /\ ProcTyped /\ ThreadTyped /\ OthersTyped
BY DEF Typed, TypeOK, RowsTyped, ProcTyped, ThreadTyped, OthersTyped, Waits

(* Initially nothing was asked.                                             *)
LEMMA BridgeInit == Init => BridgeInv
<1> SUFFICES ASSUME Init PROVE BridgeInv
  OBVIOUS
<1>1. RowsTyped
  BY DEF Init, RowsTyped, IN_FLIGHT
<1>2. ProcTyped
  BY DEF Init, ProcTyped, Told, Agent
<1>3. ThreadTyped
  BY DEF Init, ThreadTyped, Waits, Decided, Local, PC
<1>4. OthersTyped
  BY BridgeAssumption DEF Init, OthersTyped, NoStop
<1>5. Answering
  BY DEF Init, Answering, Unread, InHand, Unasked, Unanswered, RefusalTold, AnswersAreTheirOwn
<1>6. Announcing
  BY DEF Init, Announcing, Verdicts
<1>7. Selected
  BY DEF Init, Selected, NoStop
<1> QED BY <1>1, <1>2, <1>3, <1>4, <1>5, <1>6, <1>7, TypedParts DEF BridgeInv

(* Every action makes one of the moves.                                     *)
LEMMA Moves ==
    ASSUME [Next]_vars
    PROVE  /\ RunMoves /\ CompletedMoves /\ CardMoves /\ PeopleMove /\ LinesMove /\ ThreadMoves
           /\ Typed => told' \in [Requests -> Told]
           /\ Typed => stage' \in {"pending", "running", "awaiting", "blocked", "done"}
           /\ Typed => agent' \in Agent
           /\ Typed => other' \in {"idle", "tail"}
           /\ sweep' \in {sweep, TRUE, FALSE}
           /\ left' = left \/ \E e \in Events : Spend(e)
<1> USE DEF Next, Bridge, Settlers, Stopping, Reconcile, vars, rows, proc, cards, people, Goto,
      Return, Ask, ReadPending, resolve, WriteResult, Exit, OutOfTime, _check_cancel,
      request_cancel, _reject_pending_approvals, CommitCancel, Detect,
      block_unasked_awaits, Crash, fail_interrupted_runs, OtherTail, _finalize, TakeTurn,
      _continue_while_awaiting, _handle_pending_approval, _resume_after_approval,
      _fail_after_rejection, WriteFailed, _handle_next_line, _scope_denial_result,
      _try_fast_approve, BrokenPipe, _create_permission_approval, claim_completion,
      complete_run_tail
<1>1. RunMoves
  BY DEF RunMoves
<1>2. CompletedMoves
  BY DEF CompletedMoves
<1>3. CardMoves
  BY DEF CardMoves
<1>4. LinesMove
  BY DEF LinesMove
<1>5. ThreadMoves
  BY DEF ThreadMoves, Verdicts
<1>6. Typed => told' \in [Requests -> Told]
  BY DEF Typed, TypeOK, Told
<1>7. Typed => stage' \in {"pending", "running", "awaiting", "blocked", "done"}
  BY DEF Typed, TypeOK, Route
<1>8. Typed => agent' \in Agent
  BY DEF Typed, TypeOK, Agent, Killed, Alive
<1>9. Typed => other' \in {"idle", "tail"}
  BY DEF Typed, TypeOK
<1>10. sweep' \in {sweep, TRUE, FALSE}
  OBVIOUS
<1>11. left' = left \/ \E e \in Events : Spend(e)
  BY DEF Events
<1>12. PeopleMove
  BY DEF PeopleMove
<1> HIDE DEF Next
<1> QED BY <1>1, <1>2, <1>3, <1>4, <1>5, <1>6, <1>7, <1>8, <1>9, <1>10, <1>11, <1>12

(* A card that was raised stays.                                            *)
LEMMA CardsStay ==
    ASSUME Typed, [Next]_vars, NEW q \in Requests, card[q] # "none"
    PROVE  card'[q] # "none"
<1>1. card \in [Requests -> {"none", "pending", "approved", "rejected"}]
  BY DEF Typed, TypeOK
<1> QED BY <1>1, Moves DEF CardMoves, Answer

LEMMA SelectedNext == Typed /\ Selected /\ [Next]_vars => Selected'
<1> SUFFICES ASSUME Typed, Selected, [Next]_vars PROVE Selected'
  OBVIOUS
<1>1. deciding \subseteq Requests /\ stop \in [pc : {"idle", "select", "commit"}, cards : SUBSET Requests]
  BY DEF Typed, TypeOK
<1>2. \A q \in deciding \cup stop.cards : card'[q] # "none"
  BY <1>1, CardsStay DEF Selected
<1>3. \A q \in Requests : card[q] = "pending" => card'[q] # "none"
  BY CardsStay
<1>4. PeopleMove
  BY Moves
<1>5. CASE UNCHANGED <<deciding, stop>>
  BY <1>2, <1>5 DEF Selected
<1>6. ASSUME NEW q \in Requests, card[q] = "pending", deciding' = deciding \cup {q}, UNCHANGED stop
      PROVE  Selected'
  BY <1>2, <1>3, <1>6 DEF Selected
<1>7. CASE (\E p \in {"select", "commit"} : stop' = [stop EXCEPT !.pc = p]) /\ UNCHANGED deciding
  <2>1. stop'.cards = stop.cards
    BY <1>1, <1>7
  <2> QED BY <1>2, <1>7, <2>1 DEF Selected
<1>8. CASE /\ stop' = [pc |-> "commit", cards |-> {q \in Requests : card[q] = "pending"}]
           /\ UNCHANGED deciding
  <2>1. stop'.cards = {q \in Requests : card[q] = "pending"}
    BY <1>8
  <2> QED BY <1>2, <1>3, <1>8, <2>1 DEF Selected
<1>9. CASE stop' = NoStop /\ deciding' \in {deciding, {}}
  <2>1. stop'.cards = {}
    BY <1>9 DEF NoStop
  <2> QED BY <1>2, <1>9, <2>1 DEF Selected
<1> QED BY <1>4, <1>5, <1>6, <1>7, <1>8, <1>9 DEF PeopleMove

(* A step keeps the types.                                                  *)
LEMMA TypedNext == Typed /\ Selected /\ Answering /\ [Next]_vars => Typed'
<1> SUFFICES ASSUME Typed, Selected, Answering, [Next]_vars PROVE Typed'
  OBVIOUS
<1>0. RowsTyped /\ ProcTyped /\ ThreadTyped /\ OthersTyped
  BY TypedParts
<1>1. RowsTyped'
  <2>1. run' \in [status : IN_FLIGHT \cup Verdicts, cancel : BOOLEAN]
    BY <1>0, Moves DEF RunMoves, RowsTyped, ThreadTyped, Decided, IN_FLIGHT, Verdicts
  <2>2. completed' \in Seq(Verdicts)
    <3>1. \A v \in Verdicts : Append(completed, v) \in Seq(Verdicts)
      BY <1>0 DEF RowsTyped
    <3>2. bridge.pc = "tail" => bridge.verdict \in Verdicts
      BY <1>0 DEF ThreadTyped, Decided
    <3> QED BY <1>0, <3>1, <3>2, Moves DEF CompletedMoves, RowsTyped, Verdicts
  <2>3. ASSUME NEW S, NEW a \in {"approved", "rejected"}, Answer(S, a)
        PROVE  /\ card' \in [Requests -> {"none", "pending", "approved", "rejected"}]
               /\ given' \in [Requests -> SUBSET {"approved", "rejected"}]
    <3>1. \A q \in Requests : given[q] \cup {a} \in SUBSET {"approved", "rejected"}
      BY <1>0 DEF RowsTyped
    <3> QED BY <1>0, <2>3, <3>1 DEF RowsTyped, Answer
  <2>4. /\ card' \in [Requests -> {"none", "pending", "approved", "rejected"}]
        /\ given' \in [Requests -> SUBSET {"approved", "rejected"}]
    <3>1. CASE UNCHANGED <<card, given>>
      BY <1>0, <3>1 DEF RowsTyped
    <3>2. CASE card' = [card EXCEPT ![bridge.request] = "pending"] /\ UNCHANGED given
      BY <1>0, <3>2 DEF RowsTyped
    <3>3. ASSUME NEW q \in deciding, NEW a \in {"approved", "rejected"}, Answer({q}, a)
          PROVE  /\ card' \in [Requests -> {"none", "pending", "approved", "rejected"}]
                 /\ given' \in [Requests -> SUBSET {"approved", "rejected"}]
      BY <2>3, <3>3
    <3>4. Answer(stop.cards, "rejected") =>
            /\ card' \in [Requests -> {"none", "pending", "approved", "rejected"}]
            /\ given' \in [Requests -> SUBSET {"approved", "rejected"}]
      BY <2>3
    <3>5. CardMoves
      BY Moves
    <3> QED BY <3>1, <3>2, <3>3, <3>4, <3>5 DEF CardMoves
  <2> QED BY <2>1, <2>2, <2>4, Moves DEF RowsTyped
<1>2. ProcTyped'
  <2>1. \A k \in {"ok", "error"} : Result(k) \in Line
    BY DEF Result, Line
  <2>2. \A q \in Requests : [kind |-> "ask", request |-> q] \in Line
    BY DEF Line
  <2>3. \A l \in Line : Append(lines, l) \in Seq(Line)
    BY <1>0 DEF ProcTyped
  <2>4. lines # <<>> => Tail(lines) \in Seq(Line)
    BY <1>0 DEF ProcTyped
  <2>5. lines' \in Seq(Line)
    BY <1>0, Moves, <2>1, <2>2, <2>3, <2>4 DEF LinesMove, ProcTyped
  <2> QED BY <2>5, Moves DEF ProcTyped
<1>3. ThreadTyped'
  <2>1. bridge \in Local /\ Waits /\ Decided
    BY <1>0 DEF ThreadTyped
  <2>2. lines # <<>> => Head(lines) \in Line
    BY <1>0 DEF ProcTyped
  <2>3. lines # <<>> => Head(lines).request \in Requests \cup {0}
    BY <2>2 DEF Line
  <2>4. bridge' \in Local
    BY <2>1, <2>3, Moves DEF ThreadMoves, Local, PC, Goto, Return
  <2>5. \A q \in Requests : card[q] # "none" => card'[q] # "none"
    BY CardsStay
  <2>6. bridge.pc = "raised" => card[bridge.request] # "none" /\ bridge.request \in Requests
    BY DEF Answering, InHand
  <2>7. Waits'
    BY <2>1, <2>3, <2>4, <2>5, <2>6, Moves, BridgeAssumption
       DEF ThreadMoves, Waits, Local, PC, Goto, Return
  <2>8. Decided'
    BY <2>1, Moves DEF ThreadMoves, Decided, Local, Goto, Return
  <2> QED BY <2>4, <2>7, <2>8 DEF ThreadTyped
<1>4. OthersTyped'
  <2>1. left' \in [Events -> Nat]
    <3>1. ASSUME NEW e \in Events, Spend(e) PROVE left' \in [Events -> Nat]
      <4>1. left[e] - 1 \in Nat
        BY <1>0, <3>1 DEF OthersTyped, Spend
      <4> QED BY <1>0, <3>1, <4>1 DEF OthersTyped, Spend
    <3> QED BY <1>0, <3>1, Moves DEF OthersTyped
  <2>2. deciding' \subseteq Requests
    BY <1>0, Moves DEF PeopleMove, OthersTyped
  <2>3. stop' \in [pc : {"idle", "select", "commit"}, cards : SUBSET Requests]
    <3>1. \A p \in {"select", "commit"} :
             [stop EXCEPT !.pc = p] \in [pc : {"idle", "select", "commit"}, cards : SUBSET Requests]
      BY <1>0 DEF OthersTyped
    <3>2. [pc |-> "commit", cards |-> {q \in Requests : card[q] = "pending"}]
            \in [pc : {"idle", "select", "commit"}, cards : SUBSET Requests]
      OBVIOUS
    <3>3. NoStop \in [pc : {"idle", "select", "commit"}, cards : SUBSET Requests]
      BY DEF NoStop
    <3> QED BY <1>0, <3>1, <3>2, <3>3, Moves DEF PeopleMove, OthersTyped
  <2> QED BY <1>0, <2>1, <2>2, <2>3, Moves DEF OthersTyped
<1> QED
  BY <1>1, <1>2, <1>3, <1>4
     DEF Typed, TypeOK, RowsTyped, ProcTyped, ThreadTyped, OthersTyped, Waits, Decided

(* Reading takes the first line off.                                        *)
LEMMA Reading ==
    ASSUME NEW S, NEW s \in Seq(S), s # <<>>
    PROVE  /\ Len(s) \in Nat /\ 1 \in 1 .. Len(s) /\ Head(s) = s[1]
           /\ \A i \in 1 .. Len(Tail(s)) : i + 1 \in 1 .. Len(s) /\ Tail(s)[i] = s[i + 1]
  OBVIOUS

(* And writing adds one at the end.                                         *)
LEMMA Writing ==
    ASSUME NEW S, NEW s \in Seq(S), NEW l
    PROVE  \A i \in 1 .. Len(Append(s, l)) :
             \/ i \in 1 .. Len(s) /\ Append(s, l)[i] = s[i]
             \/ i = Len(s) + 1 /\ Append(s, l)[i] = l
  OBVIOUS

(* Lines that lose their head, or gain a result, are no different to ask    *)
(* about: no request arrives, none twice.                                   *)
LEMMA FewerAsks ==
    ASSUME Unread, UNCHANGED <<told, card, given>>,
           bridge'.pc = "answer" => UNCHANGED bridge,
           NEW f, f \in {0, 1},
           \A i \in 1 .. Len(lines') :
             Asks(i)' => i + f \in 1 .. Len(lines) /\ lines'[i] = lines[i + f]
    PROVE  Unread'
BY DEF Unread, Asks

(* A move of the thread that answers nothing, with nothing new on stdout.   *)
LEMMA Quiet ==
    ASSUME Typed, Answering, UNCHANGED <<told, card, given, lines>>,
           \/ UNCHANGED bridge
           \/ /\ bridge'.request = bridge.request
              /\ bridge'.pc \notin {"answer", "raised", "resume", "refuse"}
              /\ bridge'.pc = "resumed" => bridge.pc = "resume"
              /\ bridge'.pc = "refused" => bridge.pc = "refuse"
              /\ bridge'.card # 0 /\ bridge'.pc \in {"loop", "turn"} =>
                   bridge'.card = bridge.card /\ bridge.pc \in {"loop", "turn"}
    PROVE  Answering'
<1> USE DEF Answering
<1>1. Unread'
  <2>1. bridge'.pc = "answer" => UNCHANGED bridge
    OBVIOUS
  <2> QED BY <2>1 DEF Unread, Asks
<1>2. InHand'
  BY DEF InHand
<1>3. Unasked'
  BY DEF Unasked
<1>4. RefusalTold'
  BY DEF RefusalTold
<1>5. Unanswered'
  BY DEF Unanswered
<1>6. AnswersAreTheirOwn'
  BY DEF AnswersAreTheirOwn
<1> QED BY <1>1, <1>2, <1>3, <1>4, <1>5, <1>6

(* The thread reads a line.                                                 *)
LEMMA NextLine == Typed /\ Answering /\ _handle_next_line => Answering'
<1> SUFFICES ASSUME Typed, Answering, _handle_next_line PROVE Answering'
  OBVIOUS
<1>0. lines \in Seq(Line) /\ bridge \in Local /\ UNCHANGED <<told, card, given>>
  BY DEF Typed, TypeOK, _handle_next_line, rows, cards
<1>1. CASE lines' = lines
  <2>1. lines # Tail(lines) \/ lines = <<>>
    BY <1>0
  <2>2. Goto("loop") /\ bridge.card = 0
    BY <1>1, <2>1, <1>0 DEF _handle_next_line
  <2> QED BY <1>0, <1>1, <2>2, Quiet DEF Goto, Local
<1>2. CASE lines # <<>> /\ lines' = Tail(lines)
  <2>1. \A i \in 1 .. Len(lines') : i + 1 \in 1 .. Len(lines) /\ lines'[i] = lines[i + 1]
    BY <1>0, <1>2, Reading
  <2>2. Head(lines) = lines[1] /\ 1 \in 1 .. Len(lines)
    BY <1>0, <1>2, Reading
  <2>3. CASE Head(lines).kind = "ask"
    <3>1. bridge'.pc = "answer" /\ bridge'.request = lines[1].request /\ bridge'.card = 0
      BY <1>0, <1>2, <2>2, <2>3 DEF _handle_next_line, Local
    <3>2. lines[1].request \in Requests /\ told[lines[1].request] = "waiting"
          /\ card[lines[1].request] = "none"
      BY <2>2, <2>3 DEF Answering, Unread, Asks
    <3>3. Unread'
      BY <1>0, <1>2, <2>1, <2>2, <2>3, <3>1, <3>2 DEF Answering, Unread, Asks
    <3>4. InHand' /\ RefusalTold'
      BY <1>0, <3>1, <3>2 DEF InHand, RefusalTold
    <3>5. Unasked' /\ Unanswered' /\ AnswersAreTheirOwn'
      BY <1>0, <3>1 DEF Answering, Unasked, Unanswered, AnswersAreTheirOwn
    <3> QED BY <3>3, <3>4, <3>5 DEF Answering
  <2>4. CASE Head(lines).kind # "ask"
    <3>1. bridge'.pc = "claim"
      BY <1>0, <1>2, <2>4 DEF _handle_next_line, Local, Return
    <3>2. Unread'
      BY <1>0, <2>1, <3>1, FewerAsks DEF Answering
    <3>3. InHand' /\ RefusalTold' /\ Unasked' /\ Unanswered' /\ AnswersAreTheirOwn'
      BY <1>0, <3>1 DEF Answering, InHand, RefusalTold, Unasked, Unanswered, AnswersAreTheirOwn
    <3> QED BY <3>2, <3>3 DEF Answering
  <2> QED BY <2>3, <2>4
<1> QED BY <1>1, <1>2 DEF _handle_next_line

(* A line is let go while a person is asked, or the agent writes its result.*)
LEMMA OtherLines ==
    Typed /\ Answering /\ (_continue_while_awaiting \/ WriteResult) => Answering'
<1> SUFFICES ASSUME Typed, Answering, _continue_while_awaiting \/ WriteResult
             PROVE  Answering'
  OBVIOUS
<1>0. lines \in Seq(Line) /\ bridge \in Local /\ UNCHANGED <<told, card, given>>
  BY DEF Typed, TypeOK, _continue_while_awaiting, WriteResult, rows, cards
<1>1. \/ bridge.pc = "turn" /\ Goto("loop")
      \/ UNCHANGED bridge
  BY DEF _continue_while_awaiting, WriteResult
<1>2. Unread'
  <2>1. CASE lines' = lines
    BY <1>0, <1>1, <2>1 DEF Answering, Unread, Asks, Goto, Local
  <2>2. CASE lines # <<>> /\ lines' = Tail(lines)
    <3>1. \A i \in 1 .. Len(lines') : i + 1 \in 1 .. Len(lines) /\ lines'[i] = lines[i + 1]
      BY <1>0, <2>2, Reading
    <3> QED BY <1>0, <1>1, <3>1, FewerAsks DEF Answering, Goto, Local
  <2>3. ASSUME NEW k \in {"ok", "error"}, lines' = Append(lines, Result(k))
        PROVE  Unread'
    <3>1. \A i \in 1 .. Len(lines') :
            \/ i \in 1 .. Len(lines) /\ lines'[i] = lines[i]
            \/ lines'[i] = Result(k)
      BY <1>0, <2>3, Writing
    <3>2. \A i \in 1 .. Len(lines') :
            Asks(i)' => i + 0 \in 1 .. Len(lines) /\ lines'[i] = lines[i + 0]
      BY <3>1 DEF Asks, Result
    <3> QED BY <1>0, <1>1, <3>2, FewerAsks DEF Answering, Goto, Local
  <2> QED BY <2>1, <2>2, <2>3 DEF _continue_while_awaiting, WriteResult
<1>3. InHand' /\ RefusalTold' /\ Unasked' /\ Unanswered' /\ AnswersAreTheirOwn'
  BY <1>0, <1>1 DEF Answering, InHand, RefusalTold, Unasked, Unanswered, AnswersAreTheirOwn,
       Goto, Local
<1> QED BY <1>2, <1>3 DEF Answering

(* The agent asks.                                                          *)
LEMMA AskKeeps == ASSUME Typed, Answering, NEW q \in Requests, Ask(q) PROVE Answering'
<1>0. /\ lines \in Seq(Line) /\ bridge \in Local /\ UNCHANGED <<card, given, bridge>>
      /\ told \in [Requests -> Told] /\ told[q] = "unasked" /\ card[q] = "none"
      /\ told' = [told EXCEPT ![q] = "waiting"]
  BY DEF Typed, TypeOK, Ask, rows, cards, Answering, Unasked
<1>1. Unread'
  <2>1. \A i \in 1 .. Len(lines') :
          \/ i \in 1 .. Len(lines) /\ lines'[i] = lines[i]
          \/ i = Len(lines) + 1 /\ lines'[i] = [kind |-> "ask", request |-> q]
    BY <1>0, Writing DEF Ask
  <2>2. \A i \in 1 .. Len(lines) : Asks(i) => lines[i].request # q
    BY <1>0 DEF Answering, Unread
  <2>3. bridge.pc = "answer" => bridge.request # q
    BY <1>0 DEF Answering, InHand
  <2>4. Len(lines) \in Nat
    BY <1>0
  <2> QED BY <1>0, <2>1, <2>2, <2>3, <2>4 DEF Answering, Unread, Asks
<1>2. InHand' /\ RefusalTold'
  BY <1>0 DEF Answering, InHand, RefusalTold, Typed, TypeOK
<1>3. Unasked' /\ Unanswered' /\ AnswersAreTheirOwn'
  BY <1>0 DEF Answering, Unasked, Unanswered, AnswersAreTheirOwn
<1> QED BY <1>1, <1>2, <1>3 DEF Answering

(* A person's answer is passed on: the card is about the request in hand,   *)
(* and nothing unread is.                                                   *)
LEMMA HandlePending == Typed /\ Answering /\ _handle_pending_approval => Answering'
<1> SUFFICES ASSUME Typed, Answering, _handle_pending_approval PROVE Answering'
  OBVIOUS
<1> DEFINE q == bridge.request
<1>0. /\ bridge \in Local /\ UNCHANGED <<card, given, lines>>
      /\ told \in [Requests -> Told]
      /\ card \in [Requests -> {"none", "pending", "approved", "rejected"}]
  BY DEF Typed, TypeOK, _handle_pending_approval, rows, cards
<1>1. /\ bridge.card = q /\ q \in Requests /\ card[q] \in {"approved", "rejected"}
      /\ told[q] = "waiting" /\ bridge.pc = "turn"
  BY <1>0 DEF Typed, TypeOK, _handle_pending_approval, Answering, InHand, Local
<1>2. \A i \in 1 .. Len(lines) : Asks(i) => lines[i].request # q
  BY <1>1 DEF Answering, Unread
<1>3. ASSUME NEW a \in {"allowed", "refused"}, NEW p \in {"resume", "refuse"},
             told' = [told EXCEPT ![q] = a], bridge' = [bridge EXCEPT !.pc = p, !.card = 0],
             \/ card[q] = "approved" /\ a = "allowed" /\ p = "resume"
             \/ card[q] = "rejected" /\ a = "refused" /\ p = "refuse"
      PROVE  Answering'
  <2>1. bridge'.pc = p /\ bridge'.card = 0 /\ bridge'.request = q
    BY <1>0, <1>3 DEF Local
  <2>2. told'[q] = a /\ \A r \in Requests : r # q => told'[r] = told[r]
    BY <1>0, <1>1, <1>3
  <2>3. Unread'
    BY <1>0, <1>2, <1>3, <2>1, <2>2 DEF Answering, Unread, Asks
  <2>4. InHand' /\ RefusalTold'
    BY <1>1, <1>3, <2>1, <2>2 DEF InHand, RefusalTold
  <2>5. Unasked' /\ Unanswered' /\ AnswersAreTheirOwn'
    BY <1>0, <1>1, <1>3, <2>1, <2>2 DEF Answering, Unasked, Unanswered, AnswersAreTheirOwn
  <2> QED BY <2>3, <2>4, <2>5 DEF Answering
<1>4. CASE UNCHANGED told /\ Return("failed")
  BY <1>0, <1>4, Quiet DEF Return, Local
<1> QED BY <1>0, <1>1, <1>3, <1>4 DEF _handle_pending_approval

(* A policy answers, or the scope refuses: no card was raised.              *)
LEMMA AnswerAtOnce ==
    Typed /\ Answering /\ (_scope_denial_result \/ _try_fast_approve) => Answering'
<1> SUFFICES ASSUME Typed, Answering, _scope_denial_result \/ _try_fast_approve
             PROVE  Answering'
  OBVIOUS
<1> DEFINE q == bridge.request
<1>0. /\ bridge \in Local /\ UNCHANGED <<card, given, lines>> /\ told \in [Requests -> Told]
  BY DEF Typed, TypeOK, _scope_denial_result, _try_fast_approve, rows, cards
<1>1. /\ q \in Requests /\ card[q] = "none" /\ bridge.pc = "answer" /\ bridge.card = 0
  BY DEF Typed, TypeOK, _scope_denial_result, _try_fast_approve, Answering, InHand
<1>2. \A i \in 1 .. Len(lines) : Asks(i) => lines[i].request # q
  BY <1>1 DEF Answering, Unread
<1>3. PICK a \in {"allowed", "denied", "refused"} :
        /\ told' = [told EXCEPT ![q] = a]
        /\ bridge'.pc \in {"loop", "refused"} /\ (bridge'.pc = "refused" => a = "refused")
        /\ bridge'.card = 0 /\ bridge'.request = q
  BY <1>0, <1>1 DEF _scope_denial_result, _try_fast_approve, Goto, Local
<1>4. told'[q] = a /\ \A r \in Requests : r # q => told'[r] = told[r]
  BY <1>0, <1>1, <1>3
<1>5. Unread'
  BY <1>0, <1>2, <1>3, <1>4 DEF Answering, Unread, Asks
<1>6. InHand' /\ RefusalTold'
  BY <1>1, <1>3, <1>4 DEF InHand, RefusalTold
<1>7. Unasked' /\ Unanswered' /\ AnswersAreTheirOwn'
  BY <1>0, <1>1, <1>3, <1>4 DEF Answering, Unasked, Unanswered, AnswersAreTheirOwn
<1> QED BY <1>5, <1>6, <1>7 DEF Answering

(* A person is asked: nothing unread is about the request, and the thread   *)
(* waits on the card it raised.                                             *)
LEMMA CardRaised == Typed /\ Answering /\ _create_permission_approval => Answering'
<1> SUFFICES ASSUME Typed, Answering, _create_permission_approval PROVE Answering'
  OBVIOUS
<1> DEFINE q == bridge.request
<1>0. /\ bridge \in Local /\ UNCHANGED <<told, lines, given>>
      /\ told[q] = "waiting" /\ q \in Requests
      /\ card \in [Requests -> {"none", "pending", "approved", "rejected"}]
  BY DEF Typed, TypeOK, _create_permission_approval, proc, Answering, InHand
<1>1. CASE bridge.pc = "answer"
  <2>1. /\ card' = [card EXCEPT ![q] = "pending"] /\ bridge'.pc = "raised"
        /\ bridge'.request = q /\ bridge'.card = bridge.card /\ bridge.card = 0
    BY <1>0, <1>1 DEF _create_permission_approval, Goto, Local, Typed, TypeOK
  <2>2. card'[q] = "pending" /\ \A r \in Requests : r # q => card'[r] = card[r]
    BY <1>0, <2>1
  <2>3. \A i \in 1 .. Len(lines) : Asks(i) => lines[i].request # q
    BY <1>1 DEF Answering, Unread
  <2>4. Unread'
    BY <1>0, <2>1, <2>2, <2>3 DEF Answering, Unread, Asks
  <2>5. InHand' /\ RefusalTold'
    BY <1>0, <2>1, <2>2 DEF InHand, RefusalTold
  <2>6. card[q] = "none" /\ given[q] = {}
    BY <1>0, <1>1 DEF Answering, InHand, Unanswered
  <2>7. Unasked' /\ Unanswered' /\ AnswersAreTheirOwn'
    BY <1>0, <2>1, <2>2, <2>6 DEF Answering, Unasked, Unanswered, AnswersAreTheirOwn
  <2> QED BY <2>4, <2>5, <2>7 DEF Answering
<1>2. CASE bridge.pc = "raised"
  <2>1. /\ UNCHANGED card /\ bridge'.pc = "loop" /\ bridge'.card = q /\ bridge'.request = q
    BY <1>0, <1>2 DEF _create_permission_approval, Local
  <2>2. Unread'
    BY <1>0, <2>1 DEF Answering, Unread, Asks
  <2>3. InHand' /\ RefusalTold' /\ Unasked' /\ Unanswered' /\ AnswersAreTheirOwn'
    BY <1>0, <2>1 DEF Answering, InHand, RefusalTold, Unasked, Unanswered, AnswersAreTheirOwn
  <2> QED BY <2>2, <2>3 DEF Answering
<1> QED BY <1>1, <1>2 DEF _create_permission_approval

(* Cards that were raised are answered, whatever they said by then.         *)
LEMMA Resolved ==
    ASSUME Typed, Answering, UNCHANGED <<told, lines, bridge>>,
           NEW S, \A q \in S : q \in Requests /\ card[q] # "none",
           NEW a \in {"approved", "rejected"}, Answer(S, a)
    PROVE  Answering'
<1> USE DEF Answering
<1>1. \A q \in Requests :
        /\ q \in S => card[q] # "none" /\ card'[q] = a /\ given'[q] = given[q] \cup {a}
        /\ q \notin S => card'[q] = card[q] /\ given'[q] = given[q]
  BY DEF Answer
<1>2. \A q \in Requests :
        (card'[q] = "none") = (card[q] = "none") /\ given[q] \subseteq given'[q]
  BY <1>1
<1>3. bridge \in Local /\ (bridge.card # 0 => bridge.card \in Requests)
  BY DEF Typed, TypeOK, Local
<1>4. Unread'
  BY <1>2 DEF Unread, Asks
<1>5. InHand' /\ RefusalTold'
  BY <1>2, <1>3 DEF InHand, RefusalTold
<1>6. Unasked' /\ Unanswered'
  BY <1>1, <1>2 DEF Unasked, Unanswered
<1>7. AnswersAreTheirOwn'
  <2>1. ASSUME NEW q \in Requests
        PROVE  /\ card'[q] = "pending" => told'[q] = "waiting" /\ given'[q] = {}
               /\ card'[q] \in {"approved", "rejected"} => card'[q] \in given'[q]
               /\ told'[q] = "allowed" => card'[q] = "none" \/ "approved" \in given'[q]
               /\ told'[q] = "denied" => card'[q] = "none"
               /\ told'[q] = "refused" => card'[q] = "none" \/ "rejected" \in given'[q]
    BY <1>1, <1>2 DEF AnswersAreTheirOwn
  <2>2. bridge.pc \in {"resume", "resumed", "refuse"} => bridge.request \in Requests
    BY DEF InHand
  <2>3. /\ bridge'.pc \in {"resume", "resumed"} =>
              told'[bridge'.request] = "allowed" /\ "approved" \in given'[bridge'.request]
        /\ bridge'.pc = "refuse" =>
              told'[bridge'.request] = "refused" /\ "rejected" \in given'[bridge'.request]
    BY <1>2, <2>2 DEF AnswersAreTheirOwn
  <2> QED BY <2>1, <2>3 DEF AnswersAreTheirOwn
<1> QED BY <1>4, <1>5, <1>6, <1>7

(* A step keeps what the agent was told in step with what was decided.      *)
LEMMA AnsweringNext == Typed /\ Selected /\ Answering /\ [Next]_vars => Answering'
<1> SUFFICES ASSUME Typed, Selected, Answering, [Next]_vars PROVE Answering'
  OBVIOUS
<1>0. bridge \in Local /\ card \in [Requests -> {"none", "pending", "approved", "rejected"}]
  BY DEF Typed, TypeOK
<1>1. CASE Bridge
  <2>1. CASE _handle_next_line \/ _continue_while_awaiting
    BY <2>1, NextLine, OtherLines
  <2>2. CASE _handle_pending_approval
    BY <2>2, HandlePending
  <2>3. CASE _scope_denial_result \/ _try_fast_approve
    BY <2>3, AnswerAtOnce
  <2>4. CASE _create_permission_approval
    BY <2>4, CardRaised
  <2>5. CASE _finalize \/ TakeTurn \/ BrokenPipe
    BY <1>0, <2>5, Quiet DEF _finalize, TakeTurn, BrokenPipe, Goto, Return, Local, rows, cards,
         proc
  <2>6. CASE _resume_after_approval
    BY <1>0, <2>6, Quiet DEF _resume_after_approval, Goto, Local, Typed, TypeOK, cards, proc
  <2>7. CASE _fail_after_rejection \/ WriteFailed
    BY <1>0, <2>7, Quiet DEF _fail_after_rejection, WriteFailed, Goto, Return, Local, cards,
         proc
  <2>8. CASE claim_completion \/ complete_run_tail
    BY <1>0, <2>8, Quiet DEF claim_completion, complete_run_tail, Goto, Local, cards, proc
  <2> QED BY <1>1, <2>1, <2>2, <2>3, <2>4, <2>5, <2>6, <2>7, <2>8 DEF Bridge
<1>2. CASE OutOfTime \/ _check_cancel \/ Crash
  BY <1>0, <1>2, Quiet DEF OutOfTime, _check_cancel, Crash, Return, Local, rows, cards, proc
<1>3. CASE Exit \/ Settlers \/ Reconcile \/ UNCHANGED vars
  BY <1>3, Quiet DEF Exit, Settlers, fail_interrupted_runs, OtherTail, Reconcile, Detect,
       block_unasked_awaits, vars, rows, cards, proc
<1>4. CASE WriteResult
  BY <1>4, OtherLines
<1>5. ASSUME NEW q \in Requests, Ask(q) PROVE Answering'
  BY <1>5, AskKeeps
<1>6. ASSUME NEW q \in Requests, ReadPending(q) PROVE Answering'
  BY <1>6, Quiet DEF ReadPending, rows, cards, proc
<1>7. ASSUME NEW q \in Requests, resolve(q) PROVE Answering'
  <2>1. PICK a \in {"approved", "rejected"} : Answer({q}, a)
    BY <1>7 DEF resolve
  <2>2. UNCHANGED <<told, lines, bridge>> /\ card[q] # "none"
    BY <1>7 DEF resolve, proc, Selected
  <2>3. \A p \in {q} : p \in Requests /\ card[p] # "none"
    BY <2>2
  <2> QED BY <2>1, <2>2, <2>3, Resolved
<1>8. CASE request_cancel \/ _reject_pending_approvals
  BY <1>8, Quiet DEF request_cancel, _reject_pending_approvals, rows, cards, proc
<1>9. CASE CommitCancel
  <2>1. UNCHANGED <<told, lines, bridge>> /\ Answer(stop.cards, "rejected")
    BY <1>9 DEF CommitCancel, proc
  <2>2. \A q \in stop.cards : q \in Requests /\ card[q] # "none"
    BY DEF Selected, Typed, TypeOK
  <2> QED BY <2>1, <2>2, Resolved
<1> QED BY <1>1, <1>2, <1>3, <1>4, <1>5, <1>6, <1>7, <1>8, <1>9 DEF Next, Stopping

-----------------------------------------------------------------------------
(* An announcement is not taken back.                                       *)
LEMMA Announced ==
    ASSUME Typed, [Next]_vars, completed # <<>>
    PROVE  completed' # <<>>
<1>1. completed \in Seq(Verdicts)
  BY DEF Typed, TypeOK
<1>2. \A v : Append(completed, v) # <<>>
  BY <1>1
<1> QED BY <1>2, Moves DEF CompletedMoves

(* Nor is a refusal: a request is answered once.                            *)
LEMMA RefusedStays ==
    ASSUME Typed, Answering, [Next]_vars, NEW q \in Requests, told[q] = "refused"
    PROVE  told'[q] = "refused"
<1>1. told \in [Requests -> Told] /\ bridge \in Local
  BY DEF Typed, TypeOK
<1>2. CASE Bridge
  <2>1. CASE _handle_pending_approval
    <3>1. bridge.card # 0 => told[bridge.request] = "waiting" /\ bridge.request \in Requests
      BY <2>1 DEF _handle_pending_approval, Answering, InHand, Typed, TypeOK, Local
    <3> QED BY <1>1, <2>1, <3>1 DEF _handle_pending_approval
  <2>2. CASE _scope_denial_result \/ _try_fast_approve
    BY <1>1, <2>2 DEF _scope_denial_result, _try_fast_approve, Answering, InHand
  <2>3. CASE UNCHANGED told
    BY <2>3
  <2> QED
    BY <1>2, <2>1, <2>2, <2>3
       DEF Bridge, _finalize, TakeTurn, _continue_while_awaiting, _resume_after_approval,
           _fail_after_rejection, WriteFailed, _handle_next_line, BrokenPipe,
           _create_permission_approval, claim_completion, complete_run_tail, proc
<1>3. ASSUME NEW p \in Requests, Ask(p) PROVE told'[q] = "refused"
  BY <1>1, <1>3 DEF Ask
<1>4. CASE UNCHANGED told
  BY <1>4
<1> QED
  BY <1>2, <1>3, <1>4
     DEF Next, ReadPending, resolve, WriteResult, Exit, OutOfTime, _check_cancel, Settlers,
         fail_interrupted_runs, OtherTail, Stopping, request_cancel, _reject_pending_approvals,
         CommitCancel, Reconcile, Detect, block_unasked_awaits, Crash, vars, proc

(* A verdict is written by one who goes on to announce it, or after a       *)
(* refusal.                                                                 *)
LEMMA AnnouncingNext == Typed /\ Answering /\ Announcing /\ [Next]_vars => Announcing'
<1> SUFFICES ASSUME Typed, Answering, Announcing, [Next]_vars PROVE Announcing'
  OBVIOUS
<1>0. bridge \in Local /\ completed \in Seq(Verdicts)
      /\ run \in [status : IN_FLIGHT \cup Verdicts, cancel : BOOLEAN]
  BY DEF Typed, TypeOK
<1>1. Refused => Refused'
  BY RefusedStays DEF Refused
<1>2. completed # <<>> => completed' # <<>>
  BY Announced
<1>3. CASE completed # <<>> \/ Refused
  BY <1>1, <1>2, <1>3 DEF Announcing
<1>4. ASSUME completed = <<>>, ~Refused PROVE Announcing'
  <2> USE <1>0, <1>4 DEF Announcing
  <2>1. \A v : Append(completed, v) # <<>>
    OBVIOUS
  <2>2. CASE complete_run_tail \/ OtherTail
    BY <2>1, <2>2 DEF complete_run_tail, OtherTail
  <2>3. CASE claim_completion
    BY <2>3 DEF claim_completion, Goto, Local, IN_FLIGHT, Verdicts
  <2>4. CASE fail_interrupted_runs
    BY <2>4 DEF fail_interrupted_runs
  <2>5. CASE WriteFailed
    BY <2>5 DEF WriteFailed, Answering, RefusalTold, InHand, Refused
  <2>6. CASE Crash
    BY <2>6 DEF Crash, Local
  <2>7. CASE _finalize \/ TakeTurn \/ _continue_while_awaiting \/ _handle_pending_approval
    BY <2>7 DEF _finalize, TakeTurn, _continue_while_awaiting, _handle_pending_approval, Goto,
         Return, Local, rows
  <2>8. CASE _resume_after_approval \/ _create_permission_approval
    BY <2>8 DEF _resume_after_approval, _create_permission_approval, Goto, Local, Verdicts
  <2>9. CASE _fail_after_rejection \/ _handle_next_line \/ _scope_denial_result
             \/ _try_fast_approve \/ BrokenPipe
    BY <2>9 DEF _fail_after_rejection, _handle_next_line, _scope_denial_result,
         _try_fast_approve, BrokenPipe, Goto, Return, Local, rows
  <2>10. CASE OutOfTime \/ _check_cancel
    BY <2>10 DEF OutOfTime, _check_cancel, Return, Local, rows
  <2>11. CASE CommitCancel
    BY <2>11 DEF CommitCancel
  <2>12. CASE /\ UNCHANGED <<run, completed, bridge, other>>
    BY <2>12
  <2> QED
    BY <2>2, <2>3, <2>4, <2>5, <2>6, <2>7, <2>8, <2>9, <2>10, <2>11, <2>12
       DEF Next, Bridge, Settlers, Stopping, Ask, ReadPending, resolve, WriteResult, Exit,
           request_cancel, _reject_pending_approvals, Reconcile, Detect, block_unasked_awaits,
           vars, rows
<1> QED BY <1>3, <1>4

-----------------------------------------------------------------------------
(* The invariant holds of every behaviour.                                  *)
LEMMA BridgeInductive == Spec => []BridgeInv
<1>1. Init => BridgeInv
  BY BridgeInit
<1>2. BridgeInv /\ [Next]_vars => BridgeInv'
  BY TypedNext, SelectedNext, AnsweringNext, AnnouncingNext DEF BridgeInv
<1> QED BY <1>1, <1>2, PTL DEF Spec

(* Whatever the troubles, the thread waits only for a card it raised        *)
(* itself, for the request it will answer, and for none once it has begun   *)
(* to answer (state.pending_approval of PermissionBridgeRunner.run).        *)
THEOREM BridgeTyped == Spec => []TypeOK
<1>1. BridgeInv => TypeOK
  BY DEF BridgeInv, Typed
<1> QED BY <1>1, BridgeInductive, PTL

(* What the agent is told about a request is an answer given on that        *)
(* request's own card, and never while it is pending, for any number of     *)
(* requests made while another stands (_continue_while_awaiting lets them   *)
(* go, _handle_pending_approval answers the one in hand) and of deciders    *)
(* who have all read the card as pending and answer it one over the other   *)
(* (ApprovalService.resolve, _reject_pending_approvals).                    *)
THEOREM BridgeAnswersAreTheirOwn == Spec => []AnswersAreTheirOwn
<1>1. BridgeInv => AnswersAreTheirOwn
  BY DEF BridgeInv, Answering
<1> QED BY <1>1, BridgeInductive, PTL

(* A run whose thread has come home was announced, or a refusal wrote its   *)
(* verdict on the row before complete_run could claim it                    *)
(* (_fail_after_rejection and _scope_denial_result against complete_run).   *)
THEOREM BridgeSilentOnlyIfRefused == Spec => []SilentOnlyIfRefused
<1>1. BridgeInv => SilentOnlyIfRefused
  BY DEF BridgeInv, Announcing, Refused, SilentOnlyIfRefused
<1> QED BY <1>1, BridgeInductive, PTL
=============================================================================
