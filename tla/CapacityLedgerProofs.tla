------------------------ MODULE CapacityLedgerProofs ------------------------
(***************************************************************************)
(* What holds of the capacity ledger for any number of processes, leases,   *)
(* pools' ceilings and prices, whatever the roles: the type invariant and   *)
(* strict head-of-line order.                                               *)
(***************************************************************************)
EXTENDS CapacityLedger, FiniteSetTheorems, TLAPS

(* What a process's local variables name where its code uses them.          *)
LocalOK ==
    \A p \in Proc :
        /\ At(p, "insert") => proc[p].want \in Price
        /\ proc[p].pc \in {"book", "claim", "refund", "probe"} => proc[p].head \in Lease
        /\ proc[p].pc \in {"answer", "queued", "holding", "renew"} => proc[p].mine \in Lease
        /\ proc[p].after \in {"answer", "queued"} => proc[p].mine \in Lease
        /\ proc[p].after \in {"idle", "answer", "queued"}
        /\ proc[p].resume \in {"idle", "reclaim", "judge", "drop"}
        /\ At(p, "unwind") => proc[p].stack # <<>>

(* A lease some process is about to grant or to mark as still granted.      *)
Vouched(l) ==
    \E p \in Proc : \/ proc[p].pc \in {"book", "claim", "probe"} /\ proc[p].head = l
                    \/ At(p, "renew") /\ proc[p].mine = l

(* Everything that was ahead of l has been written and has left the line.   *)
ClearAhead(l) == \A k \in row[l].ahead : row[k].status # "waiting"

AheadWritten == \A l \in Lease : \A k \in row[l].ahead : row[k].status # "none"

VouchedClear ==
    \A l \in Lease : Vouched(l) => row[l].status # "none" /\ ClearAhead(l)

WaitersOrdered ==
    \A l \in Waiting :
        /\ row[l].position < nextPosition
        /\ \A k \in row[l].ahead \cap Waiting : row[k].position < row[l].position

ArrivalsOrdered ==
    \A p \in Proc : At(p, "insert") =>
        /\ proc[p].pos < nextPosition
        /\ \A k \in proc[p].ahead : row[k].status # "none"
        /\ \A k \in proc[p].ahead \cap Waiting : row[k].position < proc[p].pos

LineOK ==
    /\ AheadWritten /\ NoOvertaking /\ VouchedClear
    /\ WaitersOrdered /\ ArrivalsOrdered /\ PositionsDistinct

LedgerInv == TypeOK /\ LocalOK /\ LineOK

-----------------------------------------------------------------------------
Typed == TypeOK /\ LocalOK

(* The units all leases together can take up are finitely many.             *)
LEMMA UnitsFinite == IsFiniteSet(Lease \X (1..MaxCost))
<1>1. MaxCost \in Int /\ 1 \in Int /\ IsFiniteSet(Lease)
  BY LedgerAssumption
<1>2. IsFiniteSet(1..MaxCost)
  BY <1>1, FS_Interval
<1> QED
  BY <1>1, <1>2, FS_Product

(* Totals recomputed from the rows are natural numbers.                     *)
LEMMA LoadNat ==
    ASSUME TypeOK, NEW q \in Pool, NEW d \in Dim
    PROVE  Load(q, d) \in Nat
<1>1. IsFiniteSet(Lease \X (1..MaxCost))
  BY UnitsFinite
<1>2. Units(ChargedTo(q), d) \subseteq Lease \X (1..MaxCost)
  BY DEF Units, ChargedTo, Occupying
<1>3. IsFiniteSet(Units(ChargedTo(q), d))
  BY <1>1, <1>2, FS_Subset
<1> QED
  BY <1>3, FS_CardinalityType DEF Load

(* What the children of a lease are covered for is a number.                *)
LEMMA CoverNat ==
    ASSUME NEW l \in Lease, NEW d \in Dim
    PROVE  Cardinality(CoverUnits(Children(l), d)) \in Nat
<1>1. IsFiniteSet(Lease \X (1..MaxCost))
  BY UnitsFinite
<1>2. CoverUnits(Children(l), d) \subseteq Lease \X (1..MaxCost)
  BY DEF CoverUnits, Children, Occupying
<1>3. IsFiniteSet(CoverUnits(Children(l), d))
  BY <1>1, <1>2, FS_Subset
<1> QED
  BY <1>3, FS_CardinalityType

(* The arithmetic of the totals stays within the naturals.                  *)
LEMMA PlusType ==
    ASSUME NEW f \in [Dim -> Nat], NEW g \in [Dim -> Nat]
    PROVE  Plus(f, g) \in [Dim -> Nat]
BY DEF Plus

(* The subtraction clamped at zero stays a natural vector.                  *)
LEMMA MinusType ==
    ASSUME NEW f \in [Dim -> Nat], NEW g \in [Dim -> Int]
    PROVE  Minus(f, g) \in [Dim -> Nat]
BY DEF Minus

(* Handing a price back leaves typed totals.                                *)
LEMMA ReturnType ==
    ASSUME TypeOK, NEW l \in Lease
    PROVE  Return(row[l]) \in [Pool -> [Dim -> Nat]]
<1>1. row[l] \in Row
  BY DEF TypeOK
<1>2. booked(row[l]) \in [Dim -> Int]
  BY <1>1, LedgerAssumption DEF Row, booked, Vector
<1>3. \A q \in Pool : Minus(held[q], booked(row[l])) \in [Dim -> Nat]
  BY <1>2, MinusType DEF TypeOK
<1> QED
  BY <1>3 DEF Return, TypeOK

(* Booking a price leaves typed totals.                                     *)
LEMMA ChargeType ==
    ASSUME TypeOK, NEW b \in [Dim -> Nat], NEW S
    PROVE  Charge(S, b) \in [Pool -> [Dim -> Nat]]
<1>1. \A q \in Pool : Plus(held[q], b) \in [Dim -> Nat]
  BY PlusType DEF TypeOK
<1> QED
  BY <1>1 DEF Charge, TypeOK

(* The locals of a process that has started nothing are typed.              *)
LEMMA StartType == Start \in Local
BY DEF Start, Local, PC

(* The empty ledger is typed.                                               *)
LEMMA InitTyped == Init => Typed
<1> SUFFICES ASSUME Init PROVE Typed
  OBVIOUS
<1>1. Zero \in Vector /\ Zero \in [Dim -> Nat]
  BY LedgerAssumption DEF Zero, Vector
<1>2. NoRow \in Row
  BY <1>1, LedgerAssumption DEF NoRow, Row, Status, Pool
<1>3. TypeOK
  BY <1>1, <1>2, StartType, LedgerAssumption DEF Init, TypeOK
<1>4. LocalOK
  BY DEF Init, LocalOK, Start, At
<1> QED
  BY <1>3, <1>4 DEF Typed

-----------------------------------------------------------------------------
(* Typing, one lemma per group of actions.                                  *)

(* Writing one typed row leaves a typed table.                              *)
LEMMA RowEdit ==
    ASSUME TypeOK, NEW l \in Lease, NEW st \in Status
    PROVE  /\ [row EXCEPT ![l].status = st] \in [Lease -> Row]
           /\ [row EXCEPT ![l].status = st, ![l].position = 0] \in [Lease -> Row]
<1>1. row[l] \in Row
  BY DEF TypeOK
<1>2. [row[l] EXCEPT !.status = st] \in Row
  BY <1>1 DEF Row
<1>3. [row[l] EXCEPT !.status = st, !.position = 0] \in Row
  BY <1>1 DEF Row
<1> QED
  BY <1>2, <1>3 DEF TypeOK

(* A step that only moves a process on keeps the types.                     *)
LEMMA GotoTyped ==
    ASSUME Typed, NEW p \in Proc, NEW label \in PC, Goto(p, label),
           label \notin {"insert", "unwind"},
           label \in {"book", "claim", "refund", "probe"} => proc[p].head \in Lease,
           label \in {"answer", "queued", "holding", "renew"} => proc[p].mine \in Lease,
           UNCHANGED Ledger
    PROVE  Typed'
<1>1. proc[p] \in Local
  BY DEF Typed, TypeOK
<1>2. proc'[p] \in Local /\ proc' \in [Proc -> Local]
  BY <1>1, StartType DEF Goto, Typed, TypeOK, Local, Start
<1>3. LocalOK'
  BY <1>1 DEF Goto, Typed, TypeOK, LocalOK, At, Start, Local
<1> QED
  BY <1>2, <1>3 DEF Typed, TypeOK, Ledger

(* reserve keeps the types.                                                 *)
LEMMA ReserveTyped ==
    ASSUME Typed, NEW p \in Proc, NEW c \in Claims, Reserve(p, c)
    PROVE  Typed'
<1>1. proc[p] \in Local /\ c \in Price
  BY LedgerAssumption DEF Typed, TypeOK
<1>2. CASE \E l \in Lease, label \in {"queued", "holding"} :
            /\ proc' = [proc EXCEPT ![p].pc = label, ![p].mine = l]
            /\ UNCHANGED <<row, held, ceiling, nextPosition>>
  <2>0. PICK l \in Lease, label \in {"queued", "holding"} :
            /\ proc' = [proc EXCEPT ![p].pc = label, ![p].mine = l]
            /\ UNCHANGED <<row, held, ceiling, nextPosition>>
    BY <1>2
  <2>1. TypeOK'
    <3>1. [proc[p] EXCEPT !.pc = label, !.mine = l] \in Local
      BY <1>1 DEF Local, PC
    <3>2. proc' = [proc EXCEPT ![p] = [proc[p] EXCEPT !.pc = label, !.mine = l]]
      BY <2>0
    <3> QED
      BY <2>0, <3>1, <3>2 DEF Typed, TypeOK
  <2>2. LocalOK'
    BY <1>1, <2>0 DEF Typed, TypeOK, Local, LocalOK, At
  <2> QED
    BY <2>1, <2>2 DEF Typed
<1>3. CASE TakePosition(p, c) /\ UNCHANGED <<row, held, ceiling>>
  <2>1. Waiting \in SUBSET Lease
    BY DEF Waiting
  <2>2. [Start EXCEPT !.pc = "insert", !.want = c, !.pos = nextPosition, !.ahead = Waiting] \in Local
    BY <1>1, <2>1, StartType DEF Typed, TypeOK, Local, PC
  <2>3. TypeOK'
    BY <1>3, <2>2 DEF TakePosition, Typed, TypeOK
  <2>4. LocalOK'
    BY <1>1, <1>3 DEF TakePosition, Typed, TypeOK, Local, LocalOK, At, Start
  <2> QED
    BY <2>3, <2>4 DEF Typed
<1> QED
  BY <1>2, <1>3 DEF Reserve, Mine

(* Writing a claim's row keeps the types.                                   *)
LEMMA InsertTyped ==
    ASSUME Typed, NEW p \in Proc, Insert(p)
    PROVE  Typed'
<1>1. proc[p] \in Local /\ proc[p].want \in Price
  BY DEF Typed, TypeOK, LocalOK, Insert
<1>2. PICK l \in Unused :
          /\ row' = [row EXCEPT ![l] =
                        [status |-> "waiting", holder |-> p, pool |-> proc[p].want.pool,
                         cost |-> proc[p].want.price, covered |-> Zero, drawn |-> Zero,
                         parent |-> NoLease, position |-> proc[p].pos,
                         ahead |-> proc[p].ahead]]
          /\ proc' = [proc EXCEPT ![p] = [Start EXCEPT !.pc = "head", !.mine = l,
                                                       !.after = "answer"]]
  BY DEF Insert
<1>3. l \in Lease
  BY DEF Unused
<1>4. Zero \in Vector /\ Zero \in [Dim -> Nat]
  BY LedgerAssumption DEF Zero, Vector
<1>5. row' \in [Lease -> Row]
  BY <1>1, <1>2, <1>3, <1>4 DEF Typed, TypeOK, Row, Local, Price, Status
<1>6. proc' \in [Proc -> Local]
  BY <1>2, <1>3, StartType DEF Typed, TypeOK, Local, PC
<1>7. LocalOK'
  BY <1>2, <1>3 DEF Typed, TypeOK, LocalOK, At, Start
<1> QED
  BY <1>5, <1>6, <1>7 DEF Insert, Typed, TypeOK

(* The steps of drain_waiters keep the types.                               *)
LEMMA DrainTyped ==
    ASSUME Typed, NEW p \in Proc, HeadRead(p) \/ Book(p) \/ Claim(p) \/ Refund(p) \/ Answer(p)
    PROVE  Typed'
<1>1. proc[p] \in Local /\ proc[p].after \in PC
  BY DEF Typed, TypeOK, Local
<1>2. ASSUME StopDrain(p), UNCHANGED Ledger PROVE Typed'
  BY <1>1, <1>2, GotoTyped DEF StopDrain, Typed, LocalOK
<1>3. ASSUME NEW l \in Lease \cup {NoLease},
             proc' = [proc EXCEPT ![p].pc = "head", ![p].head = l]
      PROVE  proc' \in [Proc -> Local] /\ LocalOK'
  <2>1. proc' \in [Proc -> Local]
    BY <1>1, <1>3 DEF Typed, TypeOK, Local, PC
  <2> QED
    BY <1>1, <1>3, <2>1 DEF Typed, TypeOK, Local, LocalOK, At
<1>4. CASE HeadRead(p)
  <2>1. CASE StopDrain(p) /\ UNCHANGED Ledger
    BY <1>2, <2>1
  <2>2. CASE \E l \in Lease : proc' = [proc EXCEPT ![p].pc = "book", ![p].head = l]
    <3>0. PICK l \in Lease : proc' = [proc EXCEPT ![p].pc = "book", ![p].head = l]
      BY <2>2
    <3>1. proc' \in [Proc -> Local]
      BY <1>1, <3>0 DEF Typed, TypeOK, Local, PC
    <3>2. LocalOK'
      BY <1>1, <3>0, <3>1 DEF Typed, TypeOK, Local, LocalOK, At
    <3> QED
      BY <1>4, <3>1, <3>2 DEF HeadRead, Typed, TypeOK, Ledger
  <2> QED
    BY <1>4, <2>1, <2>2 DEF HeadRead
<1>5. CASE Book(p)
  <2>1. proc[p].head \in Lease
    BY <1>5 DEF Book, At, Typed, LocalOK
  <2>2. CASE StopDrain(p) /\ UNCHANGED held
    BY <1>2, <1>5, <2>2 DEF Book, Ledger
  <2>3. CASE /\ held' = Charge(CHARGED_POOLS[row[proc[p].head].pool], row[proc[p].head].cost)
             /\ Goto(p, "claim")
    <3>1. row[proc[p].head].cost \in [Dim -> Nat]
      BY <2>1 DEF Typed, TypeOK, Row, Vector
    <3>2. held' \in [Pool -> [Dim -> Nat]]
      BY <2>3, <3>1, ChargeType DEF Typed
    <3>3. proc' = [proc EXCEPT ![p].pc = "claim"]
      BY <2>3 DEF Goto
    <3>4. proc' \in [Proc -> Local]
      BY <1>1, <3>3 DEF Typed, TypeOK, Local, PC
    <3>5. LocalOK'
      BY <1>1, <2>1, <3>3, <3>4 DEF Typed, TypeOK, Local, LocalOK, At
    <3> QED
      BY <1>5, <3>2, <3>4, <3>5 DEF Book, Typed, TypeOK
  <2> QED
    BY <1>5, <2>2, <2>3 DEF Book
<1>6. CASE Claim(p)
  <2>1. proc[p].head \in Lease
    BY <1>6 DEF Claim, At, Typed, LocalOK
  <2>2. CASE UNCHANGED <<row, held>> /\ Goto(p, "refund")
    BY <1>6, <2>1, <2>2, GotoTyped DEF Claim, Ledger, PC
  <2>3. CASE /\ row' = [row EXCEPT ![proc[p].head].status = "held", ![proc[p].head].position = 0]
             /\ UNCHANGED held
             /\ proc' = [proc EXCEPT ![p].pc = "head", ![p].head = NoLease]
    <3>1. row' \in [Lease -> Row]
      BY <2>1, <2>3, RowEdit DEF Typed, Status
    <3> QED
      BY <1>3, <1>6, <2>3, <3>1 DEF Claim, Typed, TypeOK
  <2> QED
    BY <1>6, <2>2, <2>3 DEF Claim
<1>7. CASE Refund(p)
  <2>1. proc[p].head \in Lease
    BY <1>7 DEF Refund, At, Typed, LocalOK
  <2>2. held' \in [Pool -> [Dim -> Nat]]
    BY <1>7, <2>1, ReturnType DEF Refund, Typed
  <2> QED
    BY <1>3, <1>7, <2>2 DEF Refund, Typed, TypeOK
<1>8. CASE Answer(p)
  <2>1. proc[p].mine \in Lease
    BY <1>8 DEF Answer, At, Typed, LocalOK
  <2> QED
    BY <1>8, <2>1, GotoTyped DEF Answer, PC
<1> QED
  BY <1>4, <1>5, <1>6, <1>7, <1>8

(* The stack of a release holds frames, and is empty only on return.        *)
LEMMA CallTyped ==
    ASSUME Typed, NEW p \in Proc, NEW l \in Lease, NEW drain \in BOOLEAN,
           NEW to \in {"idle", "reclaim", "judge", "drop"},
           Call(p, l, drain, to), UNCHANGED Ledger
    PROVE  Typed'
<1>1. proc[p] \in Local
  BY DEF Typed, TypeOK
<1>2. Invocation(l, drain) \in Frame
  BY DEF Invocation, Frame
<1>3. <<Invocation(l, drain)>> \in Seq(Frame) /\ <<Invocation(l, drain)>> # <<>>
  BY <1>2
<1>a. proc[p].todo \ {l} \in SUBSET Lease
  BY <1>1 DEF Local
<1>b. [proc[p] EXCEPT !.pc = "unwind", !.resume = to, !.todo = @ \ {l},
                      !.stack = <<Invocation(l, drain)>>] \in Local
  BY <1>1, <1>3, <1>a DEF Local, PC
<1>4. proc' \in [Proc -> Local]
  BY <1>b DEF Call, Typed, TypeOK
<1>5. LocalOK'
  BY <1>1, <1>3, <1>4 DEF Call, Typed, TypeOK, Local, LocalOK, At
<1> QED
  BY <1>4, <1>5 DEF Typed, TypeOK, Ledger

(* The top frame of a release names a lease.                                *)
LEMMA TopTyped ==
    ASSUME Typed, NEW p \in Proc, At(p, "unwind")
    PROVE  Top(p) \in Frame /\ Tail(proc[p].stack) \in Seq(Frame)
<1>1. proc[p].stack \in Seq(Frame) /\ proc[p].stack # <<>>
  BY DEF Typed, TypeOK, Local, LocalOK
<1> QED
  BY <1>1 DEF Top

(* A release that replaces its stack by another keeps its locals typed.     *)
LEMMA StackTyped ==
    ASSUME Typed, NEW p \in Proc, At(p, "unwind"), NEW stk \in Seq(Frame), stk # <<>>,
           proc' = [proc EXCEPT ![p].stack = stk]
    PROVE  proc' \in [Proc -> Local] /\ LocalOK'
<1>1. proc[p] \in Local
  BY DEF Typed, TypeOK
<1>2. proc' \in [Proc -> Local]
  BY <1>1 DEF Typed, TypeOK, Local
<1> QED
  BY <1>1, <1>2 DEF Typed, TypeOK, Local, LocalOK, At

(* Ending a release leaves the stack of its callers.                        *)
LEMMA PopTyped ==
    ASSUME Typed, NEW p \in Proc, At(p, "unwind"), Pop(p)
    PROVE  proc' \in [Proc -> Local] /\ LocalOK'
<1>1. proc[p] \in Local /\ Tail(proc[p].stack) \in Seq(Frame)
  BY TopTyped DEF Typed, TypeOK
<1>2. proc[p].resume \in {"idle", "reclaim", "judge", "drop"}
  BY DEF Typed, LocalOK
<1>3. CASE Tail(proc[p].stack) = <<>> /\ proc[p].resume = "idle"
  <2>1. proc' = [proc EXCEPT ![p] = Start]
    BY <1>3 DEF Pop, Goto
  <2> QED
    BY <2>1, StartType DEF Typed, TypeOK, LocalOK, At, Start
<1>4. CASE Tail(proc[p].stack) = <<>> /\ proc[p].resume # "idle"
  <2>1. proc' = [proc EXCEPT ![p].stack = Tail(@), ![p].pc = proc[p].resume]
    BY <1>4 DEF Pop
  <2>2. proc' \in [Proc -> Local]
    <3>1. [proc[p] EXCEPT !.stack = Tail(proc[p].stack), !.pc = proc[p].resume] \in Local
      BY <1>1, <1>2 DEF Local, PC
    <3>2. proc' = [proc EXCEPT ![p] = [proc[p] EXCEPT !.stack = Tail(proc[p].stack),
                                                      !.pc = proc[p].resume]]
      BY <2>1
    <3> QED
      BY <3>1, <3>2 DEF Typed, TypeOK
  <2>3. /\ proc'[p].pc = proc[p].resume /\ proc'[p].after = proc[p].after
        /\ proc'[p].resume = proc[p].resume /\ proc'[p].mine = proc[p].mine
        /\ \A q \in Proc \ {p} : proc'[q] = proc[q]
    BY <1>1, <2>1 DEF Typed, TypeOK, Local
  <2>4. LocalOK'
    BY <1>2, <1>4, <2>3 DEF Typed, LocalOK, At
  <2> QED
    BY <2>2, <2>4
<1>5. CASE Tail(proc[p].stack) # <<>>
  <2>1. proc' = [proc EXCEPT ![p].stack = Tail(proc[p].stack)]
    BY <1>1, <1>5 DEF Pop, Local, Typed, TypeOK
  <2> QED
    BY <1>1, <1>5, <2>1, StackTyped
<1> QED
  BY <1>3, <1>4, <1>5

(* A release that turns to draining is typed.                               *)
LEMMA DrainStartTyped ==
    ASSUME Typed, NEW p \in Proc, NEW to \in {"idle", "queued"}, Drain(p, to),
           to = "queued" => proc[p].mine \in Lease
    PROVE  proc' \in [Proc -> Local] /\ LocalOK'
<1>1. proc[p] \in Local /\ <<>> \in Seq(Frame)
  BY DEF Typed, TypeOK
<1>2. proc' \in [Proc -> Local]
  <2>1. [proc[p] EXCEPT !.pc = "head", !.after = to, !.stack = <<>>] \in Local
    BY <1>1 DEF Local, PC
  <2>2. proc' = [proc EXCEPT ![p] = [proc[p] EXCEPT !.pc = "head", !.after = to,
                                                    !.stack = <<>>]]
    BY DEF Drain
  <2> QED
    BY <2>1, <2>2 DEF Typed, TypeOK
<1> QED
  BY <1>1, <1>2 DEF Drain, Typed, TypeOK, Local, LocalOK, At

(* The steps of release_lease keep the types.                               *)
LEMMA ReleaseTyped ==
    ASSUME Typed, NEW p \in Proc, Look(p) \/ ReleaseKid(p) \/ Settle(p) \/ Cancel(p)
    PROVE  Typed'
<1>0. At(p, "unwind") /\ proc[p] \in Local
  BY DEF Look, ReleaseKid, Settle, Cancel, Releasing, Typed, TypeOK
<1>1. Top(p) \in Frame /\ Tail(proc[p].stack) \in Seq(Frame)
  BY <1>0, TopTyped
<1>2. Top(p).lease \in Lease /\ Top(p).kids \in SUBSET Lease
  BY <1>1 DEF Frame
<1>3. ASSUME NEW f \in Frame, Replace(p, f)
      PROVE  proc' \in [Proc -> Local] /\ LocalOK'
  <2>1. <<f>> \o Tail(proc[p].stack) \in Seq(Frame) /\ <<f>> \o Tail(proc[p].stack) # <<>>
    BY <1>1
  <2>2. proc' = [proc EXCEPT ![p].stack = <<f>> \o Tail(proc[p].stack)]
    BY <1>3, <1>0 DEF Replace, Typed, TypeOK
  <2> QED
    BY <1>0, <2>1, <2>2, StackTyped
<1>4. CASE Look(p)
  <2>1. [Top(p) EXCEPT !.step = "settle", !.kids = Children(Top(p).lease)] \in Frame
    BY <1>1 DEF Frame, Children, Occupying
  <2>2. [Top(p) EXCEPT !.step = "cancel"] \in Frame
    BY <1>1 DEF Frame
  <2>3. proc' \in [Proc -> Local] /\ LocalOK'
    BY <1>0, <1>3, <1>4, <2>1, <2>2, PopTyped DEF Look
  <2> QED
    BY <1>4, <2>3 DEF Look, Ledger, Typed, TypeOK
<1>5. CASE ReleaseKid(p)
  <2>1. PICK k \in Top(p).kids :
          proc' = [proc EXCEPT ![p].stack =
                      <<Invocation(k, FALSE), [Top(p) EXCEPT !.kids = @ \ {k}]>> \o Tail(@)]
    BY <1>5 DEF ReleaseKid
  <2>2. Invocation(k, FALSE) \in Frame /\ [Top(p) EXCEPT !.kids = @ \ {k}] \in Frame
    <3>1. k \in Lease /\ Top(p).kids \ {k} \in SUBSET Lease
      BY <1>2
    <3> QED
      BY <1>1, <3>1 DEF Frame, Invocation
  <2>3. ASSUME NEW f \in Frame, NEW g \in Frame
        PROVE  /\ <<f, g>> \o Tail(proc[p].stack) \in Seq(Frame)
               /\ <<f, g>> \o Tail(proc[p].stack) # <<>>
    BY <1>1
  <2>4. proc' \in [Proc -> Local] /\ LocalOK'
    BY <1>0, <2>1, <2>2, <2>3, StackTyped
  <2> QED
    BY <1>5, <2>4 DEF ReleaseKid, Ledger, Typed, TypeOK
<1>6. CASE Settle(p)
  <2>1. held' \in [Pool -> [Dim -> Nat]]
    BY <1>2, <1>6, ReturnType DEF Settle, Typed
  <2>2. row' \in [Lease -> Row]
    <3>1. row[Top(p).lease] \in Row /\ [row EXCEPT ![Top(p).lease].status = "released"] \in [Lease -> Row]
      BY <1>2, RowEdit DEF Typed, TypeOK, Status
    <3>2. ASSUME NEW rows \in [Lease -> Row], NEW r \in Row
          PROVE  ReturnCover(rows, r) \in [Lease -> Row]
      <4>1. CASE r.parent = NoLease
        BY <4>1 DEF ReturnCover
      <4>2. CASE r.parent # NoLease
        <5>1. r.parent \in Lease /\ r.covered \in [Dim -> Int] /\ rows[r.parent].drawn \in [Dim -> Nat]
          BY <4>2, LedgerAssumption DEF Row, Vector
        <5>2. Minus(rows[r.parent].drawn, r.covered) \in [Dim -> Nat]
          BY <5>1, MinusType
        <5>3. [rows[r.parent] EXCEPT !.drawn = Minus(@, r.covered)] \in Row
          BY <5>1, <5>2 DEF Row
        <5> QED
          BY <4>2, <5>1, <5>3 DEF ReturnCover
      <4> QED
        BY <4>1, <4>2
    <3> QED
      BY <1>6, <3>1, <3>2 DEF Settle
  <2>3. proc' \in [Proc -> Local] /\ LocalOK'
    BY <1>0, <1>6, PopTyped, DrainStartTyped DEF Settle
  <2> QED
    BY <1>6, <2>1, <2>2, <2>3 DEF Settle, Typed, TypeOK
<1>7. CASE Cancel(p)
  <2>1. row' \in [Lease -> Row]
    BY <1>2, <1>7, RowEdit DEF Cancel, Typed, Status
  <2>2. proc' \in [Proc -> Local] /\ LocalOK'
    BY <1>0, <1>7, PopTyped DEF Cancel
  <2> QED
    BY <1>7, <2>1, <2>2 DEF Cancel, Typed, TypeOK
<1> QED
  BY <1>4, <1>5, <1>6, <1>7

(* The steps of holders and waiters keep the types.                         *)
LEMMA HolderTyped ==
    ASSUME Typed, NEW p \in Proc,
           \/ Renew(p) \/ Release(p) \/ GiveUp(p) \/ Poll(p) \/ Reclaim(p)
           \/ \E l \in Lease : ForceRelease(p, l)
    PROVE  Typed'
<1>1. proc[p] \in Local
  BY DEF Typed, TypeOK
<1>2. CASE Renew(p)
  <2>1. proc[p].mine \in Lease
    BY <1>2 DEF Renew, At, Typed, LocalOK
  <2>2. PICK label \in {"renew", "holding"} : proc' = [proc EXCEPT ![p].pc = label]
    BY <1>2 DEF Renew
  <2>3. proc' \in [Proc -> Local]
    BY <1>1, <2>2 DEF Typed, TypeOK, Local, PC
  <2>4. LocalOK'
    BY <1>1, <2>1, <2>2, <2>3 DEF Typed, TypeOK, Local, LocalOK, At
  <2>5. row' \in [Lease -> Row]
    <3>1. [row EXCEPT ![proc[p].mine].status = "held"] \in [Lease -> Row]
      BY <2>1, RowEdit DEF Typed, Status
    <3>2. row \in [Lease -> Row]
      BY DEF Typed, TypeOK
    <3> QED
      BY <1>2, <3>1, <3>2 DEF Renew, Ledger
  <2> QED
    BY <1>2, <2>3, <2>4, <2>5 DEF Renew, Ledger, Typed, TypeOK
<1>3. CASE Release(p) \/ GiveUp(p)
  <2>1. proc[p].mine \in Lease
    BY <1>3 DEF Release, GiveUp, At, Typed, LocalOK
  <2> QED
    BY <1>3, <2>1, CallTyped DEF Release, GiveUp
<1>4. CASE \E l \in Lease : ForceRelease(p, l)
  BY <1>4, CallTyped DEF ForceRelease
<1>5. CASE Reclaim(p)
  <2>1. proc[p].todo \in SUBSET Lease
    BY <1>1 DEF Local
  <2>2. CASE \E l \in proc[p].todo : Call(p, l, FALSE, "reclaim")
    BY <1>5, <2>1, <2>2, CallTyped DEF Reclaim
  <2>3. CASE Goto(p, "head")
    BY <1>5, <2>3, GotoTyped DEF Reclaim, PC
  <2> QED
    BY <1>5, <2>2, <2>3 DEF Reclaim
<1>6. CASE Poll(p)
  <2>1. proc[p].mine \in Lease
    BY <1>6 DEF Poll, At, Typed, LocalOK
  <2>2. CASE Goto(p, "holding") \/ Goto(p, "idle")
    BY <1>6, <2>1, <2>2, GotoTyped DEF Poll, PC
  <2>3. CASE Drain(p, "queued")
    BY <1>6, <2>1, <2>3, DrainStartTyped DEF Poll, Ledger, Typed, TypeOK
  <2>4. CASE proc' = [proc EXCEPT ![p].pc = "reclaim", ![p].after = "queued", ![p].todo = DeadHeld]
    <3>1. DeadHeld \in SUBSET Lease
      BY DEF DeadHeld, Occupying
    <3>2. proc' \in [Proc -> Local]
      <4>1. [proc[p] EXCEPT !.pc = "reclaim", !.after = "queued", !.todo = DeadHeld] \in Local
        BY <1>1, <3>1 DEF Local, PC
      <4>2. proc' = [proc EXCEPT ![p] = [proc[p] EXCEPT !.pc = "reclaim", !.after = "queued",
                                                        !.todo = DeadHeld]]
        BY <2>4
      <4> QED
        BY <4>1, <4>2 DEF Typed, TypeOK
    <3>3. LocalOK'
      BY <1>1, <2>1, <2>4, <3>2 DEF Typed, TypeOK, Local, LocalOK, At
    <3> QED
      BY <1>6, <3>2, <3>3 DEF Poll, Ledger, Typed, TypeOK
  <2> QED
    BY <1>6, <2>2, <2>3, <2>4 DEF Poll
<1> QED
  BY <1>2, <1>3, <1>4, <1>5, <1>6

(* What a parent lends is a natural vector.                                 *)
LEMMA CoverType ==
    ASSUME TypeOK, NEW l \in Lease, NEW v \in Vector, NEW draw \in BOOLEAN
    PROVE  Cover(l, v, draw) \in Vector
<1>1. row[l].cost \in Vector /\ row[l].drawn \in [Dim -> Nat]
  BY DEF TypeOK, Row
<1>2. ASSUME NEW d \in Dim, NEW n \in Nat, v[d] \in 0..MaxCost
      PROVE  (IF ~draw \/ d = "slots" THEN 0 ELSE IF v[d] <= n THEN v[d] ELSE n) \in 0..MaxCost
  BY <1>2, LedgerAssumption
<1>3. \A d \in Dim : (IF row[l].cost[d] >= row[l].drawn[d]
                       THEN row[l].cost[d] - row[l].drawn[d] ELSE 0) \in Nat
  BY <1>1, LedgerAssumption DEF Vector
<1>4. \A d \in Dim : v[d] \in 0..MaxCost
  BY DEF Vector
<1> QED
  BY <1>2, <1>3, <1>4 DEF Cover, Vector

(* reserve_child keeps the types.                                           *)
LEMMA ReserveChildTyped ==
    ASSUME Typed, NEW p \in Proc, NEW parent \in Lease, NEW c \in Nested, NEW draw \in BOOLEAN,
           ReserveChild(p, parent, c, draw)
    PROVE  Typed'
<1> DEFINE cover  == Cover(parent, c.price, draw)
           excess == Minus(c.price, cover)
<1>1. proc[p] \in Local /\ c \in Price
  BY LedgerAssumption DEF Typed, TypeOK
<1>2. c.price \in Vector /\ c.price \in [Dim -> Nat] /\ c.pool \in Pool
  BY <1>1, LedgerAssumption DEF Price, Vector
<1>3. cover \in Vector
  BY <1>2, CoverType DEF Typed
<1>4. cover \in [Dim -> Nat] /\ cover \in [Dim -> Int]
  BY <1>3, LedgerAssumption DEF Vector
<1>5. excess \in [Dim -> Nat]
  BY <1>2, <1>4, MinusType
<1>6. held' \in [Pool -> [Dim -> Nat]]
  <2>1. held' = Charge(CHARGED_POOLS[c.pool], excess)
    BY DEF ReserveChild
  <2> QED
    BY <1>5, <2>1, ChargeType DEF Typed
<1>7. PICK l \in Unused :
        /\ row' = [row EXCEPT
              ![parent].drawn = Plus(@, cover),
              ![l] = [status |-> "held", holder |-> p, pool |-> c.pool,
                      cost |-> c.price, covered |-> cover, drawn |-> Zero,
                      parent |-> parent, position |-> 0, ahead |-> {}]]
        /\ proc' = [proc EXCEPT ![p].pc = "holding", ![p].mine = l]
  BY DEF ReserveChild
<1> HIDE DEF cover, excess
<1>8. l \in Lease
  BY DEF Unused
<1>9. row' \in [Lease -> Row]
  <2>1. Zero \in [Dim -> Nat]
    BY DEF Zero
  <2>2. [status |-> "held", holder |-> p, pool |-> c.pool,
         cost |-> c.price, covered |-> cover, drawn |-> Zero,
         parent |-> parent, position |-> 0, ahead |-> {}] \in Row
    BY <1>2, <1>3, <2>1 DEF Row, Status
  <2>3. row[parent] \in Row /\ row[parent].drawn \in [Dim -> Nat]
    BY DEF Typed, TypeOK, Row
  <2>4. Plus(row[parent].drawn, cover) \in [Dim -> Nat]
    BY <1>4, <2>3, PlusType
  <2>5. [row[parent] EXCEPT !.drawn = Plus(@, cover)] \in Row
    BY <2>3, <2>4 DEF Row
  <2> QED
    BY <1>7, <1>8, <2>2, <2>5 DEF Typed, TypeOK
<1>10. proc' \in [Proc -> Local]
  <2>1. [proc[p] EXCEPT !.pc = "holding", !.mine = l] \in Local
    BY <1>1, <1>8 DEF Local, PC
  <2>2. proc' = [proc EXCEPT ![p] = [proc[p] EXCEPT !.pc = "holding", !.mine = l]]
    BY <1>7
  <2> QED
    BY <2>1, <2>2 DEF Typed, TypeOK
<1>11. LocalOK'
  BY <1>1, <1>7, <1>8, <1>10 DEF Typed, TypeOK, Local, LocalOK, At
<1> QED
  BY <1>6, <1>9, <1>10, <1>11 DEF ReserveChild, Typed, TypeOK

(* The steps of the reaper keep the types.                                  *)
LEMMA SweepTyped ==
    ASSUME Typed, NEW p \in Proc,
           Sweep(p) \/ Judge(p) \/ Probe(p) \/ DropWaiter(p) \/ Repair(p) \/ Crash(p)
    PROVE  Typed'
<1>1. proc[p] \in Local /\ proc[p].todo \in SUBSET Lease
  BY DEF Typed, TypeOK, Local
<1>2. ASSUME NEW l \in Lease, proc' = [proc EXCEPT ![p].todo = @ \ {l}]
      PROVE  proc' \in [Proc -> Local] /\ LocalOK'
  <2>1. proc[p].todo \ {l} \in SUBSET Lease
    BY <1>1
  <2>2. proc' \in [Proc -> Local]
    BY <1>1, <1>2, <2>1 DEF Typed, TypeOK, Local
  <2> QED
    BY <1>1, <1>2, <2>2 DEF Typed, TypeOK, Local, LocalOK, At
<1>3. CASE Sweep(p)
  <2>1. Occupying \in SUBSET Lease
    BY DEF Occupying
  <2>2. proc' \in [Proc -> Local]
    <3>1. [proc[p] EXCEPT !.pc = "judge", !.after = proc[p].pc, !.todo = Occupying] \in Local
      BY <1>1, <2>1 DEF Local, PC
    <3>2. proc' = [proc EXCEPT ![p] = [proc[p] EXCEPT !.pc = "judge", !.after = proc[p].pc,
                                                      !.todo = Occupying]]
      BY <1>3 DEF Sweep
    <3> QED
      BY <3>1, <3>2 DEF Typed, TypeOK
  <2>3. LocalOK'
    BY <1>1, <1>3, <2>2 DEF Sweep, Typed, TypeOK, Local, LocalOK, At
  <2>4. ceiling' \in [Pool -> [Dim -> Nat]]
    BY <1>3, LedgerAssumption DEF Sweep, Typed, TypeOK
  <2> QED
    BY <1>3, <2>2, <2>3, <2>4 DEF Sweep, Typed, TypeOK
<1>4. CASE Judge(p)
  <2>1. CASE \E l \in proc[p].todo : Call(p, l, FALSE, "judge")
    BY <1>1, <1>4, <2>1, CallTyped DEF Judge
  <2>2. CASE \E l \in proc[p].todo : proc' = [proc EXCEPT ![p].todo = @ \ {l}]
    BY <1>1, <1>2, <1>4, <2>2 DEF Judge, Ledger, Typed, TypeOK
  <2>3. CASE \E l \in proc[p].todo :
               proc' = [proc EXCEPT ![p].pc = "probe", ![p].head = l, ![p].todo = @ \ {l}]
    <3>1. PICK l \in proc[p].todo :
               proc' = [proc EXCEPT ![p].pc = "probe", ![p].head = l, ![p].todo = @ \ {l}]
      BY <2>3
    <3>2. l \in Lease /\ proc[p].todo \ {l} \in SUBSET Lease
      BY <1>1
    <3>3. proc' \in [Proc -> Local]
      BY <1>1, <3>1, <3>2 DEF Typed, TypeOK, Local, PC
    <3>4. LocalOK'
      BY <1>1, <3>1, <3>2, <3>3 DEF Typed, TypeOK, Local, LocalOK, At
    <3> QED
      BY <1>4, <3>3, <3>4 DEF Judge, Ledger, Typed, TypeOK
  <2>4. CASE proc' = [proc EXCEPT ![p].pc = "drop", ![p].todo = Waiting]
    <3>1. Waiting \in SUBSET Lease
      BY DEF Waiting
    <3>2. proc' \in [Proc -> Local]
      BY <1>1, <2>4, <3>1 DEF Typed, TypeOK, Local, PC
    <3>3. LocalOK'
      BY <1>1, <2>4, <3>2 DEF Typed, TypeOK, Local, LocalOK, At
    <3> QED
      BY <1>4, <3>2, <3>3 DEF Judge, Ledger, Typed, TypeOK
  <2> QED
    BY <1>4, <2>1, <2>2, <2>3, <2>4 DEF Judge
<1>5. CASE Probe(p)
  <2>1. proc[p].head \in Lease
    BY <1>5 DEF Probe, At, Typed, LocalOK
  <2>2. row' \in [Lease -> Row]
    BY <1>5, <2>1, RowEdit DEF Probe, Typed, Status
  <2>3. proc' \in [Proc -> Local]
    BY <1>1, <1>5 DEF Probe, Typed, TypeOK, Local, PC
  <2>4. LocalOK'
    BY <1>1, <1>5, <2>3 DEF Probe, Typed, TypeOK, Local, LocalOK, At
  <2> QED
    BY <1>5, <2>2, <2>3, <2>4 DEF Probe, Typed, TypeOK
<1>6. CASE DropWaiter(p)
  <2>1. CASE \E l \in proc[p].todo : Call(p, l, FALSE, "drop")
    BY <1>1, <1>6, <2>1, CallTyped DEF DropWaiter
  <2>2. CASE \E l \in proc[p].todo : proc' = [proc EXCEPT ![p].todo = @ \ {l}]
    BY <1>1, <1>2, <1>6, <2>2 DEF DropWaiter, Ledger, Typed, TypeOK
  <2>3. CASE Goto(p, "repair")
    BY <1>6, <2>3, GotoTyped DEF DropWaiter, PC
  <2> QED
    BY <1>6, <2>1, <2>2, <2>3 DEF DropWaiter
<1>7. CASE Repair(p)
  <2>1. held' \in [Pool -> [Dim -> Nat]]
    BY <1>7, LoadNat DEF Repair, Typed
  <2>2. row' \in [Lease -> Row]
    <3>1. \A l \in Lease : [d \in Dim |-> Cardinality(CoverUnits(Children(l), d))] \in [Dim -> Nat]
      BY CoverNat
    <3>2. ASSUME NEW l \in Lease, NEW v \in [Dim -> Nat]
          PROVE  [row[l] EXCEPT !.drawn = v] \in Row
      <4>1. row[l] \in Row
        BY DEF Typed, TypeOK
      <4> QED
        BY <4>1 DEF Row
    <3> QED
      BY <1>7, <3>1, <3>2 DEF Repair, Typed, TypeOK
  <2>3. proc' = [proc EXCEPT ![p].pc = "head"]
    BY <1>7 DEF Repair, Goto
  <2>4. proc' \in [Proc -> Local]
    BY <1>1, <2>3 DEF Typed, TypeOK, Local, PC
  <2>5. LocalOK'
    BY <1>1, <2>3, <2>4 DEF Typed, TypeOK, Local, LocalOK, At
  <2> QED
    BY <1>7, <2>1, <2>2, <2>4, <2>5 DEF Repair, Typed, TypeOK
<1>8. CASE Crash(p)
  <2>1. [Start EXCEPT !.pc = "dead"] \in Local
    BY StartType DEF Local, PC
  <2>2. proc' \in [Proc -> Local]
    BY <1>8, <2>1 DEF Crash, Typed, TypeOK
  <2>3. LocalOK'
    BY <1>8 DEF Crash, Typed, TypeOK, LocalOK, At, Start
  <2> QED
    BY <1>8, <2>2, <2>3 DEF Crash, Ledger, Typed, TypeOK
<1> QED
  BY <1>3, <1>4, <1>5, <1>6, <1>7, <1>8

(* Every step keeps the types.                                              *)
LEMMA NextTyped == Typed /\ [Next]_vars => Typed'
<1> SUFFICES ASSUME Typed, [Next]_vars PROVE Typed'
  OBVIOUS
<1>1. CASE UNCHANGED vars
  BY <1>1 DEF vars, Typed, TypeOK, LocalOK, At
<1>2. ASSUME NEW p \in Proc, Step(p) PROVE Typed'
  BY <1>2, InsertTyped, DrainTyped, ReleaseTyped, HolderTyped, SweepTyped DEF Step
<1>3. ASSUME NEW p \in Proc, Choice(p) PROVE Typed'
  BY <1>3, ReserveTyped, ReserveChildTyped, HolderTyped, SweepTyped DEF Choice
<1> QED
  BY <1>1, <1>2, <1>3 DEF Next

(* Every reachable state of the ledger is well-typed, for any processes,    *)
(* leases, prices, ceilings and roles: in particular the clamped running    *)
(* totals never go below zero and no step is taken with a dangling lease.   *)
THEOREM LedgerTypeCorrect == Spec => []TypeOK
<1>1. Init => Typed
  BY InitTyped
<1>2. Typed /\ [Next]_vars => Typed'
  BY NextTyped
<1>3. Typed => TypeOK
  BY DEF Typed
<1> QED
  BY <1>1, <1>2, <1>3, PTL DEF Spec

-----------------------------------------------------------------------------
(* The order of the line.                                                   *)

Clear(l) == row[l].status # "none" /\ ClearAhead(l)

(* Settling a lease changes no status but its own, and no place in line.    *)
LEMMA SettledRows ==
    ASSUME row \in [Lease -> Row], NEW x \in Lease
    PROVE  LET after == ReturnCover([row EXCEPT ![x].status = "released"], row[x])
           IN  /\ after[x].status = "released"
               /\ \A l \in Lease : after[l].ahead = row[l].ahead
               /\ \A l \in Lease \ {x} : /\ after[l].status = row[l].status
                                         /\ after[l].position = row[l].position
<1> DEFINE mid == [row EXCEPT ![x].status = "released"]
<1>1. /\ mid \in [Lease -> Row] /\ mid[x].status = "released"
      /\ \A l \in Lease : mid[l].ahead = row[l].ahead
      /\ \A l \in Lease \ {x} : mid[l] = row[l]
  BY DEF Row, Status
<1>2. row[x].parent \in Lease \cup {NoLease}
  BY DEF Row
<1> HIDE DEF mid
<1>3. \A l \in Lease : /\ ReturnCover(mid, row[x])[l].status = mid[l].status
                        /\ ReturnCover(mid, row[x])[l].position = mid[l].position
                        /\ ReturnCover(mid, row[x])[l].ahead = mid[l].ahead
  BY <1>1, <1>2 DEF ReturnCover, Row
<1> QED
  BY <1>1, <1>3 DEF mid

(* A step that lets nobody into the line, hands out no position, and grants *)
(* or vouches for none but leases that have nobody left ahead of them.      *)
Tame ==
    /\ nextPosition' = nextPosition
    /\ \A l \in Lease :
          /\ row'[l].ahead = row[l].ahead
          /\ row'[l].status = "waiting" =>
                row[l].status = "waiting" /\ row'[l].position = row[l].position
          /\ row[l].status # "none" => row'[l].status # "none"
          /\ (row'[l].status \in OCCUPYING \/ Vouched(l)') => Clear(l)
    /\ \A p \in Proc : proc'[p].pc = "insert" =>
          /\ proc[p].pc = "insert"
          /\ proc'[p].pos = proc[p].pos
          /\ proc'[p].ahead = proc[p].ahead

(* A step that neither grants nor queues anybody keeps the line.            *)
LEMMA TameKeepsLine ==
    ASSUME Typed, LineOK, Tame
    PROVE  LineOK'
<1>1. \A l \in Lease : row[l].ahead \in SUBSET Lease
  BY DEF Typed, TypeOK, Row
<1>2. \A p \in Proc : proc[p].ahead \in SUBSET Lease
  BY DEF Typed, TypeOK, Local
<1>3. AheadWritten'
  BY <1>1 DEF LineOK, Tame, AheadWritten
<1>4. NoOvertaking'
  BY <1>1 DEF Tame, NoOvertaking, Occupying, Clear, ClearAhead
<1>5. VouchedClear'
  BY <1>1 DEF Tame, VouchedClear, Clear, ClearAhead
<1>6. WaitersOrdered'
  BY <1>1 DEF LineOK, Tame, WaitersOrdered, Waiting
<1>7. ArrivalsOrdered'
  BY <1>2 DEF LineOK, Tame, ArrivalsOrdered, Waiting, At
<1>8. PositionsDistinct'
  BY DEF LineOK, Tame, PositionsDistinct, Waiting, At
<1> QED
  BY <1>3, <1>4, <1>5, <1>6, <1>7, <1>8 DEF LineOK

(* What occupies or is vouched for already has nobody left ahead of it.     *)
LEMMA GrantedIsClear ==
    ASSUME LineOK, NEW l \in Lease, l \in Occupying \/ Vouched(l)
    PROVE  Clear(l)
BY DEF LineOK, NoOvertaking, VouchedClear, Clear, ClearAhead, Occupying, OCCUPYING

(* The head of the line has nobody left ahead of it.                        *)
LEMMA HeadIsClear ==
    ASSUME Typed, LineOK, NEW l \in Lease, IsHead(l)
    PROVE  Clear(l)
<1>1. \A k \in row[l].ahead : k \in Lease
  BY DEF Typed, TypeOK, Row
<1>2. \A k \in Lease : row[k].position \in Nat
  BY DEF Typed, TypeOK, Row
<1> QED
  BY <1>1, <1>2 DEF IsHead, LineOK, WaitersOrdered, Clear, ClearAhead, Waiting

(* A step of one process that only moves that process.                      *)
LEMMA MoveIsTame ==
    ASSUME Typed, LineOK, NEW p \in Proc, UNCHANGED <<row, nextPosition>>,
           \A q \in Proc \ {p} : proc'[q] = proc[q],
           proc'[p].pc # "insert",
           proc'[p].pc \in {"book", "claim", "probe"} =>
               proc'[p].head \in Lease /\ Clear(proc'[p].head),
           proc'[p].pc = "renew" => proc'[p].mine \in Lease /\ Clear(proc'[p].mine)
    PROVE  Tame
<1>1. ASSUME NEW l \in Lease, Vouched(l)' PROVE Clear(l)
  <2>1. PICK q \in Proc : \/ proc'[q].pc \in {"book", "claim", "probe"} /\ proc'[q].head = l
                          \/ proc'[q].pc = "renew" /\ proc'[q].mine = l
    BY <1>1 DEF Vouched, At
  <2>2. CASE q = p
    BY <2>1, <2>2
  <2>3. CASE q # p
    <3>1. Vouched(l)
      BY <2>1, <2>3 DEF Vouched, At
    <3> QED
      BY <3>1, GrantedIsClear
  <2> QED
    BY <2>2, <2>3
<1>2. \A l \in Lease : row[l].status \in OCCUPYING => Clear(l)
  BY GrantedIsClear DEF Occupying
<1> QED
  BY <1>1, <1>2 DEF Tame

(* A step of one process that also takes one lease out of the line or ends, *)
(* marks or revives it.                                                     *)
LEMMA EditIsTame ==
    ASSUME Typed, LineOK, NEW p \in Proc, NEW m \in Lease, UNCHANGED nextPosition,
           \A l \in Lease : row'[l].ahead = row[l].ahead,
           \A l \in Lease \ {m} : /\ row'[l].status = row[l].status
                                   /\ row'[l].position = row[l].position,
           row'[m].status \in {"held", "orphaned", "released"},
           row'[m].status # "released" => Clear(m),
           \A q \in Proc \ {p} : proc'[q] = proc[q],
           proc'[p].pc \notin {"insert", "book", "claim", "probe", "renew"}
    PROVE  Tame
<1>1. ASSUME NEW l \in Lease, Vouched(l)' PROVE Clear(l)
  <2>1. Vouched(l)
    BY <1>1 DEF Vouched, At
  <2> QED
    BY <2>1, GrantedIsClear
<1>2. ASSUME NEW l \in Lease, row'[l].status \in OCCUPYING PROVE Clear(l)
  <2>1. CASE l = m
    BY <1>2, <2>1 DEF OCCUPYING
  <2>2. CASE l # m
    BY <1>2, <2>2, GrantedIsClear DEF Occupying
  <2> QED
    BY <2>1, <2>2
<1>3. \A l \in Lease : row'[l].status = "waiting" =>
          row[l].status = "waiting" /\ row'[l].position = row[l].position
  OBVIOUS
<1>4. \A l \in Lease : row[l].status # "none" => row'[l].status # "none"
  OBVIOUS
<1> QED
  BY <1>1, <1>2, <1>3, <1>4 DEF Tame

(* drain_waiters grants the head only, and so keeps the line.               *)
LEMMA DrainKeepsLine ==
    ASSUME Typed, LineOK, NEW p \in Proc,
           HeadRead(p) \/ Book(p) \/ Claim(p) \/ Refund(p) \/ Answer(p)
    PROVE  LineOK'
<1>1. proc \in [Proc -> Local] /\ proc[p].after \in {"idle", "answer", "queued"}
  BY DEF Typed, TypeOK, LocalOK
<1>2. ASSUME StopDrain(p), UNCHANGED <<row, nextPosition>> PROVE LineOK'
  <2>1. Tame
    BY <1>1, <1>2, MoveIsTame DEF StopDrain, Goto, Start
  <2> QED
    BY <2>1, TameKeepsLine
<1>3. CASE HeadRead(p)
  <2>1. CASE StopDrain(p)
    BY <1>2, <1>3, <2>1 DEF HeadRead, Ledger
  <2>2. CASE \E l \in Lease : IsHead(l) /\ proc' = [proc EXCEPT ![p].pc = "book", ![p].head = l]
    <3>1. PICK l \in Lease : IsHead(l) /\ proc' = [proc EXCEPT ![p].pc = "book", ![p].head = l]
      BY <2>2
    <3>2. Clear(l)
      BY <3>1, HeadIsClear
    <3>3. Tame
      BY <1>1, <1>3, <3>1, <3>2, MoveIsTame DEF HeadRead, Ledger, Local
    <3> QED
      BY <3>3, TameKeepsLine
  <2> QED
    BY <1>3, <2>1, <2>2 DEF HeadRead
<1>4. CASE Book(p)
  <2>1. CASE StopDrain(p)
    BY <1>2, <1>4, <2>1 DEF Book
  <2>2. CASE Goto(p, "claim")
    <3>1. proc[p].head \in Lease /\ Vouched(proc[p].head)
      BY <1>4 DEF Book, At, Typed, LocalOK, Vouched
    <3>2. Clear(proc[p].head)
      BY <3>1, GrantedIsClear
    <3>3. proc' = [proc EXCEPT ![p].pc = "claim"]
      BY <2>2 DEF Goto
    <3>4. Tame
      BY <1>1, <1>4, <3>1, <3>2, <3>3, MoveIsTame DEF Book, Local
    <3> QED
      BY <3>4, TameKeepsLine
  <2> QED
    BY <1>4, <2>1, <2>2 DEF Book
<1>5. CASE Claim(p)
  <2>1. proc[p].head \in Lease /\ Vouched(proc[p].head)
    BY <1>5 DEF Claim, At, Typed, LocalOK, Vouched
  <2>2. Clear(proc[p].head)
    BY <2>1, GrantedIsClear
  <2>3. CASE UNCHANGED row /\ Goto(p, "refund")
    <3>1. Tame
      BY <1>1, <1>5, <2>3, MoveIsTame DEF Claim, Goto, Local
    <3> QED
      BY <3>1, TameKeepsLine
  <2>4. CASE /\ row' = [row EXCEPT ![proc[p].head].status = "held", ![proc[p].head].position = 0]
             /\ proc' = [proc EXCEPT ![p].pc = "head", ![p].head = NoLease]
    <3>1. row \in [Lease -> Row]
      BY DEF Typed, TypeOK
    <3>a. /\ row'[proc[p].head].status = "held"
          /\ \A l \in Lease : row'[l].ahead = row[l].ahead
          /\ \A l \in Lease \ {proc[p].head} : row'[l] = row[l]
      BY <2>1, <2>4, <3>1 DEF Row
    <3>b. proc'[p].pc = "head" /\ \A q \in Proc \ {p} : proc'[q] = proc[q]
      BY <1>1, <2>4 DEF Local
    <3>2. Tame
      BY <1>5, <2>1, <2>2, <3>a, <3>b, EditIsTame DEF Claim
    <3> QED
      BY <3>2, TameKeepsLine
  <2> QED
    BY <1>5, <2>3, <2>4 DEF Claim
<1>6. CASE Refund(p)
  <2>1. Tame
    BY <1>1, <1>6, MoveIsTame DEF Refund, Local
  <2> QED
    BY <2>1, TameKeepsLine
<1>7. CASE Answer(p)
  <2>1. Tame
    BY <1>1, <1>7, MoveIsTame DEF Answer, Goto, Ledger, Start
  <2> QED
    BY <2>1, TameKeepsLine
<1> QED
  BY <1>3, <1>4, <1>5, <1>6, <1>7

(* A release takes leases out of the line and out of the grants only.       *)
LEMMA ReleaseKeepsLine ==
    ASSUME Typed, LineOK, NEW p \in Proc, Look(p) \/ ReleaseKid(p) \/ Settle(p) \/ Cancel(p)
    PROVE  LineOK'
<1>1. proc \in [Proc -> Local] /\ row \in [Lease -> Row] /\ At(p, "unwind")
  BY DEF Look, ReleaseKid, Settle, Cancel, Releasing, Typed, TypeOK
<1>2. Top(p).lease \in Lease
  BY <1>1, TopTyped DEF Frame
<1>3. proc[p].resume \in {"idle", "reclaim", "judge", "drop"}
  BY DEF Typed, LocalOK
<1>4. ASSUME Pop(p) PROVE /\ \A q \in Proc \ {p} : proc'[q] = proc[q]
                          /\ proc'[p].pc \notin {"insert", "book", "claim", "probe", "renew"}
  BY <1>1, <1>3, <1>4 DEF Pop, Goto, Start, Local, At
<1>5. CASE Look(p)
  <2>1. ASSUME NEW f, Replace(p, f) PROVE Tame
    BY <1>1, <1>5, <2>1, MoveIsTame DEF Replace, Look, Ledger, Local, At
  <2>2. Tame
    BY <1>4, <1>5, <2>1, MoveIsTame DEF Look, Ledger
  <2> QED
    BY <2>2, TameKeepsLine
<1>6. CASE ReleaseKid(p)
  <2>1. PICK s : proc' = [proc EXCEPT ![p].stack = s]
    BY <1>6 DEF ReleaseKid
  <2>2. proc'[p].pc = "unwind" /\ \A q \in Proc \ {p} : proc'[q] = proc[q]
    BY <1>1, <2>1 DEF Local, At
  <2>3. UNCHANGED <<row, nextPosition>>
    BY <1>6 DEF ReleaseKid, Ledger
  <2>4. Tame
    BY <2>2, <2>3, MoveIsTame
  <2> QED
    BY <2>4, TameKeepsLine
<1>7. CASE Settle(p)
  <2>1. /\ \A q \in Proc \ {p} : proc'[q] = proc[q]
        /\ proc'[p].pc \notin {"insert", "book", "claim", "probe", "renew"}
    BY <1>1, <1>4, <1>7 DEF Settle, Drain, Local
  <2>2. row' = ReturnCover([row EXCEPT ![Top(p).lease].status = "released"], row[Top(p).lease])
    BY <1>7 DEF Settle
  <2>3. /\ row'[Top(p).lease].status = "released"
        /\ \A l \in Lease : row'[l].ahead = row[l].ahead
        /\ \A l \in Lease \ {Top(p).lease} : /\ row'[l].status = row[l].status
                                              /\ row'[l].position = row[l].position
    BY <1>1, <1>2, <2>2, SettledRows
  <2>4. Tame
    BY <1>2, <1>7, <2>1, <2>3, EditIsTame DEF Settle
  <2> QED
    BY <2>4, TameKeepsLine
<1>8. CASE Cancel(p)
  <2>1. /\ row'[Top(p).lease].status = "released"
        /\ \A l \in Lease : row'[l].ahead = row[l].ahead
        /\ \A l \in Lease \ {Top(p).lease} : row'[l] = row[l]
    BY <1>1, <1>2, <1>8 DEF Cancel, Row
  <2>2. Tame
    BY <1>2, <1>4, <1>8, <2>1, EditIsTame DEF Cancel
  <2> QED
    BY <2>2, TameKeepsLine
<1> QED
  BY <1>5, <1>6, <1>7, <1>8

(* Claims, heartbeats and releases keep the line.                           *)
LEMMA HolderKeepsLine ==
    ASSUME Typed, LineOK, NEW p \in Proc,
           \/ Renew(p) \/ Release(p) \/ GiveUp(p) \/ Poll(p) \/ Reclaim(p)
           \/ \E l \in Lease : ForceRelease(p, l)
    PROVE  LineOK'
<1>1. proc \in [Proc -> Local] /\ row \in [Lease -> Row]
  BY DEF Typed, TypeOK
<1>2. ASSUME NEW l, NEW drain, NEW to, Call(p, l, drain, to), UNCHANGED Ledger PROVE LineOK'
  <2>1. Tame
    BY <1>1, <1>2, MoveIsTame DEF Call, Ledger, Local
  <2> QED
    BY <2>1, TameKeepsLine
<1>3. CASE Release(p) \/ GiveUp(p) \/ \E l \in Lease : ForceRelease(p, l)
  BY <1>2, <1>3 DEF Release, GiveUp, ForceRelease
<1>4. CASE Reclaim(p)
  <2>1. CASE Goto(p, "head")
    <3>1. Tame
      BY <1>1, <1>4, <2>1, MoveIsTame DEF Goto, Reclaim, Ledger, Local
    <3> QED
      BY <3>1, TameKeepsLine
  <2> QED
    BY <1>2, <1>4, <2>1 DEF Reclaim
<1>5. CASE Poll(p)
  <2>a. /\ proc'[p].pc \in {"holding", "idle", "reclaim", "head"}
        /\ \A q \in Proc \ {p} : proc'[q] = proc[q]
    <3>1. CASE Goto(p, "holding")
      BY <1>1, <3>1 DEF Goto, Start
    <3>0. CASE Goto(p, "idle")
      BY <1>1, <3>0 DEF Goto, Start
    <3>2. CASE Drain(p, "queued")
      BY <1>1, <3>2 DEF Drain, Local
    <3>3. CASE proc' = [proc EXCEPT ![p].pc = "reclaim", ![p].after = "queued",
                                    ![p].todo = DeadHeld]
      BY <1>1, <3>3 DEF Local
    <3> QED
      BY <1>5, <3>0, <3>1, <3>2, <3>3 DEF Poll
  <2>1. Tame
    BY <1>5, <2>a, MoveIsTame DEF Poll, Ledger
  <2> QED
    BY <2>1, TameKeepsLine
<1>6. CASE Renew(p)
  <2>1. proc[p].mine \in Lease
    BY <1>6 DEF Renew, At, Typed, LocalOK
  <2>2. CASE row[proc[p].mine].status = "orphaned" /\ proc' = [proc EXCEPT ![p].pc = "renew"]
             /\ UNCHANGED Ledger
    <3>1. Clear(proc[p].mine)
      BY <2>1, <2>2, GrantedIsClear DEF Occupying, OCCUPYING
    <3>2. Tame
      BY <1>1, <2>1, <2>2, <3>1, MoveIsTame DEF Ledger, Local
    <3> QED
      BY <3>2, TameKeepsLine
  <2>3. CASE /\ At(p, "renew")
             /\ row' = [row EXCEPT ![proc[p].mine].status = "held"]
             /\ proc' = [proc EXCEPT ![p].pc = "holding"]
             /\ UNCHANGED <<held, ceiling, nextPosition>>
    <3>1. Vouched(proc[p].mine)
      BY <2>3 DEF Vouched
    <3>2. Clear(proc[p].mine)
      BY <2>1, <3>1, GrantedIsClear
    <3>a. /\ row'[proc[p].mine].status = "held"
          /\ \A l \in Lease : row'[l].ahead = row[l].ahead
          /\ \A l \in Lease \ {proc[p].mine} : row'[l] = row[l]
      BY <1>1, <2>1, <2>3 DEF Row
    <3>b. proc'[p].pc = "holding" /\ \A q \in Proc \ {p} : proc'[q] = proc[q]
      BY <1>1, <2>3 DEF Local
    <3>3. Tame
      BY <2>1, <2>3, <3>2, <3>a, <3>b, EditIsTame
    <3> QED
      BY <3>3, TameKeepsLine
  <2> QED
    BY <1>6, <2>2, <2>3 DEF Renew
<1> QED
  BY <1>3, <1>4, <1>5, <1>6

(* The reaper keeps the line.                                               *)
LEMMA SweepKeepsLine ==
    ASSUME Typed, LineOK, NEW p \in Proc,
           Sweep(p) \/ Judge(p) \/ Probe(p) \/ DropWaiter(p) \/ Repair(p) \/ Crash(p)
    PROVE  LineOK'
<1>1. proc \in [Proc -> Local] /\ row \in [Lease -> Row] /\ proc[p].todo \in SUBSET Lease
  BY DEF Typed, TypeOK, Local
<1>2. CASE Probe(p)
  <2>1. proc[p].head \in Lease /\ Vouched(proc[p].head)
    BY <1>2 DEF Probe, At, Typed, LocalOK, Vouched
  <2>2. Clear(proc[p].head)
    BY <2>1, GrantedIsClear
  <2>3. /\ row'[proc[p].head].status = "orphaned"
        /\ \A l \in Lease : row'[l].ahead = row[l].ahead
        /\ \A l \in Lease \ {proc[p].head} : row'[l] = row[l]
    BY <1>1, <1>2, <2>1 DEF Probe, Row
  <2>4. proc'[p].pc = "judge" /\ \A q \in Proc \ {p} : proc'[q] = proc[q]
    BY <1>1, <1>2 DEF Probe, Local
  <2>5. Tame
    BY <1>2, <2>1, <2>2, <2>3, <2>4, EditIsTame DEF Probe
  <2> QED
    BY <2>5, TameKeepsLine
<1>3. CASE Sweep(p) \/ DropWaiter(p) \/ Crash(p)
  <2>1. /\ proc'[p].pc \in {"judge", "unwind", "drop", "repair", "dead"}
        /\ \A q \in Proc \ {p} : proc'[q] = proc[q]
    <3>1. CASE Sweep(p)
      BY <1>1, <3>1 DEF Sweep, Local
    <3>2. CASE Crash(p)
      BY <1>1, <3>2 DEF Crash, Start
    <3>3. CASE DropWaiter(p)
      <4>1. CASE Goto(p, "repair")
        BY <1>1, <4>1 DEF Goto, Local
      <4>2. ASSUME NEW l, Call(p, l, FALSE, "drop")
            PROVE  proc'[p].pc = "unwind" /\ \A q \in Proc \ {p} : proc'[q] = proc[q]
        BY <1>1, <4>2 DEF Call, Local
      <4>3. ASSUME NEW l, proc' = [proc EXCEPT ![p].todo = @ \ {l}]
            PROVE  proc'[p].pc = "drop" /\ \A q \in Proc \ {p} : proc'[q] = proc[q]
        BY <1>1, <3>3, <4>3 DEF DropWaiter, At, Local
      <4> QED
        BY <3>3, <4>1, <4>2, <4>3 DEF DropWaiter
    <3> QED
      BY <1>3, <3>1, <3>2, <3>3
  <2>2. UNCHANGED <<row, nextPosition>>
    BY <1>3 DEF Sweep, DropWaiter, Crash, Ledger
  <2>3. Tame
    BY <2>1, <2>2, MoveIsTame
  <2> QED
    BY <2>3, TameKeepsLine
<1>4. CASE Judge(p)
  <2>1. UNCHANGED <<row, nextPosition>>
    BY <1>4 DEF Judge, Ledger
  <2>2. CASE \E l \in proc[p].todo :
               /\ row[l].status = "held"
               /\ proc' = [proc EXCEPT ![p].pc = "probe", ![p].head = l, ![p].todo = @ \ {l}]
    <3>1. PICK l \in proc[p].todo :
               /\ row[l].status = "held"
               /\ proc' = [proc EXCEPT ![p].pc = "probe", ![p].head = l, ![p].todo = @ \ {l}]
      BY <2>2
    <3>2. l \in Lease /\ Clear(l)
      BY <1>1, <3>1, GrantedIsClear DEF Occupying, OCCUPYING
    <3>3. /\ proc'[p].pc = "probe" /\ proc'[p].head = l
          /\ \A q \in Proc \ {p} : proc'[q] = proc[q]
      BY <1>1, <3>1 DEF Local
    <3>4. Tame
      BY <2>1, <3>2, <3>3, MoveIsTame
    <3> QED
      BY <3>4, TameKeepsLine
  <2>3. CASE \/ \E l \in proc[p].todo : \/ Call(p, l, FALSE, "judge")
                                        \/ proc' = [proc EXCEPT ![p].todo = @ \ {l}]
             \/ proc' = [proc EXCEPT ![p].pc = "drop", ![p].todo = Waiting]
    <3>1. /\ proc'[p].pc \in {"judge", "unwind", "drop"}
          /\ \A q \in Proc \ {p} : proc'[q] = proc[q]
      <4>1. ASSUME NEW l, Call(p, l, FALSE, "judge")
            PROVE  proc'[p].pc = "unwind" /\ \A q \in Proc \ {p} : proc'[q] = proc[q]
        BY <1>1, <4>1 DEF Call, Local
      <4>2. ASSUME NEW l, proc' = [proc EXCEPT ![p].todo = @ \ {l}]
            PROVE  proc'[p].pc = "judge" /\ \A q \in Proc \ {p} : proc'[q] = proc[q]
        <5>1. proc[p].pc = "judge"
          BY <1>4 DEF Judge, At
        <5> QED
          BY <1>1, <4>2, <5>1 DEF Local
      <4>3. CASE proc' = [proc EXCEPT ![p].pc = "drop", ![p].todo = Waiting]
        BY <1>1, <4>3 DEF Local
      <4> QED
        BY <2>3, <4>1, <4>2, <4>3
    <3>2. Tame
      BY <2>1, <3>1, MoveIsTame
    <3> QED
      BY <3>2, TameKeepsLine
  <2> QED
    BY <1>4, <2>2, <2>3 DEF Judge
<1>5. CASE Repair(p)
  <2>1. proc'[p].pc = "head" /\ \A q \in Proc \ {p} : proc'[q] = proc[q]
    BY <1>1, <1>5 DEF Repair, Goto, Local
  <2>2. \A l \in Lease : /\ row'[l].status = row[l].status
                         /\ row'[l].ahead = row[l].ahead
                         /\ row'[l].position = row[l].position
    BY <1>1, <1>5 DEF Repair, Row
  <2>3. ASSUME NEW l \in Lease, Vouched(l)' PROVE Clear(l)
    <3>1. Vouched(l)
      BY <2>1, <2>3 DEF Vouched, At
    <3> QED
      BY <3>1, GrantedIsClear
  <2>4. \A l \in Lease : row[l].status \in OCCUPYING => Clear(l)
    BY GrantedIsClear DEF Occupying
  <2>5. Tame
    BY <1>5, <2>1, <2>2, <2>3, <2>4 DEF Tame, Repair
  <2> QED
    BY <2>5, TameKeepsLine
<1> QED
  BY <1>2, <1>3, <1>4, <1>5

(* A position is handed out above every one in line.                        *)
LEMMA ReserveKeepsLine ==
    ASSUME Typed, LineOK, NEW p \in Proc, NEW c \in Claims, Reserve(p, c)
    PROVE  LineOK'
<1>1. /\ proc \in [Proc -> Local] /\ row \in [Lease -> Row] /\ nextPosition \in Nat
      /\ ~At(p, "insert")
  BY DEF Typed, TypeOK, Reserve, At
<1>2. CASE \E l \in Lease, label \in {"queued", "holding"} :
            /\ proc' = [proc EXCEPT ![p].pc = label, ![p].mine = l]
            /\ UNCHANGED <<row, nextPosition>>
  <2>1. /\ proc'[p].pc \in {"queued", "holding"}
        /\ \A q \in Proc \ {p} : proc'[q] = proc[q]
    BY <1>1, <1>2 DEF Local
  <2>2. Tame
    BY <1>2, <2>1, MoveIsTame
  <2> QED
    BY <2>2, TameKeepsLine
<1>3. CASE TakePosition(p, c) /\ UNCHANGED row
  <2>1. /\ proc'[p].pc = "insert" /\ proc'[p].pos = nextPosition /\ proc'[p].ahead = Waiting
        /\ \A q \in Proc \ {p} : proc'[q] = proc[q]
        /\ nextPosition' = nextPosition + 1
    BY <1>1, <1>3 DEF TakePosition, Start
  <2>2. \A l \in Waiting : row[l].position \in Nat /\ row[l].position < nextPosition
    BY <1>1 DEF LineOK, WaitersOrdered, Waiting, Row
  <2>3. \A q \in Proc : At(q, "insert") => proc[q].pos \in Nat /\ proc[q].pos < nextPosition
    BY <1>1 DEF LineOK, ArrivalsOrdered, Local
  <2>4. AheadWritten' /\ NoOvertaking'
    BY <1>3 DEF LineOK, AheadWritten, NoOvertaking, Occupying
  <2>5. VouchedClear'
    BY <1>3, <2>1 DEF LineOK, VouchedClear, Vouched, ClearAhead, At
  <2>6. WaitersOrdered'
    BY <1>1, <1>3, <2>1, <2>2 DEF LineOK, WaitersOrdered, Waiting
  <2>7. ArrivalsOrdered'
    <3> SUFFICES ASSUME NEW q \in Proc, proc'[q].pc = "insert"
                 PROVE  /\ proc'[q].pos < nextPosition'
                        /\ \A k \in proc'[q].ahead : row[k].status # "none"
                        /\ \A k \in proc'[q].ahead \cap Waiting : row[k].position < proc'[q].pos
      BY <1>3 DEF ArrivalsOrdered, Waiting, At
    <3>1. CASE q = p
      BY <1>1, <2>1, <2>2, <3>1 DEF Waiting
    <3>2. CASE q # p
      <4>1. proc'[q] = proc[q]
        BY <2>1, <3>2
      <4> QED
        BY <1>1, <2>1, <2>3, <4>1 DEF LineOK, ArrivalsOrdered, At
    <3> QED
      BY <3>1, <3>2
  <2>8. PositionsDistinct'
    BY <1>1, <1>3, <2>1, <2>2, <2>3 DEF LineOK, PositionsDistinct, Waiting, At
  <2> QED
    BY <2>4, <2>5, <2>6, <2>7, <2>8 DEF LineOK
<1> QED
  BY <1>2, <1>3 DEF Reserve, Mine

(* A row is inserted under an id nobody has named, behind the leases its    *)
(* process counted when it took its position.                               *)
LEMMA InsertKeepsLine ==
    ASSUME Typed, LineOK, NEW p \in Proc, Insert(p)
    PROVE  LineOK'
<1>1. /\ proc \in [Proc -> Local] /\ row \in [Lease -> Row] /\ nextPosition \in Nat
      /\ proc[p].pc = "insert" /\ nextPosition' = nextPosition
  BY DEF Typed, TypeOK, Insert, At
<1>2. PICK l \in Unused :
          /\ row' = [row EXCEPT ![l] =
                        [status |-> "waiting", holder |-> p, pool |-> proc[p].want.pool,
                         cost |-> proc[p].want.price, covered |-> Zero, drawn |-> Zero,
                         parent |-> NoLease, position |-> proc[p].pos,
                         ahead |-> proc[p].ahead]]
          /\ proc' = [proc EXCEPT ![p] = [Start EXCEPT !.pc = "head", !.mine = l,
                                                       !.after = "answer"]]
  BY DEF Insert
<1>3. l \in Lease /\ row[l].status = "none"
  BY DEF Unused
<1>4. /\ row'[l].status = "waiting" /\ row'[l].position = proc[p].pos
      /\ row'[l].ahead = proc[p].ahead
      /\ \A k \in Lease \ {l} : row'[k] = row[k]
  BY <1>1, <1>2, <1>3
<1>5. proc'[p].pc = "head" /\ \A q \in Proc \ {p} : proc'[q] = proc[q]
  BY <1>1, <1>2 DEF Start
<1>6. /\ \A k \in Lease : row[k].ahead \in SUBSET Lease /\ l \notin row[k].ahead
      /\ \A q \in Proc : proc[q].ahead \in SUBSET Lease
      /\ \A q \in Proc : proc[q].pc = "insert" => l \notin proc[q].ahead
  BY <1>1, <1>3 DEF LineOK, AheadWritten, ArrivalsOrdered, At, Row, Local
<1>7. \A k \in Lease : Vouched(k)' => Vouched(k)
  BY <1>5 DEF Vouched, At
<1>8. AheadWritten'
  BY <1>1, <1>3, <1>4, <1>6 DEF LineOK, AheadWritten, ArrivalsOrdered, At
<1>9. NoOvertaking'
  BY <1>1, <1>3, <1>4, <1>6 DEF LineOK, NoOvertaking, Occupying, OCCUPYING
<1>10. VouchedClear'
  <2> SUFFICES ASSUME NEW k \in Lease, Vouched(k)'
               PROVE  row'[k].status # "none" /\ \A j \in row'[k].ahead : row'[j].status # "waiting"
    BY DEF VouchedClear, ClearAhead
  <2>1. row[k].status # "none" /\ \A j \in row[k].ahead : row[j].status # "waiting"
    BY <1>7 DEF LineOK, VouchedClear, ClearAhead
  <2> QED
    BY <1>3, <1>4, <1>6, <2>1
<1>11. WaitersOrdered'
  <2> SUFFICES ASSUME NEW k \in Lease, row'[k].status = "waiting"
               PROVE  /\ row'[k].position < nextPosition
                      /\ \A j \in row'[k].ahead : j \in Lease /\ row'[j].status = "waiting" =>
                              row'[j].position < row'[k].position
    BY <1>1 DEF WaitersOrdered, Waiting
  <2>1. CASE k = l
    BY <1>1, <1>4, <1>6, <2>1 DEF LineOK, ArrivalsOrdered, Waiting, At
  <2>2. CASE k # l
    BY <1>4, <1>6, <2>2 DEF LineOK, WaitersOrdered, Waiting
  <2> QED
    BY <2>1, <2>2
<1>12. ArrivalsOrdered'
  <2> SUFFICES ASSUME NEW q \in Proc, proc'[q].pc = "insert"
               PROVE  /\ proc'[q].pos < nextPosition
                      /\ \A k \in proc'[q].ahead : row'[k].status # "none"
                      /\ \A k \in proc'[q].ahead : k \in Lease /\ row'[k].status = "waiting" =>
                              row'[k].position < proc'[q].pos
    BY <1>1 DEF ArrivalsOrdered, Waiting, At
  <2>1. q # p /\ proc'[q] = proc[q] /\ l \notin proc[q].ahead /\ proc[q].ahead \in SUBSET Lease
    BY <1>5, <1>6
  <2> QED
    BY <1>4, <2>1 DEF LineOK, ArrivalsOrdered, Waiting, At
<1>13. PositionsDistinct'
  <2>1. Waiting' = Waiting \cup {l}
    BY <1>3, <1>4 DEF Waiting
  <2>2. l \notin Waiting /\ \A k \in Waiting : row'[k] = row[k]
    BY <1>3, <1>4 DEF Waiting
  <2>3. \A k \in Waiting : row[k].position # proc[p].pos
    BY <1>1 DEF LineOK, PositionsDistinct, At
  <2>4. \A q \in Proc : proc'[q].pc = "insert" =>
            q # p /\ proc[q].pc = "insert" /\ proc'[q].pos = proc[q].pos /\ proc[q].pos # proc[p].pos
    BY <1>1, <1>5 DEF LineOK, PositionsDistinct, At
  <2>5. \A j, k \in Waiting' : j # k => row'[j].position # row'[k].position
    BY <1>4, <2>1, <2>2, <2>3 DEF LineOK, PositionsDistinct
  <2>6. \A q, r \in Proc : proc'[q].pc = "insert" /\ proc'[r].pc = "insert" /\ q # r =>
            proc'[q].pos # proc'[r].pos
    BY <2>4 DEF LineOK, PositionsDistinct, At
  <2>7. \A q \in Proc, k \in Waiting' : proc'[q].pc = "insert" => proc'[q].pos # row'[k].position
    BY <1>4, <2>1, <2>2, <2>4 DEF LineOK, PositionsDistinct, At
  <2> QED
    BY <2>5, <2>6, <2>7 DEF PositionsDistinct, At
<1> QED
  BY <1>8, <1>9, <1>10, <1>11, <1>12, <1>13 DEF LineOK

(* A child is granted without having been in the line.                      *)
LEMMA ChildKeepsLine ==
    ASSUME Typed, LineOK, NEW p \in Proc, NEW parent \in Lease, NEW c \in Nested,
           NEW draw \in BOOLEAN, ReserveChild(p, parent, c, draw)
    PROVE  LineOK'
<1> DEFINE cover == Cover(parent, c.price, draw)
<1>1. /\ proc \in [Proc -> Local] /\ row \in [Lease -> Row] /\ nextPosition' = nextPosition
      /\ proc[p].pc = "idle" /\ row[parent].status \in OCCUPYING
  BY DEF Typed, TypeOK, ReserveChild, At, Occupying
<1>2. PICK l \in Unused :
          /\ row' = [row EXCEPT
                       ![parent].drawn = Plus(@, cover),
                       ![l] = [status |-> "held", holder |-> p, pool |-> c.pool,
                               cost |-> c.price, covered |-> cover, drawn |-> Zero,
                               parent |-> parent, position |-> 0, ahead |-> {}]]
          /\ proc' = [proc EXCEPT ![p].pc = "holding", ![p].mine = l]
  BY DEF ReserveChild
<1>3. l \in Lease /\ row[l].status = "none" /\ l # parent
  BY <1>1 DEF Unused, OCCUPYING
<1>4. /\ row'[l].status = "held" /\ row'[l].ahead = {}
      /\ \A k \in Lease \ {l} : /\ row'[k].status = row[k].status
                               /\ row'[k].ahead = row[k].ahead
                               /\ row'[k].position = row[k].position
  <2> HIDE DEF cover
  <2> QED
    BY <1>1, <1>2, <1>3 DEF Row
<1>5. proc'[p].pc = "holding" /\ \A q \in Proc \ {p} : proc'[q] = proc[q]
  BY <1>1, <1>2 DEF Local
<1>6. /\ \A k \in Lease : row[k].ahead \in SUBSET Lease /\ l \notin row[k].ahead
      /\ \A q \in Proc : proc[q].ahead \in SUBSET Lease
  BY <1>1, <1>3 DEF LineOK, AheadWritten, Row, Local
<1>7. \A q \in Proc : proc'[q].pc = "insert" =>
          proc[q].pc = "insert" /\ proc'[q] = proc[q] /\ l \notin proc[q].ahead
  BY <1>3, <1>5 DEF LineOK, ArrivalsOrdered, At
<1>8. \A k \in Lease : Vouched(k)' => Vouched(k) /\ k # l
  BY <1>3, <1>5 DEF Vouched, At, LineOK, VouchedClear
<1>9. Waiting' = Waiting /\ \A k \in Waiting : row'[k].position = row[k].position
                                              /\ row'[k].ahead = row[k].ahead
  BY <1>3, <1>4 DEF Waiting
<1>10. AheadWritten'
  BY <1>3, <1>4, <1>6 DEF LineOK, AheadWritten
<1>11. NoOvertaking'
  BY <1>3, <1>4, <1>6 DEF LineOK, NoOvertaking, Occupying
<1>12. VouchedClear'
  <2> SUFFICES ASSUME NEW k \in Lease, Vouched(k)'
               PROVE  row'[k].status # "none" /\ \A j \in row'[k].ahead : row'[j].status # "waiting"
    BY DEF VouchedClear, ClearAhead
  <2>1. k # l /\ row[k].status # "none" /\ \A j \in row[k].ahead : row[j].status # "waiting"
    BY <1>8 DEF LineOK, VouchedClear, ClearAhead
  <2> QED
    BY <1>3, <1>4, <1>6, <2>1
<1>13. WaitersOrdered'
  BY <1>1, <1>9, <1>6 DEF LineOK, WaitersOrdered
<1>14. ArrivalsOrdered'
  <2> SUFFICES ASSUME NEW q \in Proc, proc'[q].pc = "insert"
               PROVE  /\ proc'[q].pos < nextPosition
                      /\ \A k \in proc'[q].ahead : row'[k].status # "none"
                      /\ \A k \in proc'[q].ahead \cap Waiting : row'[k].position < proc'[q].pos
    BY <1>1, <1>9 DEF ArrivalsOrdered, At
  <2> QED
    BY <1>4, <1>6, <1>7, <1>9 DEF LineOK, ArrivalsOrdered, At
<1>15. PositionsDistinct'
  BY <1>7, <1>9 DEF LineOK, PositionsDistinct, At
<1> QED
  BY <1>10, <1>11, <1>12, <1>13, <1>14, <1>15 DEF LineOK

(* The empty line is in order.                                              *)
LEMMA InitLine == Init => LineOK
BY DEF Init, LineOK, AheadWritten, NoOvertaking, VouchedClear, Vouched, WaitersOrdered,
       ArrivalsOrdered, PositionsDistinct, Waiting, Occupying, OCCUPYING, NoRow, Start, At

(* Every step keeps the line in order.                                      *)
LEMMA NextLine == Typed /\ LineOK /\ [Next]_vars => LineOK'
<1> SUFFICES ASSUME Typed, LineOK, [Next]_vars PROVE LineOK'
  OBVIOUS
<1>1. CASE UNCHANGED vars
  BY <1>1 DEF vars, LineOK, AheadWritten, NoOvertaking, VouchedClear, Vouched, ClearAhead,
              WaitersOrdered, ArrivalsOrdered, PositionsDistinct, Waiting, Occupying, At
<1>2. ASSUME NEW p \in Proc, Step(p) PROVE LineOK'
  BY <1>2, InsertKeepsLine, DrainKeepsLine, ReleaseKeepsLine, HolderKeepsLine, SweepKeepsLine
     DEF Step
<1>3. ASSUME NEW p \in Proc, Choice(p) PROVE LineOK'
  BY <1>3, ReserveKeepsLine, ChildKeepsLine, HolderKeepsLine, SweepKeepsLine DEF Choice
<1> QED
  BY <1>1, <1>2, <1>3 DEF Next

(* The inductive invariant: types, local names, and the order of the line.  *)
THEOREM LedgerInvariant == Spec => []LedgerInv
<1>1. Init => Typed /\ LineOK
  BY InitTyped, InitLine
<1>2. Typed /\ LineOK /\ [Next]_vars => (Typed /\ LineOK)'
  BY NextTyped, NextLine
<1>3. Typed /\ LineOK => LedgerInv
  BY DEF Typed, LedgerInv
<1> QED
  BY <1>1, <1>2, <1>3, PTL DEF Spec

(* Strict head-of-line order, drain_waiters' promise: with any number of    *)
(* processes booking, claiming, releasing, sweeping, renewing and dying in  *)
(* any interleaving, nothing taken from the line is granted while a lease   *)
(* that was ahead of it still waits.                                        *)
THEOREM NothingOvertakes == Spec => []NoOvertaking
<1>1. LedgerInv => NoOvertaking
  BY DEF LedgerInv, LineOK
<1> QED
  BY <1>1, LedgerInvariant, PTL

(* _take_position's promise: no two leases in line, or on their way into    *)
(* it, ever share a position.                                               *)
THEOREM LineIsTotal == Spec => []PositionsDistinct
<1>1. LedgerInv => PositionsDistinct
  BY DEF LedgerInv, LineOK
<1> QED
  BY <1>1, LedgerInvariant, PTL

-----------------------------------------------------------------------------
(* Leaving the line.                                                        *)

(* What one step may do to the status of a lease.                           *)
LeavesOnce(l) ==
    /\ row'[l].status = "waiting" => row[l].status \in {"none", "waiting"}
    /\ row[l].status = "released" /\ row'[l].status = "held" =>
           \E p \in Proc : At(p, "renew") /\ proc[p].mine = l

(* No row is inserted but under an unused id, and only a heartbeat writes   *)
(* "held" without comparing the status it read.                             *)
LEMMA StepLeavesOnce ==
    ASSUME Typed, NEW p \in Proc, Step(p) \/ Choice(p), NEW l \in Lease
    PROVE  LeavesOnce(l)
<1>1. proc \in [Proc -> Local] /\ row \in [Lease -> Row]
  BY DEF Typed, TypeOK
<1>2. CASE UNCHANGED row
  BY <1>2 DEF LeavesOnce
<1>3. CASE Insert(p)
  BY <1>1, <1>3 DEF Insert, Unused, LeavesOnce
<1>4. CASE Claim(p)
  <2>1. proc[p].head \in Lease
    BY <1>4 DEF Claim, At, Typed, LocalOK
  <2> QED
    BY <1>1, <1>2, <1>4, <2>1 DEF Claim, LeavesOnce, Row
<1>5. CASE Settle(p)
  <2>1. Top(p).lease \in Lease
    BY <1>5, TopTyped DEF Settle, Releasing, Frame
  <2>2. row' = ReturnCover([row EXCEPT ![Top(p).lease].status = "released"], row[Top(p).lease])
    BY <1>5 DEF Settle
  <2>3. row'[l].status \in {row[l].status, "released"}
    BY <1>1, <2>1, <2>2, SettledRows
  <2> QED
    BY <2>3 DEF LeavesOnce
<1>6. CASE Cancel(p)
  <2>1. Top(p).lease \in Lease
    BY <1>6, TopTyped DEF Cancel, Releasing, Frame
  <2> QED
    BY <1>1, <1>6, <2>1 DEF Cancel, LeavesOnce, Row
<1>7. CASE Renew(p)
  <2>1. proc[p].mine \in Lease
    BY <1>7 DEF Renew, At, Typed, LocalOK
  <2> QED
    BY <1>1, <1>2, <1>7, <2>1 DEF Renew, Ledger, LeavesOnce, Row
<1>8. CASE Probe(p)
  <2>1. proc[p].head \in Lease
    BY <1>8 DEF Probe, At, Typed, LocalOK
  <2> QED
    BY <1>1, <1>8, <2>1 DEF Probe, LeavesOnce, Row
<1>9. CASE Repair(p)
  <2>1. row'[l].status = row[l].status
    BY <1>1, <1>9 DEF Repair, Row
  <2> QED
    BY <2>1 DEF LeavesOnce
<1>10. ASSUME NEW parent \in Lease, NEW c \in Nested, NEW draw \in BOOLEAN,
              ReserveChild(p, parent, c, draw)
       PROVE  LeavesOnce(l)
  <2> DEFINE cover == Cover(parent, c.price, draw)
  <2>1. PICK new \in Unused :
            row' = [row EXCEPT
                       ![parent].drawn = Plus(@, cover),
                       ![new] = [status |-> "held", holder |-> p, pool |-> c.pool,
                               cost |-> c.price, covered |-> cover, drawn |-> Zero,
                               parent |-> parent, position |-> 0, ahead |-> {}]]
    BY <1>10 DEF ReserveChild
  <2> HIDE DEF cover
  <2>2. row'[new].status = "held" /\ \A k \in Lease \ {new} : row'[k].status = row[k].status
    BY <1>1, <2>1 DEF Row, Unused
  <2> QED
    BY <2>2 DEF LeavesOnce, Unused
<1>11. CASE Step(p)
  BY <1>2, <1>3, <1>4, <1>5, <1>6, <1>7, <1>8, <1>9, <1>11
     DEF Step, Answer, HeadRead, Book, Refund, Look, ReleaseKid, Release, Poll, Reclaim,
         Judge, DropWaiter, Ledger
<1>12. CASE Choice(p)
  BY <1>2, <1>10, <1>12 DEF Choice, Reserve, ForceRelease, GiveUp, Sweep, Crash, Ledger
<1> QED
  BY <1>11, <1>12

(* _claim_promotion's promise, for any number of processes: what left the   *)
(* line never returns to it, and a cancelled waiter is not granted by a     *)
(* drain that had read it as the head.                                      *)
THEOREM LeavingIsFinal == Spec => LineIsLeftOnce
<1>1. Typed /\ [Next]_vars =>
          [\A l \in Lease :
             /\ row'[l].status = "waiting" => row[l].status \in {"none", "waiting"}
             /\ row[l].status = "released" /\ row'[l].status = "held" =>
                    \E p \in Proc : At(p, "renew") /\ proc[p].mine = l]_vars
  BY StepLeavesOnce DEF Next, LeavesOnce
<1>2. Init => Typed
  BY InitTyped
<1>3. Typed /\ [Next]_vars => Typed'
  BY NextTyped
<1> QED
  BY <1>1, <1>2, <1>3, PTL DEF Spec, LineIsLeftOnce

=============================================================================
