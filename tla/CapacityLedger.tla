--------------------------- MODULE CapacityLedger ---------------------------
(***************************************************************************)
(* The host and docker capacity ledger of the control plane:               *)
(* services/docker_leases.py, docker_ledger.py, capacity_children.py, the   *)
(* polling loops of capacity_run.py and capacity_line.py, and the ledger    *)
(* half of docker_reaper.py.                                                *)
(*                                                                         *)
(* Several processes (server threads, the in-process CLI, pre-push hooks)   *)
(* share one SQLite file.  Every action below is one committed transaction  *)
(* or one read: the driver opens a transaction at the first write, never at *)
(* a SELECT, so what a process read may be stale by the time it writes.     *)
(*                                                                         *)
(* `row' is the table docker_leases, `held' and `ceiling' the running       *)
(* totals of docker_capacity_pool, `proc' the program counter and the local *)
(* variables of each process.                                               *)
(***************************************************************************)
EXTENDS Naturals, FiniteSets, Sequences

CONSTANTS
    Proc,          \* processes and threads with a session on the ledger
    Role,          \* what each of them may do, see Roles
    Lease,         \* ids of docker_leases rows
    NoLease,       \* "no row": not a lease id
    Resource,      \* the priced resources: cpus, memory
    MaxCost,       \* a bound on every price, in units of a resource
    Claims,        \* the (pool, price) pairs a process may ask for
    Nested,        \* the (pool, price) pairs a child may ask for
    Ceilings,      \* what a measurement of the machine may return
    Lapses,        \* whether a lease of a live process may lapse unvouched
    Contention,    \* whether the claim-contention budget may run out
    ParentWaits    \* whether a holder outlives the processes nested in it

Pool == {"docker", "host"}

Dim == Resource \cup {"slots"}

Vector == [Dim -> 0..MaxCost]

(* reserve: ask for a lease; nest: ask for a child of somebody's lease;     *)
(* sweep: run the reap sweep (the reconcile timer, a waiting CLI); reclaim: *)
(* end the leases of dead processes on every poll (a gate, a landing);      *)
(* operate: force-release any lease; giveup: leave the line; die: be killed.*)
Roles == {"reserve", "nest", "sweep", "reclaim", "operate", "giveup", "die"}

Price == [pool : Pool, price : Vector]

ASSUME LedgerAssumption ==
    /\ Proc # {}
    /\ Role \in [Proc -> SUBSET Roles]
    /\ IsFiniteSet(Proc) /\ IsFiniteSet(Lease)
    /\ NoLease \notin Lease /\ NoLease \notin Claims
    /\ "slots" \notin Resource
    /\ MaxCost \in Nat
    /\ Claims \subseteq Price
    /\ Nested \subseteq {c \in Price : c.price["slots"] = 0}
    /\ Ceilings \subseteq [Pool -> [Dim -> Nat]]
    /\ {Lapses, Contention, ParentWaits} \subseteq BOOLEAN

VARIABLES row, held, ceiling, nextPosition, proc

vars == <<row, held, ceiling, nextPosition, proc>>

-----------------------------------------------------------------------------
(* docker_ledger.py: what a lease is, and which pools it is charged to.     *)

Status == {"none", "waiting", "held", "orphaned", "released"}

OCCUPYING == {"held", "orphaned"}

CHARGED_POOLS == [docker |-> {"docker", "host"}, host |-> {"host"}]

Zero == [d \in Dim |-> 0]

(* A row: `ahead' is history, the leases in line when the position of this  *)
(* one was handed out; the reservation reports its size.                    *)
Row == [status : Status, holder : Proc, pool : Pool, cost : Vector,
        covered : Vector, drawn : [Dim -> Nat], parent : Lease \cup {NoLease},
        position : Nat, ahead : SUBSET Lease]

(* What a lease is charged against each pool: its price less the part its   *)
(* parent's grant covered.                                                  *)
booked(r) == [d \in Dim |-> r.cost[d] - r.covered[d]]

Plus(f, g) == [d \in Dim |-> f[d] + g[d]]

(* Mutant: the subtraction is not clamped.                                  *)
Minus_Unclamped(f, g) == [d \in Dim |-> f[d] - g[d]]

(* Subtraction clamped at zero, SQLite's MAX(x - y, 0).                     *)
Minus(f, g) == [d \in Dim |-> IF f[d] >= g[d] THEN f[d] - g[d] ELSE 0]

Waiting   == {l \in Lease : row[l].status = "waiting"}
Occupying == {l \in Lease : row[l].status \in OCCUPYING}
Unused    == {l \in Lease : row[l].status = "none"}

Children(l) == {k \in Occupying : row[k].parent = l}

ChargedTo(q) == {l \in Occupying : q \in CHARGED_POOLS[row[l].pool]}

(* The ledger's own sums, as sets of units so that they can be counted.     *)
Units(S, d) == {u \in S \X (1..MaxCost) : u[2] <= booked(row[u[1]])[d]}

CoverUnits(S, d) == {u \in S \X (1..MaxCost) : u[2] <= row[u[1]].covered[d]}

Load(q, d) == Cardinality(Units(ChargedTo(q), d))

(* Mutant: admission looks at what is held and not at what is asked.        *)
Fits_Before(q, b) == \A d \in Dim : held[q][d] <= ceiling[q][d]

(* claim_pool_capacity: every dimension of one pool at once.                *)
Fits(q, b) == \A d \in Dim : held[q][d] + b[d] <= ceiling[q][d]

Charge(pools, b) == [q \in Pool |-> IF q \in pools THEN Plus(held[q], b) ELSE held[q]]

(* Mutant: a child hands back its whole price, the covered share included.  *)
Return_Price(r) == [q \in Pool |-> IF q \in CHARGED_POOLS[r.pool]
                                   THEN Minus(held[q], r.cost) ELSE held[q]]

(* _return_capacity: the booking back to every pool it was charged to.      *)
Return(r) == [q \in Pool |-> IF q \in CHARGED_POOLS[r.pool]
                             THEN Minus(held[q], booked(r)) ELSE held[q]]

(* ceiling_refusal: what could never be granted is refused, not queued.     *)
Grantable(pool, price) ==
    \A q \in CHARGED_POOLS[pool] :
        /\ \A d \in Resource : price[d] <= ceiling[q][d]
        /\ ceiling[q]["slots"] >= 1

-----------------------------------------------------------------------------
(* The local state of a process.  `stack' is the recursion of               *)
(* release_lease, innermost call first, and `resume' where it returns to;   *)
(* `after' is where a drain returns to; `todo' the rows a sweep has read    *)
(* and not yet judged; `mine' the lease its reservation names.              *)

PC == {"idle", "insert", "head", "book", "claim", "refund", "answer",
       "queued", "holding", "renew", "reclaim", "judge", "probe", "drop",
       "repair", "unwind", "dead"}

Frame == [lease : Lease, step : {"look", "settle", "cancel"}, drain : BOOLEAN,
          kids : SUBSET Lease]

Local == [pc : PC, want : Price \cup {NoLease}, pos : Nat, ahead : SUBSET Lease,
          head : Lease \cup {NoLease}, mine : Lease \cup {NoLease},
          stack : Seq(Frame), resume : PC, after : PC, todo : SUBSET Lease]

Start == [pc |-> "idle", want |-> NoLease, pos |-> 0, ahead |-> {},
          head |-> NoLease, mine |-> NoLease, stack |-> <<>>,
          resume |-> "idle", after |-> "idle", todo |-> {}]

NoRow == [status |-> "none", holder |-> CHOOSE p \in Proc : TRUE, pool |-> "host",
          cost |-> Zero, covered |-> Zero, drawn |-> Zero, parent |-> NoLease,
          position |-> 0, ahead |-> {}]

Init ==
    /\ row = [l \in Lease |-> NoRow]
    /\ held = [q \in Pool |-> Zero]
    /\ ceiling \in Ceilings
    /\ nextPosition = 1
    /\ proc = [p \in Proc |-> Start]

Ledger == <<row, held, ceiling, nextPosition>>

Dead(p) == proc[p].pc = "dead"

HolderGone(l) == Dead(row[l].holder)

At(p, label) == proc[p].pc = label

(* A process at rest remembers no more than the lease it names.             *)
Goto(p, label) ==
    proc' = [proc EXCEPT ![p] =
        CASE label = "idle" -> Start
          [] label \in {"queued", "holding"} -> [Start EXCEPT !.pc = label, !.mine = proc[p].mine]
          [] OTHER -> [@ EXCEPT !.pc = label]]

(* Start a drain that returns to `to'.                                      *)
Drain(p, to) ==
    proc' = [proc EXCEPT ![p].pc = "head", ![p].after = to, ![p].stack = <<>>]

(* Run release_lease(l) with the given drain flag, then continue at `to'.   *)
Invocation(l, drain) == [lease |-> l, step |-> "look", drain |-> drain, kids |-> {}]

Call(p, l, drain, to) ==
    proc' = [proc EXCEPT ![p].pc = "unwind", ![p].resume = to,
                         ![p].todo = @ \ {l}, ![p].stack = <<Invocation(l, drain)>>]

-----------------------------------------------------------------------------
(* reserve: refuse, find the lease this holder already has, or take a place *)
(* in line; then insert the waiting row, drain the line and read the answer. *)
(* Nobody else writes rows for this holder, so the lookups and the place in *)
(* line are one step.                                                       *)

Mine(p, pool, statuses) ==
    {l \in Lease : /\ row[l].holder = p
                   /\ row[l].pool = pool
                   /\ row[l].parent = NoLease
                   /\ row[l].status \in statuses}

(* _take_position: one UPDATE ... RETURNING.                                *)
TakePosition(p, c) ==
    /\ nextPosition' = nextPosition + 1
    /\ proc' = [proc EXCEPT ![p] = [Start EXCEPT !.pc = "insert", !.want = c,
                                       !.pos = nextPosition, !.ahead = Waiting]]

(* The bound on the rows ever written: every reservation under way has one. *)
RowLeft ==
    Cardinality(Unused) > Cardinality({p \in Proc : At(p, "insert")})

Reserve(p, c) ==
    /\ "reserve" \in Role[p]
    /\ RowLeft
    /\ proc[p].pc \in {"idle", "queued"}
    /\ Grantable(c.pool, c.price)
    /\ LET pending  == Mine(p, c.pool, {"waiting"})
           existing == Mine(p, c.pool, OCCUPYING)
       IN  \/ /\ \E l \in pending :
                    proc' = [proc EXCEPT ![p].pc = "queued", ![p].mine = l]
              /\ UNCHANGED nextPosition
           \/ /\ pending = {}
              /\ \E l \in existing :
                    proc' = [proc EXCEPT ![p].pc = "holding", ![p].mine = l]
              /\ UNCHANGED nextPosition
           \/ /\ pending = {} /\ existing = {}
              /\ TakePosition(p, c)
    /\ UNCHANGED <<row, held, ceiling>>

Insert(p) ==
    /\ At(p, "insert")
    /\ \E l \in Unused :
          /\ row' = [row EXCEPT ![l] =
                        [status |-> "waiting", holder |-> p, pool |-> proc[p].want.pool,
                         cost |-> proc[p].want.price, covered |-> Zero, drawn |-> Zero,
                         parent |-> NoLease, position |-> proc[p].pos,
                         ahead |-> proc[p].ahead]]
          /\ proc' = [proc EXCEPT ![p] = [Start EXCEPT !.pc = "head", !.mine = l,
                                                       !.after = "answer"]]
    /\ UNCHANGED <<held, ceiling, nextPosition>>

Answer(p) ==
    /\ At(p, "answer")
    /\ Goto(p, IF row[proc[p].mine].status = "held" THEN "holding" ELSE "queued")
    /\ UNCHANGED Ledger

-----------------------------------------------------------------------------
(* drain_waiters: re-read the head, book its price, claim its row, or hand  *)
(* the booking back when a peer claimed it first.                           *)

(* Mutant: the line is read without an order.                               *)
IsHead_Any(l) == l \in Waiting

IsHead(l) ==
    /\ l \in Waiting
    /\ \A k \in Waiting : row[l].position <= row[k].position

(* The drain is over: nobody waits, the head does not fit, or the booking   *)
(* lost the pool's revision race for the whole contention budget.          *)
StopDrain(p) == Goto(p, proc[p].after)

HeadRead(p) ==
    /\ At(p, "head")
    /\ \/ \E l \in Lease :
             /\ IsHead(l)
             /\ proc' = [proc EXCEPT ![p].pc = "book", ![p].head = l]
       \/ /\ Waiting = {}
          /\ StopDrain(p)
    /\ UNCHANGED Ledger

BookingFits(l) == \A q \in CHARGED_POOLS[row[l].pool] : Fits(q, row[l].cost)

Busy(p) == proc[p].pc \notin {"idle", "queued", "holding", "dead"}

Book(p) ==
    /\ At(p, "book")
    /\ LET l == proc[p].head
       IN  \/ /\ BookingFits(l)
              /\ held' = Charge(CHARGED_POOLS[row[l].pool], row[l].cost)
              /\ Goto(p, "claim")
           \/ /\ ~BookingFits(l)
              /\ StopDrain(p)
              /\ UNCHANGED held
           \/ /\ Contention
              /\ \E other \in Proc \ {p} : Busy(other)
              /\ StopDrain(p)
              /\ UNCHANGED held
    /\ UNCHANGED <<row, ceiling, nextPosition>>

(* Mutant: the promotion does not compare the status it was read with.      *)
Claim_Blind(p) ==
    /\ At(p, "claim")
    /\ row' = [row EXCEPT ![proc[p].head].status = "held", ![proc[p].head].position = 0]
    /\ proc' = [proc EXCEPT ![p].pc = "head", ![p].head = NoLease]
    /\ UNCHANGED <<held, ceiling, nextPosition>>

Claim(p) ==
    /\ At(p, "claim")
    /\ LET l == proc[p].head
       IN  \/ /\ row[l].status = "waiting"
              /\ row' = [row EXCEPT ![l].status = "held", ![l].position = 0]
              /\ UNCHANGED held
              /\ proc' = [proc EXCEPT ![p].pc = "head", ![p].head = NoLease]
           \/ /\ row[l].status # "waiting"
              /\ UNCHANGED <<row, held>>
              /\ Goto(p, "refund")
    /\ UNCHANGED <<ceiling, nextPosition>>

(* Mutant: the drain walks the line it read first and stops at its end.     *)
Refund_Walk(p) ==
    /\ At(p, "refund")
    /\ held' = Return(row[proc[p].head])
    /\ StopDrain(p)
    /\ UNCHANGED <<row, ceiling, nextPosition>>

(* The lost claim has committed on its own before the refund is written.    *)
Refund(p) ==
    /\ At(p, "refund")
    /\ held' = Return(row[proc[p].head])
    /\ proc' = [proc EXCEPT ![p].pc = "head", ![p].head = NoLease]
    /\ UNCHANGED <<row, ceiling, nextPosition>>

-----------------------------------------------------------------------------
(* release_lease: read the row, end the children read with it one by one,   *)
(* then write the row and the totals in one transaction that looks at       *)
(* neither again.                                                           *)

Top(p) == Head(proc[p].stack)

Releasing(p, step) == At(p, "unwind") /\ Top(p).step = step

Replace(p, frame) == proc' = [proc EXCEPT ![p].stack = <<frame>> \o Tail(@)]

(* The innermost call returns, to its caller or to where the first began.   *)
Pop(p) ==
    IF Tail(proc[p].stack) = <<>> /\ proc[p].resume = "idle" THEN Goto(p, "idle")
    ELSE proc' = [proc EXCEPT ![p].stack = Tail(@),
                              ![p].pc = IF Tail(proc[p].stack) = <<>> THEN proc[p].resume ELSE @]

(* Mutant: the children are left to the sweep.                              *)
Look_NoKids(p) ==
    /\ Releasing(p, "look")
    /\ LET l == Top(p).lease
       IN  \/ l \in Occupying /\ Replace(p, [Top(p) EXCEPT !.step = "settle"])
           \/ l \in Waiting /\ Replace(p, [Top(p) EXCEPT !.step = "cancel"])
           \/ l \notin Occupying \cup Waiting /\ Pop(p)
    /\ UNCHANGED Ledger

Look(p) ==
    /\ Releasing(p, "look")
    /\ LET l == Top(p).lease
       IN  \/ /\ l \in Occupying
              /\ Replace(p, [Top(p) EXCEPT !.step = "settle", !.kids = Children(l)])
           \/ /\ l \in Waiting
              /\ Replace(p, [Top(p) EXCEPT !.step = "cancel"])
           \/ /\ l \notin Occupying \cup Waiting
              /\ Pop(p)
    /\ UNCHANGED Ledger

ReleaseKid(p) ==
    /\ Releasing(p, "settle")
    /\ \E k \in Top(p).kids :
          proc' = [proc EXCEPT ![p].stack =
                      <<Invocation(k, FALSE), [Top(p) EXCEPT !.kids = @ \ {k}]>> \o Tail(@)]
    /\ UNCHANGED Ledger

(* _return_cover: the covered share back to the parent's allotment.         *)
ReturnCover(rows, r) ==
    IF r.parent = NoLease THEN rows
    ELSE [rows EXCEPT ![r.parent].drawn = Minus(@, r.covered)]

Settle(p) ==
    /\ Releasing(p, "settle")
    /\ Top(p).kids = {}
    /\ LET l == Top(p).lease
       IN  /\ row' = ReturnCover([row EXCEPT ![l].status = "released"], row[l])
           /\ held' = Return(row[l])
    /\ IF Top(p).drain THEN Drain(p, "idle") ELSE Pop(p)
    /\ UNCHANGED <<ceiling, nextPosition>>

(* A waiter leaves the line; nothing is drained.                            *)
Cancel(p) ==
    /\ Releasing(p, "cancel")
    /\ row' = [row EXCEPT ![Top(p).lease].status = "released", ![Top(p).lease].position = 0]
    /\ Pop(p)
    /\ UNCHANGED <<held, ceiling, nextPosition>>

(* The holder's own release; giving up while holding (a signal) or in line  *)
(* (the line stalled); an operator's force-release.                         *)
Beneath(l) ==
    LET Closed(S) == \A k \in Lease : row[k].parent \in S \cup {l} => k \in S
    IN  {k \in Lease : \A S \in SUBSET Lease : Closed(S) => k \in S}

Nestlings(l) == {k \in Beneath(l) \cap Occupying : ~HolderGone(k)}

Release(p) ==
    /\ At(p, "holding")
    /\ ParentWaits => Nestlings(proc[p].mine) = {}
    /\ Call(p, proc[p].mine, TRUE, "idle")
    /\ UNCHANGED Ledger

(* renew_lease by the holder's heartbeat: it revives a lease it read as     *)
(* orphaned, by a write that does not look again.                           *)
Renew(p) ==
    \/ /\ At(p, "holding")
       /\ row[proc[p].mine].status = "orphaned"
       /\ proc' = [proc EXCEPT ![p].pc = "renew"]
       /\ UNCHANGED Ledger
    \/ /\ At(p, "renew")
       /\ row' = [row EXCEPT ![proc[p].mine].status = "held"]
       /\ proc' = [proc EXCEPT ![p].pc = "holding"]
       /\ UNCHANGED <<held, ceiling, nextPosition>>

GiveUp(p) ==
    /\ "giveup" \in Role[p]
    /\ At(p, "queued")
    /\ Call(p, proc[p].mine, TRUE, "idle")
    /\ UNCHANGED Ledger

ForceRelease(p, l) ==
    /\ "operate" \in Role[p]
    /\ At(p, "idle")
    /\ l \in Waiting \cup Occupying
    /\ Call(p, l, TRUE, "idle")
    /\ UNCHANGED Ledger

-----------------------------------------------------------------------------
(* The polling loops.  Every pass reads this waiter's own row; a pass of    *)
(* wait_while_line_moves first reclaims the leases of dead processes; every *)
(* pass drains the line.                                                    *)

DeadHeld == {l \in Occupying : HolderGone(l)}

Poll(p) ==
    /\ At(p, "queued")
    /\ LET l == proc[p].mine
       IN  \/ /\ l \in Occupying
              /\ Goto(p, "holding")
           \/ /\ l \in Waiting
              /\ \/ /\ "reclaim" \in Role[p]
                    /\ proc' = [proc EXCEPT ![p].pc = "reclaim", ![p].after = "queued",
                                            ![p].todo = DeadHeld]
                 \/ /\ "reclaim" \notin Role[p]
                    /\ Drain(p, "queued")
           \/ /\ l \notin Occupying \cup Waiting
              /\ Goto(p, "idle")
    /\ UNCHANGED Ledger

(* reclaim_dead_holders, one row at a time.                                 *)
Reclaim(p) ==
    /\ At(p, "reclaim")
    /\ \/ \E l \in proc[p].todo : Call(p, l, FALSE, "reclaim")
       \/ proc[p].todo = {} /\ Goto(p, "head")
    /\ UNCHANGED Ledger

-----------------------------------------------------------------------------
(* reserve_child: granted in one transaction that covers what the parent    *)
(* has unlent and books the excess, or refused; it never waits.             *)

(* Mutant: what siblings have already drawn is not subtracted.              *)
Cover_Gross(parent, price, draw) ==
    [d \in Dim |-> IF ~draw \/ d = "slots" THEN 0
                   ELSE IF price[d] <= row[parent].cost[d] THEN price[d] ELSE row[parent].cost[d]]

Cover(parent, price, draw) ==
    [d \in Dim |->
        LET unlent == IF row[parent].cost[d] >= row[parent].drawn[d]
                      THEN row[parent].cost[d] - row[parent].drawn[d] ELSE 0
        IN  IF ~draw \/ d = "slots" THEN 0
            ELSE IF price[d] <= unlent THEN price[d] ELSE unlent]

ReserveChild(p, parent, c, draw) ==
    /\ "nest" \in Role[p]
    /\ RowLeft
    /\ At(p, "idle")
    /\ parent \in Occupying
    /\ row[parent].holder # p
    /\ ParentWaits => At(row[parent].holder, "holding")
    /\ CHARGED_POOLS[c.pool] \subseteq CHARGED_POOLS[row[parent].pool]
    /\ Grantable(c.pool, c.price)
    /\ LET cover  == Cover(parent, c.price, draw)
           excess == Minus(c.price, cover)
       IN  /\ excess # Zero => \A q \in CHARGED_POOLS[c.pool] : Fits(q, excess)
           /\ held' = Charge(CHARGED_POOLS[c.pool], excess)
           /\ \E l \in Unused :
                 /\ row' = [row EXCEPT
                       ![parent].drawn = Plus(@, cover),
                       ![l] = [status |-> "held", holder |-> p, pool |-> c.pool,
                               cost |-> c.price, covered |-> cover, drawn |-> Zero,
                               parent |-> parent, position |-> 0, ahead |-> {}]]
                 /\ proc' = [proc EXCEPT ![p].pc = "holding", ![p].mine = l]
    /\ UNCHANGED <<ceiling, nextPosition>>

-----------------------------------------------------------------------------
(* reap_docker_leases: re-measure, judge every occupying lease read at the  *)
(* start, drop the waiters nobody polls for, recompute the totals, drain.   *)

HasDockerClaims == \E l \in Occupying \cup Waiting : row[l].pool = "docker"

Sweep(p) ==
    /\ "sweep" \in Role[p]
    /\ proc[p].pc \in {"idle", "queued"}
    /\ Occupying \cup Waiting # {}
    /\ \E c \in Ceilings :
          ceiling' = [q \in Pool |-> IF q = "host" \/ HasDockerClaims THEN c[q] ELSE ceiling[q]]
    /\ proc' = [proc EXCEPT ![p].pc = "judge", ![p].after = proc[p].pc, ![p].todo = Occupying]
    /\ UNCHANGED <<row, held, nextPosition>>

(* _judge: a dead process and a child whose parent has ended are decisive;  *)
(* otherwise a lapsed top-level lease that nothing vouches for, which ends  *)
(* unless docker says that its containers run.                              *)
Condemned(l) ==
    \/ HolderGone(l)
    \/ row[l].parent # NoLease /\ row[row[l].parent].status \notin OCCUPYING

Judge(p) ==
    /\ At(p, "judge")
    /\ \/ \E l \in proc[p].todo :
             \/ /\ l \in Occupying
                /\ Condemned(l) \/ (Lapses /\ row[l].parent = NoLease)
                /\ Call(p, l, FALSE, "judge")
             \/ /\ ~(l \in Occupying /\ Condemned(l))
                /\ proc' = [proc EXCEPT ![p].todo = @ \ {l}]
             \/ /\ Lapses
                /\ row[l].status = "held" /\ row[l].pool = "docker"
                /\ row[l].parent = NoLease /\ ~HolderGone(l)
                /\ proc' = [proc EXCEPT ![p].pc = "probe", ![p].head = l, ![p].todo = @ \ {l}]
       \/ /\ proc[p].todo = {}
          /\ proc' = [proc EXCEPT ![p].pc = "drop", ![p].todo = Waiting]
    /\ UNCHANGED Ledger

(* The containers run: the row read before the probe is marked after it.    *)
Probe(p) ==
    /\ At(p, "probe")
    /\ row' = [row EXCEPT ![proc[p].head].status = "orphaned"]
    /\ proc' = [proc EXCEPT ![p].pc = "judge", ![p].head = NoLease]
    /\ UNCHANGED <<held, ceiling, nextPosition>>

(* _drop_abandoned_waiters.                                                 *)
DropWaiter(p) ==
    /\ At(p, "drop")
    /\ \/ \E l \in proc[p].todo :
             \/ (HolderGone(l) \/ Lapses) /\ Call(p, l, FALSE, "drop")
             \/ ~HolderGone(l) /\ proc' = [proc EXCEPT ![p].todo = @ \ {l}]
       \/ proc[p].todo = {} /\ Goto(p, "repair")
    /\ UNCHANGED Ledger

(* Mutant: the sweep trusts the running totals.                             *)
Repair_Skip(p) == At(p, "repair") /\ Goto(p, "head") /\ UNCHANGED Ledger

(* repair_pool: every total from the rows, in one transaction.              *)
Repair(p) ==
    /\ At(p, "repair")
    /\ held' = [q \in Pool |-> [d \in Dim |-> Load(q, d)]]
    /\ row' = [l \in Lease |->
                  IF l \in Occupying
                  THEN [row[l] EXCEPT !.drawn =
                           [d \in Dim |-> Cardinality(CoverUnits(Children(l), d))]]
                  ELSE row[l]]
    /\ Goto(p, "head")
    /\ UNCHANGED <<ceiling, nextPosition>>

-----------------------------------------------------------------------------
(* A process is killed wherever it stands; its rows stay.                   *)
Crash(p) ==
    /\ "die" \in Role[p]
    /\ ~Dead(p)
    /\ proc' = [proc EXCEPT ![p] = [Start EXCEPT !.pc = "dead"]]
    /\ UNCHANGED Ledger

(* What a process does once it has started something.                       *)
Step(p) ==
    \/ Insert(p) \/ Answer(p)
    \/ HeadRead(p) \/ Book(p) \/ Claim(p) \/ Refund(p)
    \/ Look(p) \/ ReleaseKid(p) \/ Settle(p) \/ Cancel(p)
    \/ Renew(p) \/ Release(p) \/ Poll(p) \/ Reclaim(p)
    \/ Judge(p) \/ Probe(p) \/ DropWaiter(p) \/ Repair(p)

(* What nothing obliges it to do.                                           *)
Choice(p) ==
    \/ \E c \in Claims : Reserve(p, c)
    \/ \E parent \in Lease, c \in Nested, draw \in BOOLEAN : ReserveChild(p, parent, c, draw)
    \/ \E l \in Lease : ForceRelease(p, l)
    \/ GiveUp(p) \/ Sweep(p) \/ Crash(p)

Next == \E p \in Proc : Step(p) \/ Choice(p)

Spec == Init /\ [][Next]_vars

(* Threads run, holders finish, waiters keep polling, the reconcile timer   *)
(* keeps sweeping; nobody is obliged to ask, to give up or to die.          *)
Fairness == \A p \in Proc : WF_vars(Step(p)) /\ WF_vars(Sweep(p))

FairSpec == Spec /\ Fairness

-----------------------------------------------------------------------------
(* The rows, the totals and every process's locals keep their shapes; the   *)
(* totals are clamped at zero, never negative (_at_least_zero).             *)
TypeOK ==
    /\ row \in [Lease -> Row]
    /\ held \in [Pool -> [Dim -> Nat]]
    /\ ceiling \in [Pool -> [Dim -> Nat]]
    /\ nextPosition \in Nat \ {0}
    /\ proc \in [Proc -> Local]

(* Positions are handed out by one atomic increment: no two leases that are *)
(* in line, or about to be, share one, so the line is a total order         *)
(* (_take_position).                                                        *)
PositionsDistinct ==
    /\ \A k, l \in Waiting : k # l => row[k].position # row[l].position
    /\ \A p, q \in {r \in Proc : At(r, "insert")} : p # q => proc[p].pos # proc[q].pos
    /\ \A p \in Proc, l \in Waiting : At(p, "insert") => proc[p].pos # row[l].position

(* Strict head-of-line (drain_waiters): a lease taken from the line is      *)
(* granted only when every lease that was in line when its position was     *)
(* handed out has left the line, whoever drains and however the drains,     *)
(* sweeps, releases and crashes interleave.                                 *)
NoOvertaking ==
    \A l \in Occupying : \A k \in row[l].ahead : row[k].status # "waiting"

(* The bookings that have no row yet: a drain that has booked its head and  *)
(* neither claimed it nor handed the booking back.                          *)
InFlight(q, d) ==
    Cardinality({u \in Proc \X (1..MaxCost) :
        /\ proc[u[1]].pc \in {"claim", "refund"}
        /\ q \in CHARGED_POOLS[row[proc[u[1]].head].pool]
        /\ u[2] <= row[proc[u[1]].head].cost[d]})

NobodyKilled == \A p \in Proc : ~Dead(p)

(* While nobody was killed the running totals are exact: what the pool says *)
(* is held is what the occupying rows add up to plus the bookings still in  *)
(* flight.  What a killed drain leaves behind errs towards refusing: the    *)
(* totals never fall below that.  Admission decides by these totals alone   *)
(* (claim_pool_capacity; drain_waiters books before it claims, and refunds  *)
(* after).                                                                  *)
Exact ==
    \A q \in Pool, d \in Dim :
        /\ Load(q, d) + InFlight(q, d) <= held[q][d]
        /\ NobodyKilled => held[q][d] = Load(q, d) + InFlight(q, d)

(* Admission never runs past the ceiling: the leases that occupy a pool fit *)
(* in it, in every dimension (claim_pool_capacity, release_lease).          *)
WithinCeiling == \A q \in Pool, d \in Dim : Load(q, d) <= ceiling[q][d]

(* A parent's allotment is lent at most once: what its live children were   *)
(* covered for is what it counts as drawn, and never more than its price    *)
(* (capacity_children._cover, docker_leases._return_cover).                 *)
CoverExact ==
    \A l \in Occupying, d \in Dim :
        /\ row[l].drawn[d] = Cardinality(CoverUnits(Children(l), d))
        /\ row[l].drawn[d] <= row[l].cost[d]

(* A child never outlives the lease it runs inside (release_lease).         *)
NoOrphanChild ==
    \A l \in Occupying : row[l].parent # NoLease => row[l].parent \in Occupying

(* No free capacity beside a waiting lease with nobody left to drain: once  *)
(* every process is at rest, and none was killed on its way to a drain, the *)
(* head of the line does not fit (drain_waiters' re-read of the head on     *)
(* every pass).                                                             *)
NoStrandedHead ==
    NobodyKilled /\ (\A p \in Proc : ~Busy(p)) =>
        \A l \in Lease : IsHead(l) => ~BookingFits(l)

(* What was granted or ended never goes back into the line, and a waiter    *)
(* that was cancelled is never granted by a drain that read it before: only *)
(* a late heartbeat of its own holder makes an ended lease held again       *)
(* (_claim_promotion).                                                      *)
LineIsLeftOnce ==
    [][\A l \in Lease :
         /\ row'[l].status = "waiting" => row[l].status \in {"none", "waiting"}
         /\ row[l].status = "released" /\ row'[l].status = "held" =>
                \E p \in Proc : At(p, "renew") /\ proc[p].mine = l]_vars

(* Everybody in line is eventually granted or out of it, although a holder, *)
(* a waiter or a drain may be killed at any point: the sweep reclaims what  *)
(* the dead hold and repairs the totals they leaked.                        *)
WaitersServed == \A l \in Lease : row[l].status = "waiting" ~> row[l].status # "waiting"

=============================================================================
