------------------------------ MODULE SlotPool ------------------------------
(***************************************************************************)
(* The execution slots of the machine and the lane of waiting tickets       *)
(* behind each (services/parallel_queue.py, queue_lanes.py,                 *)
(* queue_dispatch.py, queue_admission.py, queue_repair.py,                  *)
(* slot_claim_healing.py).  A request reserves a slot before it starts its  *)
(* ticket, or waits in a lane; a lane starts its head when its slot is      *)
(* free; whoever ends an orchestration gives the slot back and starts the   *)
(* next, unless the block may be repaired in place; and the reconcile pass  *)
(* puts right what a crash or a lost race left behind.                      *)
(*                                                                         *)
(* An action is one committed write or one look at the tables; whatever     *)
(* lies between two of them may interleave.  Looks that follow each other   *)
(* with nothing in between are one action.                                  *)
(***************************************************************************)
EXTENDS Naturals, FiniteSets

CONSTANTS
    Lanes,      \* slot numbers: a lane is a slot
    Tickets,
    Orchs,      \* ids of orchestration_runs rows, in the order they are made
    Entries,    \* ids of queued_runs rows, in the order they are made
    Webs,       \* threads of the web server
    RepairCap,  \* REPAIR_ATTEMPT_CAP
    Scenarios   \* what may happen

(* start: a ticket is started (POST /orchestrate); add: it is put in a lane *)
(* on the board; block: an orchestration ends in a block that may be        *)
(* repaired; cancel: it is ended from outside; refuse: the start raises     *)
(* after its slot is bound; slow: a reservation outlives its grace; drain:  *)
(* the server stops taking work; crash: it dies; overlap: the pass begins   *)
(* while another thread is at work.                                         *)
Events == {"start", "add", "block", "cancel", "refuse", "slow", "drain", "crash",
           "overlap"}

ASSUME PoolAssumption ==
    /\ Lanes \subseteq Nat \ {0} /\ Orchs \subseteq Nat \ {0} /\ Entries \subseteq Nat \ {0}
    /\ Webs \subseteq Nat \ {0}
    /\ IsFiniteSet(Orchs)
    /\ 0 \notin Tickets /\ RepairCap \in Nat
    /\ Scenarios \subseteq [timer : BOOLEAN, pool : Nat, webs : Nat, tickets : SUBSET Tickets,
                       events : [Events -> Nat]]

VARIABLES
    slot,       \* the table agent_slots
    orch,       \* the table orchestration_runs
    entry,      \* the table queued_runs: lane entries for whole tickets
    th,         \* each thread: program counter and locals
    server,     \* up, draining, down or booting
    scene       \* whether the reconcile timer runs, the size of the pool, the web
                \* threads, the tickets asked for, and what may still happen

vars == <<slot, orch, entry, th, server, scene>>

LIVE_ORCHESTRATION_STATUSES == {"queued", "running"}

(* busy: not is_available; occ: current_orchestration_run_id, or 0; fresh:  *)
(* a slot naming nothing was claimed within RESERVATION_GRACE.              *)
Slot == [busy : BOOLEAN, occ : Orchs \cup {0}, fresh : BOOLEAN]
Free == [busy |-> FALSE, occ |-> 0, fresh |-> FALSE]
Claimed == [busy |-> TRUE, occ |-> 0, fresh |-> TRUE]
Holding(o) == [busy |-> TRUE, occ |-> o, fresh |-> FALSE]

(* over stands for the terminal statuses but blocked.                       *)
Orch == [st : {"none", "blocked", "over"} \cup LIVE_ORCHESTRATION_STATUSES,
         tkt : Tickets \cup {0}]

(* settled is STARTED: the lane is released.                                *)
Entry == [st : {"none", "queued", "active", "repairing", "settled"}, tkt : Tickets \cup {0},
          lane : Lanes \cup {0}, orch : Orchs \cup {0}, tries : 0 .. RepairCap]

(* Web threads, the thread that drives each orchestration, and the          *)
(* reconcile pass, which the boot runs too.                                 *)
drv(o) == <<"drv", o>>
web(w) == <<"web", w>>
sweep  == <<"sweep", 0>>
Thread == ({"web"} \X Webs) \cup ({"drv"} \X Orchs) \cup {sweep}

Admitting == {"find", "claim", "bind"}
Starting  == {"head", "launch", "occupy", "give_back"}

Pc == {"idle", "reserve", "start", "release", "dedupe", "insert", "take", "done",
       "hold", "settle", "free", "adopt", "drive", "leases", "repairs", "slots", "reclaim",
       "heads", "attach"} \cup Admitting \cup Starting

(* mine: the slot of a reservation, with orch what it is bound to; lane,    *)
(* entry and orch: what the call in hand is about; back: where it returns   *)
(* to; todo: what a loop has left; ghosts: which of it named nothing when   *)
(* it was read.                                                             *)
Local == [pc : Pc, tkt : Tickets \cup {0}, mine : Lanes \cup {0}, bound : Orchs \cup {0},
          lane : Lanes \cup {0}, entry : Entries \cup {0}, orch : Orchs \cup {0},
          back : {"idle", "release", "leases", "repairs", "heads"},
          todo : SUBSET (Lanes \cup Entries), ghosts : SUBSET Lanes]

Idle == [pc |-> "idle", tkt |-> 0, mine |-> 0, bound |-> 0, lane |-> 0, entry |-> 0,
         orch |-> 0, back |-> "idle", todo |-> {}, ghosts |-> {}]

-----------------------------------------------------------------------------
(* Reading the tables.                                                      *)

Least(S) == CHOOSE x \in S : \A y \in S : x <= y

First(S) == IF S = {} THEN 0 ELSE Least(S)

Live(o) == orch[o].st \in LIVE_ORCHESTRATION_STATUSES

(* The latest, or 0.                                                        *)
get_active_orchestration_run(k) ==
    LET S == {o \in Orchs : Live(o) /\ orch[o].tkt = k} IN
    IF S = {} THEN 0 ELSE CHOOSE o \in S : \A p \in S : p <= o

waiting_in_lane(n) == {e \in Entries : entry[e].st = "queued" /\ entry[e].lane = n}

tickets_holding_lanes(k, exclude_slot) ==
    {n \in Lanes \ {exclude_slot} : slot[n].occ # 0 /\ orch[slot[n].occ].tkt = k}

Naming(o) == {n \in Lanes : slot[n].occ = o}

(* Mutant: any entry of its ticket.                                         *)
EntriesOf_Ticket(o) == {e \in Entries : entry[e].orch # 0 /\ entry[e].tkt = orch[o].tkt}

EntriesOf(o) == {e \in Entries : entry[e].orch = o}

(* Mutant: no cap on the attempts.                                          *)
repair_exhausted_Never(e) == FALSE

repair_exhausted(e) == entry[e].tries >= RepairCap

(* An entry in its hold keeps a slot whose work is over; a slot that names  *)
(* nothing is a reservation for as long as its grace lasts.                 *)
_occupant_is_live(n) ==
    IF slot[n].occ = 0 THEN slot[n].fresh
    ELSE \/ Live(slot[n].occ)
         \/ \E e \in EntriesOf(slot[n].occ) : entry[e].st = "repairing"

NewOrch  == First({o \in Orchs : orch[o].st = "none" /\ th[drv(o)].pc = "idle"})
NewEntry == First({e \in Entries : entry[e].st = "none"})

NextWeb  == First({w \in Webs : w <= scene.webs /\ th[web(w)] = Idle})

Slots == {n \in Lanes : n <= scene.pool}

Serving == server \in {"up", "draining"}

Spend(what) == scene.events[what] > 0 /\ scene' = [scene EXCEPT !.events[what] = @ - 1]

-----------------------------------------------------------------------------
(* Moving the threads.                                                      *)

Goto(t, pc) == th' = [th EXCEPT ![t].pc = pc]

Stop(t) == th' = [th EXCEPT ![t] = Idle]

Return(t) ==
    th' = [th EXCEPT ![t] =
             IF th[t].back = "idle" THEN Idle
             ELSE [Idle EXCEPT !.pc = th[t].back, !.mine = th[t].mine, !.bound = th[t].bound,
                               !.todo = th[t].todo]]

(* schedule_orchestration: a thread for the ticket, which a drain refuses   *)
(* without a word (bound: one for each orchestration at a time).            *)
Scheduled(o) ==
    IF server = "up" /\ th[drv(o)].pc = "idle"
    THEN [th EXCEPT ![drv(o)] = [Idle EXCEPT !.pc = "adopt", !.orch = o]]
    ELSE th

(* The orchestration has ended: call on_orchestration_complete.             *)
Completing(t, o, back) == [th[t] EXCEPT !.pc = "done", !.orch = o, !.back = back]

-----------------------------------------------------------------------------
(* Starting a ticket: a slot, or a place in line.                           *)

orchestrate_ticket(w) ==
    /\ Serving /\ w = NextWeb /\ Spend("start")
    /\ \E k \in scene.tickets :
         /\ get_active_orchestration_run(k) = 0
         /\ th' = [th EXCEPT ![web(w)] = [Idle EXCEPT !.pc = "reserve", !.tkt = k]]
    /\ UNCHANGED <<slot, orch, entry, server>>

(* Mutant: select, then mutate.                                             *)
_claim_slot_row_Unguarded(t, n) == slot' = [slot EXCEPT ![n] = Claimed]

(* One UPDATE on is_available decides who has the slot.                     *)
_claim_slot_row(t, n) ==
    /\ ~slot[n].busy
    /\ slot' = [slot EXCEPT ![n] = Claimed]

(* claim_free_slot tries what it reads as free until one is its own; which  *)
(* it prefers, and which lane it parks in, is left open.                    *)
_reserve(w) ==
    LET t == web(w) IN
    /\ th[t].pc = "reserve"
    /\ \/ \E n \in Slots :
            /\ _claim_slot_row(t, n)
            /\ th' = [th EXCEPT ![t].pc = "find", ![t].mine = n]
       \/ \E n \in Slots :
            /\ \A m \in Slots : slot[m].busy
            /\ th' = [th EXCEPT ![t].pc = "dedupe", ![t].lane = n]
            /\ UNCHANGED slot
    /\ UNCHANGED <<orch, entry, server, scene>>

(* claim_orchestration_run looks, and then inserts.                         *)
Find(w) ==
    LET t == web(w)  active == get_active_orchestration_run(th[t].tkt) IN
    /\ th[t].pc = "find"
    /\ th' = [th EXCEPT ![t].pc = IF active = 0 THEN "claim" ELSE "bind", ![t].bound = active]
    /\ UNCHANGED <<slot, orch, entry, server, scene>>

claim_orchestration_run(w) ==
    LET t == web(w) IN
    /\ th[t].pc = "claim" /\ NewOrch # 0
    /\ orch' = [orch EXCEPT ![NewOrch] = [st |-> "queued", tkt |-> th[t].tkt]]
    /\ th' = [th EXCEPT ![t].pc = "bind", ![t].bound = NewOrch]
    /\ UNCHANGED <<slot, entry, server, scene>>

(* An orchestration in a slot has an entry, so that its end is recorded.    *)
ensure_active_entry_for_orchestration(n, o, tbl) ==
    IF EntriesOf(o) # {} THEN tbl
    ELSE [tbl EXCEPT ![NewEntry] = [st |-> "active", tkt |-> orch[o].tkt, lane |-> n,
                                    orch |-> o, tries |-> 0]]

bind(w) ==
    LET t == web(w)  n == th[t].mine  o == th[t].bound IN
    /\ th[t].pc = "bind"
    /\ EntriesOf(o) # {} \/ NewEntry # 0
    /\ slot' = [slot EXCEPT ![n].occ = o, ![n].fresh = FALSE]
    /\ entry' = ensure_active_entry_for_orchestration(n, o, entry)
    /\ Goto(t, "start")
    /\ UNCHANGED <<orch, server, scene>>

schedule_orchestration(w) ==
    LET t == web(w) IN
    /\ th[t].pc = "start"
    /\ th' = [Scheduled(th[t].bound) EXCEPT ![t] = Idle]
    /\ UNCHANGED <<slot, orch, entry, server, scene>>

(* Started in place, the work may raise: a claim nobody adopted is          *)
(* abandoned, then the slot is released.                                    *)
abandon_claim(w) ==
    LET t == web(w)  o == th[t].bound IN
    /\ th[t].pc = "start" /\ Spend("refuse")
    /\ IF orch[o].st = "queued"
       THEN /\ orch' = [orch EXCEPT ![o].st = "over"]
            /\ th' = [th EXCEPT ![t] = Completing(t, o, "release")]
       ELSE Goto(t, "release") /\ UNCHANGED orch
    /\ UNCHANGED <<slot, entry, server>>

(* A slot that names somebody else has moved on.                            *)
release(w) ==
    LET t == web(w)  n == th[t].mine IN
    /\ th[t].pc = "release"
    /\ slot' = [slot EXCEPT ![n] = IF @.occ \in {0, th[t].bound} THEN Free ELSE @]
    /\ Stop(t)
    /\ UNCHANGED <<orch, entry, server, scene>>

(* The board, or a reservation that found the pool full.                    *)
add_to_lane(w) ==
    /\ Serving /\ w = NextWeb /\ Spend("add")
    /\ \E k \in scene.tickets, n \in Slots :
         th' = [th EXCEPT ![web(w)] = [Idle EXCEPT !.pc = "dedupe", !.tkt = k, !.lane = n]]
    /\ UNCHANGED <<slot, orch, entry, server>>

already_queued(w) ==
    LET t == web(w) IN
    /\ th[t].pc = "dedupe"
    /\ IF \E e \in Entries : entry[e].st = "queued" /\ entry[e].tkt = th[t].tkt
       THEN Stop(t) ELSE Goto(t, "insert")
    /\ UNCHANGED <<slot, orch, entry, server, scene>>

Insert(w) ==
    LET t == web(w) IN
    /\ th[t].pc = "insert" /\ NewEntry # 0
    /\ entry' = [entry EXCEPT ![NewEntry] = [st |-> "queued", tkt |-> th[t].tkt,
                                             lane |-> th[t].lane, orch |-> 0, tries |-> 0]]
    /\ Goto(t, "take")
    /\ UNCHANGED <<slot, orch, server, scene>>

-----------------------------------------------------------------------------
(* start_lane_head, for whoever calls it.                                   *)

(* The lane is claimed before anything is dispatched.                       *)
claim_lane_slot(t) ==
    LET n == th[t].lane IN
    /\ th[t].pc = "take"
    /\ \/ server # "draining" /\ _claim_slot_row(t, n) /\ Goto(t, "head")
       \/ (server = "draining" \/ slot[n].busy) /\ Return(t) /\ UNCHANGED slot
    /\ UNCHANGED <<orch, entry, server, scene>>

(* The head of the lane; nobody else may hold a lane for its ticket; an     *)
(* orchestration that already runs it is the one the lane takes.            *)
start_lane_head(t) ==
    LET n == th[t].lane
        e == First(waiting_in_lane(n))
        active == get_active_orchestration_run(entry[e].tkt)
    IN
    /\ th[t].pc = "head"
    /\ th' = [th EXCEPT ![t] =
         CASE e = 0 -> [@ EXCEPT !.pc = "give_back"]
           [] e # 0 /\ tickets_holding_lanes(entry[e].tkt, n) # {} ->
                [@ EXCEPT !.pc = "give_back"]
           [] e # 0 /\ tickets_holding_lanes(entry[e].tkt, n) = {} /\ active # 0 ->
                [@ EXCEPT !.pc = "occupy", !.entry = e, !.orch = active]
           [] OTHER -> [@ EXCEPT !.pc = "launch", !.entry = e]]
    /\ UNCHANGED <<slot, orch, entry, server, scene>>

(* The orchestration exists and its thread runs before the slot names it.   *)
dispatch_orchestration(t) ==
    /\ th[t].pc = "launch" /\ NewOrch # 0
    /\ orch' = [orch EXCEPT ![NewOrch] = [st |-> "queued", tkt |-> entry[th[t].entry].tkt]]
    /\ th' = [Scheduled(NewOrch) EXCEPT ![t].pc = "occupy", ![t].orch = NewOrch]
    /\ UNCHANGED <<slot, entry, server, scene>>

(* One commit: the slot names it, the entry is active.                      *)
_start_entry_work(t) ==
    LET n == th[t].lane  e == th[t].entry  o == th[t].orch IN
    /\ th[t].pc = "occupy"
    /\ slot' = [slot EXCEPT ![n].occ = o, ![n].fresh = FALSE]
    /\ entry' = [entry EXCEPT ![e].st = "active", ![e].orch = o]
    /\ Return(t)
    /\ UNCHANGED <<orch, server, scene>>

release_slot(t) ==
    /\ th[t].pc = "give_back"
    /\ slot' = [slot EXCEPT ![th[t].lane] = Free]
    /\ Return(t)
    /\ UNCHANGED <<orch, entry, server, scene>>

-----------------------------------------------------------------------------
(* on_orchestration_complete, for whoever ends an orchestration.            *)

(* The entry and the slot that name it.  (A slot busy with nothing was      *)
(* claimed after this entry was promoted, since every claim clears the ids  *)
(* and every clearing of ids frees the slot: the search by number finds     *)
(* nothing to release.)                                                     *)
on_orchestration_complete(t) ==
    LET o == th[t].orch  e == First(EntriesOf(o))  n == First(Naming(o)) IN
    /\ th[t].pc = "done"
    /\ \E pc \in {"hold", "settle"} :
         /\ pc = "hold" => /\ e # 0 /\ n # 0 /\ orch[o].st = "blocked"
                           /\ ~repair_exhausted(e)
         /\ th' = [th EXCEPT ![t].pc = pc, ![t].entry = e, ![t].lane = n]
    /\ UNCHANGED <<slot, orch, entry, server, scene>>

_hold_for_repair(t) ==
    /\ th[t].pc = "hold"
    /\ entry' = [entry EXCEPT ![th[t].entry].st = "repairing"]
    /\ Return(t)
    /\ UNCHANGED <<slot, orch, server, scene>>

SettleEntry(t) ==
    LET e == th[t].entry IN
    /\ th[t].pc = "settle"
    /\ entry' = IF e = 0 THEN entry ELSE [entry EXCEPT ![e].st = "settled"]
    /\ IF th[t].lane = 0 THEN Return(t) ELSE Goto(t, "free")
    /\ UNCHANGED <<slot, orch, server, scene>>

(* The slot found before is freed, whoever it names by now, and its lane    *)
(* starts its next entry.                                                   *)
FreeLane(t) ==
    /\ th[t].pc = "free"
    /\ slot' = [slot EXCEPT ![th[t].lane] = Free]
    /\ th' = [th EXCEPT ![t].pc = "take", ![t].entry = 0, ![t].orch = 0]
    /\ UNCHANGED <<orch, entry, server, scene>>

(* The thread adopts the claim of its ticket, whoever made it; an           *)
(* orchestration that runs already is an error it only logs; and when the   *)
(* claim has ended before it looked, it runs the ticket again, in no lane.  *)
start_orchestration_run(o) ==
    LET t == drv(o)  active == get_active_orchestration_run(orch[o].tkt)
        driving(p) == [Idle EXCEPT !.pc = "drive", !.orch = p]
        other == active # o /\ th[drv(active)].pc = "adopt"
    IN
    /\ th[t].pc = "adopt"
    /\ \/ /\ active # 0 /\ orch[active].st = "queued"
          /\ orch' = [orch EXCEPT ![active].st = "running"]
          /\ th' = [th EXCEPT ![t] = IF other THEN @ ELSE Idle, ![drv(active)] = driving(active)]
       \/ /\ active # 0 /\ orch[active].st = "running"
          /\ Stop(t) /\ UNCHANGED orch
       \/ /\ active = 0 /\ NewOrch # 0
          /\ orch' = [orch EXCEPT ![NewOrch] = [st |-> "running", tkt |-> orch[o].tkt]]
          /\ th' = [th EXCEPT ![t] = Idle, ![drv(NewOrch)] = driving(NewOrch)]
    /\ UNCHANGED <<slot, entry, server, scene>>

(* Its driver ends it.                                                      *)
_finish_orchestration_run(o) ==
    LET t == drv(o) IN
    /\ th[t].pc = "drive"
    /\ \/ orch' = [orch EXCEPT ![o].st = "over"] /\ UNCHANGED scene
       \/ orch' = [orch EXCEPT ![o].st = "blocked"] /\ Spend("block")
    /\ th' = [th EXCEPT ![t] = Completing(t, o, "idle")]
    /\ UNCHANGED <<slot, entry, server>>

(* A person, or the harness that drives it, ends it from outside.           *)
complete_orchestration(w) ==
    LET t == web(w) IN
    /\ Serving /\ w = NextWeb /\ Spend("cancel")
    /\ \E o \in Orchs :
         /\ Live(o)
         /\ orch' = [orch EXCEPT ![o].st = "over"]
         /\ th' = [th EXCEPT ![t] = Completing(t, o, "idle")]
    /\ UNCHANGED <<slot, entry, server>>

-----------------------------------------------------------------------------
(* The reconcile pass: orchestrations nobody drives, then reconcile_lanes.  *)

(* A pass that begins while something else is under way is an event.        *)
reconcile_once ==
    /\ scene.timer /\ Serving /\ th[sweep] = Idle
    /\ IF \A t \in Thread : th[t] = Idle THEN UNCHANGED scene ELSE Spend("overlap")
    /\ th' = [th EXCEPT ![sweep].pc = "leases"]
    /\ UNCHANGED <<slot, orch, entry, server>>

(* Whose lease somebody renews, or is about to.                             *)
Driven(o) ==
    \/ th[drv(o)].pc \in {"adopt", "drive"}
    \/ \E t \in Thread : th[t].pc \in {"bind", "start"} /\ th[t].bound = o
    \/ \E t \in Thread : th[t].pc = "occupy" /\ th[t].orch = o

(* At boot every orchestration left live is one whose driver died.          *)
settle_expired_orchestration_leases ==
    /\ th[sweep].pc = "leases"
    /\ \E o \in Orchs :
         /\ Live(o) /\ ~Driven(o)
         /\ orch' = [orch EXCEPT ![o].st = "over"]
         /\ th' = [th EXCEPT ![sweep] = Completing(sweep, o, "leases")]
    /\ UNCHANGED <<slot, entry, server, scene>>

(* Nothing has expired, yet; then the entries in a hold are read.           *)
_drive_repairing_entries ==
    /\ th[sweep].pc = "leases"
    /\ server = "booting" => \A o \in Orchs : ~Live(o)
    /\ th' = [th EXCEPT ![sweep].pc = "repairs",
                        ![sweep].todo = {e \in Entries : entry[e].st = "repairing"}]
    /\ UNCHANGED <<slot, orch, entry, server, scene>>

(* A hold is spent - its attempts or its time, its route, its lane, another *)
(* lane has the ticket - and settles as the block it was; or it dispatches  *)
(* again in its own slot, counting the attempt first.                       *)
_drive_one_repair ==
    /\ th[sweep].pc = "repairs"
    /\ \E e \in th[sweep].todo :
         LET n == First(Naming(entry[e].orch))
             active == get_active_orchestration_run(entry[e].tkt)
             now == [th[sweep] EXCEPT !.todo = @ \ {e}, !.entry = e, !.lane = n,
                                      !.back = "repairs"]
         IN
         \/ th' = [th EXCEPT ![sweep] = [now EXCEPT !.pc = "settle"]] /\ UNCHANGED entry
         \/ /\ ~repair_exhausted(e) /\ n # 0
            /\ tickets_holding_lanes(entry[e].tkt, n) = {}
            /\ entry' = [entry EXCEPT ![e].tries = @ + 1]
            /\ th' = [th EXCEPT ![sweep] =
                 [now EXCEPT !.pc = IF active = 0 THEN "launch" ELSE "occupy", !.orch = active]]
    /\ UNCHANGED <<slot, orch, server, scene>>

(* Entries whose work finished but whose release stopped short.  (Mutant:   *)
(* while a slot still names them.)                                          *)
FinishedEntries_Slotted ==
    {e \in Entries : entry[e].st = "active" /\ ~Live(entry[e].orch)
                                            /\ Naming(entry[e].orch) # {}}

FinishedEntries ==
    {e \in Entries : entry[e].st = "active" /\ ~Live(entry[e].orch)}

_settle_finished_entries ==
    /\ th[sweep].pc = "repairs" /\ th[sweep].todo = {}
    /\ entry' = [e \in Entries |-> IF e \in FinishedEntries
                                   THEN [entry[e] EXCEPT !.st = "settled"] ELSE entry[e]]
    /\ Goto(sweep, "slots")
    /\ UNCHANGED <<slot, orch, server, scene>>

(* Mutant: an occupant named is an occupant.                                *)
Dead_Ghosts == {n \in Lanes : slot[n].busy /\ slot[n].occ = 0 /\ ~slot[n].fresh}

Dead == {n \in Lanes : slot[n].busy /\ ~_occupant_is_live(n)}

(* Slots whose occupant is gone, or whose lease has run out by now: read,   *)
(* and written later by their id.                                           *)
reconcile_slots ==
    /\ th[sweep].pc = "slots"
    /\ \E S \in SUBSET {n \in Lanes : slot[n].busy /\ slot[n].occ # 0
                                       /\ Live(slot[n].occ) /\ ~Driven(slot[n].occ)} :
         th' = [th EXCEPT ![sweep].pc = "reclaim", ![sweep].todo = Dead \cup S,
                          ![sweep].ghosts = {n \in Dead : slot[n].occ = 0}]
    /\ UNCHANGED <<slot, orch, entry, server, scene>>

_idle_lanes_with_work(tbl) == {n \in Lanes : ~tbl[n].busy /\ waiting_in_lane(n) # {}}

(* Only columns that change are written: a slot read as naming nothing is   *)
(* freed, and keeps what was bound to it since.                             *)
Reclaim ==
    /\ th[sweep].pc = "reclaim"
    /\ slot' = [n \in Lanes |->
         IF n \notin th[sweep].todo THEN slot[n]
         ELSE [Free EXCEPT !.occ = IF n \in th[sweep].ghosts THEN slot[n].occ ELSE 0]]
    /\ th' = [th EXCEPT ![sweep].pc = "heads", ![sweep].ghosts = {},
                        ![sweep].todo = @ \cup _idle_lanes_with_work(slot')]
    /\ UNCHANGED <<orch, entry, server, scene>>

(* Every lane freed, and every idle one with work, starts its head.         *)
reconcile_lanes ==
    LET n == Least(th[sweep].todo) IN
    /\ th[sweep].pc = "heads" /\ th[sweep].todo # {}
    /\ th' = [th EXCEPT ![sweep].pc = "take", ![sweep].lane = n,
                        ![sweep].todo = @ \ {n}, ![sweep].back = "heads"]
    /\ UNCHANGED <<slot, orch, entry, server, scene>>

(* Last, free slots are given to live orchestrations that have none: the    *)
(* orphans and the free slots are read, paired, and written.                *)
Orphans == {o \in Orchs : Live(o) /\ Naming(o) = {}
                          /\ tickets_holding_lanes(orch[o].tkt, 0) = {}}

PassEnds ==
    /\ Stop(sweep)
    /\ server' = IF server = "booting" THEN "up" ELSE server

claim_orphaned_orchestrations ==
    LET S == {n \in Slots : ~slot[n].busy} IN
    /\ th[sweep].pc = "heads" /\ th[sweep].todo = {}
    /\ IF S = {} \/ Orphans = {} THEN PassEnds
       ELSE /\ th' = [th EXCEPT ![sweep] = [Idle EXCEPT !.pc = "attach", !.lane = Least(S),
                                                       !.orch = Least(Orphans)]]
            /\ UNCHANGED server
    /\ UNCHANGED <<slot, orch, entry, scene>>

Attach ==
    LET n == th[sweep].lane  o == th[sweep].orch IN
    /\ th[sweep].pc = "attach"
    /\ EntriesOf(o) # {} \/ NewEntry # 0
    /\ slot' = [slot EXCEPT ![n] = Holding(o)]
    /\ entry' = ensure_active_entry_for_orchestration(n, o, entry)
    /\ PassEnds
    /\ UNCHANGED <<orch, scene>>

-----------------------------------------------------------------------------
(* Time, and the server.                                                    *)

(* A thread is between the claim of slot n and the write that names it.     *)
Holds(t, n) ==
    \/ th[t].pc \in Admitting /\ th[t].mine = n
    \/ th[t].pc \in Starting /\ th[t].lane = n

(* RESERVATION_GRACE runs out; while the reservation is still on its way to *)
(* its bind that is an event.                                               *)
GraceEnds(n) ==
    /\ slot[n].busy /\ slot[n].occ = 0 /\ slot[n].fresh
    /\ IF \E t \in Thread : Holds(t, n) THEN Spend("slow") ELSE UNCHANGED scene
    /\ slot' = [slot EXCEPT ![n].fresh = FALSE]
    /\ UNCHANGED <<orch, entry, th, server>>

begin_drain ==
    /\ server = "up" /\ Spend("drain")
    /\ server' = "draining"
    /\ UNCHANGED <<slot, orch, entry, th>>

end_drain ==
    /\ server = "draining"
    /\ server' = "up"
    /\ UNCHANGED <<slot, orch, entry, th, scene>>

Crash ==
    /\ server # "down" /\ Spend("crash")
    /\ server' = "down"
    /\ th' = [t \in Thread |-> Idle]
    /\ UNCHANGED <<slot, orch, entry>>

Boot ==
    /\ server = "down"
    /\ server' = "booting"
    /\ th' = [th EXCEPT ![sweep].pc = "leases"]
    /\ UNCHANGED <<slot, orch, entry, scene>>

-----------------------------------------------------------------------------
Init ==
    /\ slot = [n \in Lanes |-> Free]
    /\ orch = [o \in Orchs |-> [st |-> "none", tkt |-> 0]]
    /\ entry = [e \in Entries |-> [st |-> "none", tkt |-> 0, lane |-> 0, orch |-> 0,
                                   tries |-> 0]]
    /\ th = [t \in Thread |-> Idle]
    /\ server = "up"
    /\ scene \in Scenarios

Request(w) ==
    \/ _reserve(w) \/ Find(w) \/ claim_orchestration_run(w) \/ bind(w)
    \/ schedule_orchestration(w) \/ release(w) \/ already_queued(w) \/ Insert(w)

(* start_lane_head and on_orchestration_complete, on any thread.            *)
Call(t) ==
    \/ claim_lane_slot(t) \/ start_lane_head(t) \/ dispatch_orchestration(t)
    \/ _start_entry_work(t) \/ release_slot(t)
    \/ on_orchestration_complete(t) \/ _hold_for_repair(t) \/ SettleEntry(t) \/ FreeLane(t)

Drive(o) == start_orchestration_run(o) \/ _finish_orchestration_run(o)

Pass ==
    \/ _drive_repairing_entries \/ _drive_one_repair \/ _settle_finished_entries
    \/ reconcile_slots \/ Reclaim \/ reconcile_lanes
    \/ claim_orphaned_orchestrations \/ Attach

Next ==
    \/ \E w \in Webs : orchestrate_ticket(w) \/ add_to_lane(w) \/ complete_orchestration(w)
    \/ \E w \in Webs : Request(w) \/ abandon_claim(w)
    \/ \E t \in Thread : Call(t)
    \/ \E o \in Orchs : Drive(o)
    \/ \E n \in Lanes : GraceEnds(n)
    \/ reconcile_once \/ settle_expired_orchestration_leases \/ Pass
    \/ begin_drain \/ end_drain \/ Crash \/ Boot

(* Threads run, and an orchestration is driven to an end; the timer fires,  *)
(* a grace runs out, a lease nobody renews expires; a drain ends in a       *)
(* refusal or a restart, and a server that is down is started again.        *)
(* (Said of scenes with the timer, which are those that promise an end.)    *)
Fairness ==
    /\ \A w \in Webs : WF_vars(scene.timer /\ (Request(w) \/ Call(web(w))))
    /\ \A o \in Orchs : WF_vars(scene.timer /\ (Drive(o) \/ Call(drv(o))))
    /\ WF_vars(scene.timer /\ (reconcile_once \/ Pass \/ Call(sweep) \/ Boot))
    /\ SF_vars(settle_expired_orchestration_leases)
    /\ \A n \in Lanes : WF_vars(scene.timer /\ GraceEnds(n))
    /\ WF_vars(scene.timer /\ end_drain)

Spec == Init /\ [][Next]_vars /\ Fairness

-----------------------------------------------------------------------------
(* Every variable stays in its domain.                                      *)
TypeOK ==
    /\ slot \in [Lanes -> Slot]
    /\ orch \in [Orchs -> Orch]
    /\ entry \in [Entries -> Entry]
    /\ th \in [Thread -> Local]
    /\ server \in {"up", "draining", "down", "booting"}
    /\ scene \in [timer : BOOLEAN, pool : Nat, webs : Nat, tickets : SUBSET Tickets,
                       events : [Events -> Nat]]

(* Whatever races for a slot - reservations, lane heads, completions that   *)
(* free one and start the next - one of them has it (claim_free_slot).      *)
OneHolder ==
    ~scene.timer => \A n \in Lanes : \A t, u \in Thread : Holds(t, n) /\ Holds(u, n) => t = u

(* An entry recorded as finished has no work still live                     *)
(* (on_orchestration_complete, _settle_finished_entries).                   *)
SettledIsOver ==
    ~scene.timer => \A e \in Entries :
        entry[e].st = "settled" /\ entry[e].orch # 0 => ~Live(entry[e].orch)

(* Nor does anybody take the slot from under an orchestration that is       *)
(* driven, or make it read free (start_lane_head).                          *)
NoEviction ==
    [][~scene.timer =>
         \A n \in Lanes, o \in Orchs :
            slot[n].busy /\ slot[n].occ = o /\ th'[drv(o)].pc \in {"adopt", "drive"}
              => slot'[n].busy /\ slot'[n].occ = o]_vars

(* Tickets that wait in a lane are started, whatever was refused, lost or   *)
(* died before them, and what was started or is held for a repair is        *)
(* settled one day (reconcile_lanes, _drive_repairing_entries,              *)
(* _settle_finished_entries).                                               *)
EntriesSettle ==
    []<>(scene.timer => \A e \in Entries : entry[e].st \in {"none", "settled"})

(* No slot is lost: all that were taken come back to who can use them.      *)
SlotsComeBack == []<>(scene.timer => \A n \in Lanes : ~slot[n].busy)
=============================================================================
