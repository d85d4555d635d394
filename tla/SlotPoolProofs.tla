--------------------------- MODULE SlotPoolProofs ---------------------------
(***************************************************************************)
(* What is proved of SlotPool for any number of slots, tickets, requests,   *)
(* orchestrations and entries.                                              *)
(*                                                                         *)
(* The types hold whatever happens.  The rest is about a server whose pass  *)
(* runs at boot only, and where nobody ends an orchestration from outside   *)
(* and no start is refused after its bind: with either of these, as with a  *)
(* pass under way, two threads may free one slot.  Crashes, drains, blocks  *)
(* held for a repair, reservations that outlive their grace and any number  *)
(* of requests are all allowed.                                             *)
(*                                                                         *)
(* The argument.  A claim is one statement, so a slot that is busy and      *)
(* names nothing is held by one thread, which alone names it or gives it    *)
(* back (Own, OneHolds).  An orchestration is completed by its own driver,  *)
(* once, and the slot that driver found still names its orchestration when  *)
(* it is freed: to name another it would have to be freed first, by the     *)
(* same driver.  The pass of a boot has the tables to itself (Alone).       *)
(***************************************************************************)
EXTENDS SlotPool, FiniteSetTheorems, WellFoundedInduction, TLAPS

(* What a thread's locals name where its code uses them.                    *)
Fine(l) ==
    /\ l.pc \in Admitting \cup {"start"} => l.mine \in Lanes
    /\ l.pc \in Starting \cup {"dedupe", "insert", "take", "free"} => l.lane \in Lanes
    /\ l.pc \in {"bind", "start"} => l.bound \in Orchs
    /\ l.pc = "launch" => l.entry \in Entries
    /\ l.pc = "attach" => l.orch \in Orchs
    /\ l.pc = "repairs" \/ l.back = "repairs" => l.todo \subseteq Entries
    /\ l.pc \in {"reclaim", "heads"} \/ l.back = "heads" => l.todo \subseteq Lanes
    /\ l.pc \in {"leases", "repairs", "slots", "reclaim", "heads", "attach"} => l.back = "idle"

(* Every thread's locals serve.                                             *)
LocalOK == \A t \in Thread : Fine(th[t])

(* The types, and that the locals serve.                                    *)
Typed == TypeOK /\ LocalOK

-----------------------------------------------------------------------------
(* A set of numbers has a least one.                                        *)
LEMMA LeastNumber ==
    ASSUME NEW T \in SUBSET Nat, T # {}
    PROVE  \E m \in T : \A n \in T : m <= n
<1> DEFINE R == OpToRel(<, Nat)
<1>1. PICK m \in T : \A n \in T : ~(<<n, m>> \in R)
  BY NatLessThanWellFounded, WFMin
<1>2. \A n \in T : ~(n < m)
  BY <1>1 DEF OpToRel
<1> QED
  BY <1>2

(* A finite one has a greatest: the one with the fewest above it.           *)
LEMMA GreatestNumber ==
    ASSUME NEW T \in SUBSET Nat, T # {}, IsFiniteSet(T)
    PROVE  \E m \in T : \A n \in T : n <= m
<1> DEFINE Above(x) == {y \in T : y > x}
           Sizes == {Cardinality(Above(x)) : x \in T}
<1>1. ASSUME NEW x \in T PROVE IsFiniteSet(Above(x)) /\ Cardinality(Above(x)) \in Nat
  <2>1. Above(x) \in SUBSET T
    OBVIOUS
  <2> HIDE DEF Above
  <2> QED
    BY <2>1, FS_Subset, FS_CardinalityType
<1>2. PICK s \in Sizes : \A r \in Sizes : s <= r
  <2>1. Sizes \in SUBSET Nat /\ Sizes # {}
    BY <1>1
  <2> HIDE DEF Sizes
  <2> QED
    BY <2>1, LeastNumber
<1>3. PICK x \in T : s = Cardinality(Above(x))
  BY <1>2
<1>4. ASSUME NEW z \in T, z > x PROVE FALSE
  <2>1. z \in Above(x) /\ Above(z) \in SUBSET (Above(x) \ {z})
    <3>1. x \in Nat /\ z \in Nat /\ T \subseteq Nat
      OBVIOUS
    <3>2. ASSUME NEW y \in T, y > z PROVE y > x /\ y # z
      <4>1. y \in Nat
        BY <3>1
      <4> QED
        BY <1>4, <3>1, <3>2, <4>1
    <3> QED
      BY <1>4, <3>2
  <2>2. Cardinality(Above(x)) <= Cardinality(Above(z))
    BY <1>2, <1>3
  <2>3. IsFiniteSet(Above(x)) /\ Cardinality(Above(x)) \in Nat /\ Cardinality(Above(z)) \in Nat
    BY <1>1
  <2> HIDE DEF Above
  <2>4. IsFiniteSet(Above(x) \ {z}) /\ Cardinality(Above(x) \ {z}) = Cardinality(Above(x)) - 1
    BY <2>1, <2>3, FS_RemoveElement
  <2>5. Cardinality(Above(z)) <= Cardinality(Above(x) \ {z})
    BY <2>1, <2>4, FS_Subset
  <2> QED
    BY <2>2, <2>3, <2>4, <2>5
<1> QED
  BY <1>4

(* The first of a set of numbers is one of them, or 0 when there is none.   *)
LEMMA FirstOf ==
    ASSUME NEW T \in SUBSET (Nat \ {0})
    PROVE  IF T = {} THEN First(T) = 0 ELSE First(T) \in T /\ Least(T) \in T
<1>1. T # {} => \E m \in T : \A n \in T : m <= n
  BY LeastNumber
<1> QED
  BY <1>1 DEF First, Least

(* What is new was not there; what is active is live.                       *)
LEMMA Found ==
    /\ NewOrch \in Orchs \cup {0}
    /\ NewOrch # 0 => orch[NewOrch].st = "none" /\ th[drv(NewOrch)].pc = "idle"
    /\ NewEntry \in Entries \cup {0}
    /\ NewEntry # 0 => entry[NewEntry].st = "none"
    /\ \A k : /\ get_active_orchestration_run(k) \in Orchs \cup {0}
              /\ get_active_orchestration_run(k) # 0 =>
                     /\ Live(get_active_orchestration_run(k))
                     /\ orch[get_active_orchestration_run(k)].tkt = k
    /\ \A o : First(Naming(o)) \in Lanes \cup {0}
    /\ \A o : First(Naming(o)) # 0 => slot[First(Naming(o))].occ = o
    /\ \A o : First(EntriesOf(o)) \in Entries \cup {0}
    /\ \A o : First(EntriesOf(o)) # 0 => entry[First(EntriesOf(o))].orch = o
    /\ \A n : First(waiting_in_lane(n)) \in Entries \cup {0}
    /\ \A n : First(waiting_in_lane(n)) # 0 =>
                  /\ entry[First(waiting_in_lane(n))].st = "queued"
                  /\ entry[First(waiting_in_lane(n))].lane = n
<1>1. Lanes \subseteq Nat \ {0} /\ Orchs \subseteq Nat \ {0} /\ Entries \subseteq Nat \ {0}
  BY PoolAssumption
<1>2. /\ NewOrch \in Orchs \cup {0}
      /\ NewOrch # 0 => orch[NewOrch].st = "none" /\ th[drv(NewOrch)].pc = "idle"
  <2> DEFINE T == {o \in Orchs : orch[o].st = "none" /\ th[drv(o)].pc = "idle"}
  <2>1. T \in SUBSET (Nat \ {0}) /\ NewOrch = First(T)
    BY <1>1 DEF NewOrch
  <2>2. IF T = {} THEN NewOrch = 0 ELSE NewOrch \in T
    <3> HIDE DEF T
    <3> QED
      BY <2>1, FirstOf
  <2> QED
    BY <2>2
<1>3. /\ NewEntry \in Entries \cup {0}
      /\ NewEntry # 0 => entry[NewEntry].st = "none"
  <2> DEFINE T == {e \in Entries : entry[e].st = "none"}
  <2>1. T \in SUBSET (Nat \ {0}) /\ NewEntry = First(T)
    BY <1>1 DEF NewEntry
  <2>2. IF T = {} THEN NewEntry = 0 ELSE NewEntry \in T
    <3> HIDE DEF T
    <3> QED
      BY <2>1, FirstOf
  <2> QED
    BY <2>2
<1>4. ASSUME NEW k
      PROVE  /\ get_active_orchestration_run(k) \in Orchs \cup {0}
             /\ get_active_orchestration_run(k) # 0 =>
                    /\ Live(get_active_orchestration_run(k))
                    /\ orch[get_active_orchestration_run(k)].tkt = k
  <2> DEFINE T == {o \in Orchs : Live(o) /\ orch[o].tkt = k}
             g == get_active_orchestration_run(k)
  <2>1. T \in SUBSET Nat /\ IsFiniteSet(T)
    <3>1. T \in SUBSET Orchs
      OBVIOUS
    <3> HIDE DEF T
    <3> QED
      BY <1>1, <3>1, PoolAssumption, FS_Subset
  <2>2. g = IF T = {} THEN 0 ELSE CHOOSE o \in T : \A p \in T : p <= o
    BY DEF get_active_orchestration_run
  <2>3. IF T = {} THEN g = 0 ELSE g \in T
    <3> HIDE DEF T, g
    <3>1. T # {} => \E o \in T : \A p \in T : p <= o
      BY <2>1, GreatestNumber
    <3> QED
      BY <2>2, <3>1
  <2> QED
    BY <2>3
<1>5. ASSUME NEW o
      PROVE  /\ First(Naming(o)) \in Lanes \cup {0}
             /\ First(Naming(o)) # 0 => slot[First(Naming(o))].occ = o
             /\ First(EntriesOf(o)) \in Entries \cup {0}
             /\ First(EntriesOf(o)) # 0 => entry[First(EntriesOf(o))].orch = o
  <2>1. Naming(o) \in SUBSET (Nat \ {0}) /\ EntriesOf(o) \in SUBSET (Nat \ {0})
    BY <1>1 DEF Naming, EntriesOf
  <2>2. /\ First(Naming(o)) = 0 \/ First(Naming(o)) \in Naming(o)
        /\ First(EntriesOf(o)) = 0 \/ First(EntriesOf(o)) \in EntriesOf(o)
    BY <2>1, FirstOf
  <2> QED
    BY <2>2 DEF Naming, EntriesOf
<1>6. ASSUME NEW n
      PROVE  /\ First(waiting_in_lane(n)) \in Entries \cup {0}
             /\ First(waiting_in_lane(n)) # 0 =>
                  /\ entry[First(waiting_in_lane(n))].st = "queued"
                  /\ entry[First(waiting_in_lane(n))].lane = n
  <2>1. waiting_in_lane(n) \in SUBSET (Nat \ {0})
    BY <1>1 DEF waiting_in_lane
  <2>2. First(waiting_in_lane(n)) = 0 \/ First(waiting_in_lane(n)) \in waiting_in_lane(n)
    BY <2>1, FirstOf
  <2> QED
    BY <2>2 DEF waiting_in_lane
<1> QED
  BY <1>2, <1>3, <1>4, <1>5, <1>6

(* The threads are the web threads, the drivers and the pass, all distinct. *)
LEMMA Threads ==
    /\ sweep \in Thread
    /\ \A o \in Orchs : drv(o) \in Thread /\ drv(o) # sweep
    /\ \A o : drv(o) \in Thread => o \in Orchs
    /\ \A o, p : drv(o) = drv(p) => o = p
    /\ \A w \in Webs : web(w) \in Thread /\ web(w) # sweep
    /\ \A w, o : web(w) # drv(o)
BY DEF Thread, sweep, drv, web

(* One thread moves to a place where its locals are what its code uses.     *)
LEMMA WalkFrom ==
    ASSUME NEW f \in [Thread -> Local], \A u \in Thread : Fine(f[u]),
           NEW t \in Thread, NEW l \in Local, Fine(l), th' = [f EXCEPT ![t] = l]
    PROVE  th' \in [Thread -> Local] /\ LocalOK'
<1>1. ASSUME NEW u \in Thread PROVE th'[u] \in Local /\ Fine(th'[u])
  BY Zenon
<1>2. LocalOK' <=> \A u \in Thread : Fine(th'[u])
  BY DEF LocalOK, Fine
<1> QED
  BY <1>1, <1>2

(* One thread takes new locals that serve.                                  *)
LEMMA Walk ==
    ASSUME Typed, NEW t \in Thread, NEW l \in Local, Fine(l), th' = [th EXCEPT ![t] = l]
    PROVE  th' \in [Thread -> Local] /\ LocalOK'
<1>1. th \in [Thread -> Local] /\ \A u \in Thread : Fine(th[u])
  BY DEF Typed, TypeOK, LocalOK
<1> QED
  BY <1>1, WalkFrom

(* The places that use none of them.                                        *)
Plain == {"idle", "reserve", "release", "done", "hold", "settle", "adopt", "drive"}

(* A move to a place that asks for no more than the thread already has.     *)
LEMMA GotoFine ==
    ASSUME NEW l \in Local, Fine(l), NEW pc \in Pc,
           \/ pc \in Plain
           \/ l.pc = "bind" /\ pc = "start"
           \/ l.pc = "dedupe" /\ pc = "insert"
           \/ l.pc = "insert" /\ pc = "take"
           \/ l.pc = "take" /\ pc = "head"
           \/ l.lane \in Lanes /\ pc = "free"
           \/ l.pc = "repairs" /\ pc = "slots"
    PROVE  [l EXCEPT !.pc = pc] \in Local /\ Fine([l EXCEPT !.pc = pc])
BY DEF Local, Fine, Plain, Pc, Admitting, Starting

(* The same, as a step.                                                     *)
LEMMA WalkGoto ==
    ASSUME Typed, NEW t \in Thread, NEW pc \in Pc, Goto(t, pc),
           \/ pc \in Plain
           \/ th[t].pc = "bind" /\ pc = "start"
           \/ th[t].pc = "dedupe" /\ pc = "insert"
           \/ th[t].pc = "insert" /\ pc = "take"
           \/ th[t].pc = "take" /\ pc = "head"
           \/ th[t].lane \in Lanes /\ pc = "free"
           \/ th[t].pc = "repairs" /\ pc = "slots"
    PROVE  th' \in [Thread -> Local] /\ LocalOK'
<1> DEFINE l == [th[t] EXCEPT !.pc = pc]
<1>1. th[t] \in Local /\ Fine(th[t])
  BY DEF Typed, TypeOK, LocalOK
<1>2. l \in Local /\ Fine(l)
  BY <1>1, GotoFine
<1>3. th' = [th EXCEPT ![t] = l]
  BY DEF Goto
<1> QED
  BY <1>2, <1>3, Walk

(* A thread at rest.                                                        *)
LEMMA IdleFine == Idle \in Local /\ Fine(Idle)
BY DEF Idle, Local, Fine, Pc, Admitting, Starting

(* A thread comes to rest.                                                  *)
LEMMA WalkStop ==
    ASSUME Typed, NEW t \in Thread, Stop(t)
    PROVE  th' \in [Thread -> Local] /\ LocalOK'
BY IdleFine, Walk DEF Stop

(* Where Return leads.                                                      *)
Back(l) == IF l.back = "idle" THEN Idle
           ELSE [Idle EXCEPT !.pc = l.back, !.mine = l.mine, !.bound = l.bound, !.todo = l.todo]

(* What Return hands back to a caller, field by field.                      *)
LEMMA BackIs ==
    \A l : l.back # "idle" =>
        Back(l) = [pc |-> l.back, tkt |-> 0, mine |-> l.mine, bound |-> l.bound, lane |-> 0,
                   entry |-> 0, orch |-> 0, back |-> "idle", todo |-> l.todo,
                   ghosts |-> {}]
BY DEF Back, Idle

(* It serves the caller.                                                    *)
LEMMA BackFine == \A l \in Local : Fine(l) => Back(l) \in Local /\ Fine(Back(l))
<1> SUFFICES ASSUME NEW l \in Local, Fine(l) PROVE Back(l) \in Local /\ Fine(Back(l))
  OBVIOUS
<1>1. CASE l.back = "idle"
  BY <1>1, IdleFine DEF Back
<1>2. CASE l.back # "idle"
  BY <1>2, BackIs DEF Local, Fine, Pc, Admitting, Starting
<1> QED
  BY <1>1, <1>2

(* A call returns.                                                          *)
LEMMA WalkReturn ==
    ASSUME Typed, NEW t \in Thread, Return(t)
    PROVE  th' \in [Thread -> Local] /\ LocalOK'
<1>1. th' = [th EXCEPT ![t] = Back(th[t])]
  BY DEF Return, Back
<1>2. th[t] \in Local /\ Fine(th[t])
  BY DEF Typed, TypeOK, LocalOK
<1> QED
  BY <1>1, <1>2, BackFine, Walk

(* Scheduling moves only a driver, and to a place that asks nothing.        *)
LEMMA ScheduledFine ==
    ASSUME Typed, NEW o \in Orchs
    PROVE  Scheduled(o) \in [Thread -> Local] /\ \A u \in Thread : Fine(Scheduled(o)[u])
<1> DEFINE l == [Idle EXCEPT !.pc = "adopt", !.orch = o]
<1>1. l \in Local /\ Fine(l)
  BY DEF Idle, Local, Fine, Pc, Admitting, Starting
<1>2. th \in [Thread -> Local] /\ \A u \in Thread : Fine(th[u])
  BY DEF Typed, TypeOK, LocalOK
<1>3. Scheduled(o) = th \/ Scheduled(o) = [th EXCEPT ![drv(o)] = l]
  BY DEF Scheduled
<1> HIDE DEF l
<1> QED
  BY <1>1, <1>2, <1>3, Threads

(* What spending an event leaves.                                           *)
LEMMA Spent ==
    ASSUME Typed, NEW what \in Events, Spend(what)
    PROVE  /\ scene.events[what] > 0
           /\ scene' \in [timer : BOOLEAN, pool : Nat, webs : Nat, tickets : SUBSET Tickets,
                          events : [Events -> Nat]]
           /\ scene'.timer = scene.timer
           /\ \A x \in Events \ {what} : scene'.events[x] = scene.events[x]
           /\ scene'.events[what] <= scene.events[what]
<1>1. scene \in [timer : BOOLEAN, pool : Nat, webs : Nat, tickets : SUBSET Tickets,
                 events : [Events -> Nat]]
  BY DEF Typed, TypeOK
<1>2. scene.events \in [Events -> Nat]
  BY <1>1
<1>3. scene' = [scene EXCEPT !.events = [scene.events EXCEPT ![what] = @ - 1]]
  BY DEF Spend
<1>4. scene.events[what] > 0
  BY DEF Spend
<1>5. [scene.events EXCEPT ![what] = @ - 1] \in [Events -> Nat]
  BY <1>2, <1>4
<1>6. scene'.events = [scene.events EXCEPT ![what] = @ - 1]
  BY <1>1, <1>3
<1> QED
  BY <1>1, <1>2, <1>3, <1>4, <1>5, <1>6

(* The tables and the scene in their domains, and a thread that walks.      *)
LEMMA Domains ==
    /\ Typed <=> /\ slot \in [Lanes -> Slot] /\ orch \in [Orchs -> Orch]
                 /\ entry \in [Entries -> Entry] /\ th \in [Thread -> Local]
                 /\ server \in {"up", "draining", "down", "booting"}
                 /\ scene \in [timer : BOOLEAN, pool : Nat, webs : Nat, tickets : SUBSET Tickets,
                               events : [Events -> Nat]]
                 /\ LocalOK
BY DEF Typed, TypeOK

(* What the writes put in the tables.                                       *)
LEMMA SlotWrite ==
    ASSUME Typed, NEW n
    PROVE  /\ [slot EXCEPT ![n] = Free] \in [Lanes -> Slot]
           /\ [slot EXCEPT ![n] = Claimed] \in [Lanes -> Slot]
           /\ [slot EXCEPT ![n].fresh = FALSE] \in [Lanes -> Slot]
           /\ \A o \in Orchs \cup {0} : [slot EXCEPT ![n].occ = o, ![n].fresh = FALSE] \in [Lanes -> Slot]
           /\ \A o \in Orchs : [slot EXCEPT ![n] = Holding(o)] \in [Lanes -> Slot]
<1>1. slot \in [Lanes -> Slot]
  BY DEF Typed, TypeOK
<1>2. Free \in Slot /\ Claimed \in Slot /\ \A o \in Orchs : Holding(o) \in Slot
  BY DEF Free, Claimed, Holding, Slot
<1>3. \A s \in Slot : [s EXCEPT !.fresh = FALSE] \in Slot
  BY DEF Slot
<1>4. \A s \in Slot, o \in Orchs \cup {0} : [s EXCEPT !.occ = o, !.fresh = FALSE] \in Slot
  BY DEF Slot
<1>5. [slot EXCEPT ![n].fresh = FALSE] \in [Lanes -> Slot]
  BY <1>1, <1>3
<1>6. ASSUME NEW o \in Orchs \cup {0}
      PROVE  [slot EXCEPT ![n].occ = o, ![n].fresh = FALSE] \in [Lanes -> Slot]
  <2>1. [slot EXCEPT ![n].occ = o, ![n].fresh = FALSE]
            = [slot EXCEPT ![n] = [slot[n] EXCEPT !.occ = o, !.fresh = FALSE]]
    BY <1>1
  <2> QED
    BY <1>1, <1>4, <2>1
<1> QED
  BY <1>1, <1>2, <1>5, <1>6

(* What is written to an orchestration's row is a row.                      *)
LEMMA OrchWrite ==
    ASSUME Typed, NEW o
    PROVE  /\ \A x \in {"blocked", "over", "running"} : [orch EXCEPT ![o].st = x] \in [Orchs -> Orch]
           /\ \A x \in {"queued", "running"}, k \in Tickets \cup {0} :
                [orch EXCEPT ![o] = [st |-> x, tkt |-> k]] \in [Orchs -> Orch]
BY DEF Typed, TypeOK, Orch, LIVE_ORCHESTRATION_STATUSES

(* What is written to a lane entry is an entry.                             *)
LEMMA EntryWrite ==
    ASSUME Typed, NEW e
    PROVE  /\ \A x \in {"repairing", "settled"} : [entry EXCEPT ![e].st = x] \in [Entries -> Entry]
           /\ \A o \in Orchs \cup {0} :
                [entry EXCEPT ![e].st = "active", ![e].orch = o] \in [Entries -> Entry]
           /\ \A x \in {"active", "queued"}, k \in Tickets \cup {0}, n \in Lanes \cup {0},
                 o \in Orchs \cup {0} :
                [entry EXCEPT ![e] = [st |-> x, tkt |-> k, lane |-> n, orch |-> o, tries |-> 0]]
                    \in [Entries -> Entry]
           /\ e \in Entries /\ ~repair_exhausted(e) =>
                [entry EXCEPT ![e].tries = @ + 1] \in [Entries -> Entry]
<1>1. entry \in [Entries -> Entry]
  BY DEF Typed, TypeOK
<1>2. 0 \in 0 .. RepairCap /\ RepairCap \in Nat
  BY PoolAssumption
<1>3. \A x \in {"repairing", "settled"} : [entry EXCEPT ![e].st = x] \in [Entries -> Entry]
  BY <1>1 DEF Entry
<1>4. ASSUME NEW o \in Orchs \cup {0}
      PROVE  [entry EXCEPT ![e].st = "active", ![e].orch = o] \in [Entries -> Entry]
  <2>1. \A y \in Entry : [y EXCEPT !.st = "active", !.orch = o] \in Entry
    BY DEF Entry
  <2>2. [entry EXCEPT ![e].st = "active", ![e].orch = o]
            = [entry EXCEPT ![e] = [entry[e] EXCEPT !.st = "active", !.orch = o]]
    BY <1>1
  <2> QED
    BY <1>1, <2>1, <2>2
<1>5. ASSUME NEW x \in {"active", "queued"}, NEW k \in Tickets \cup {0}, NEW n \in Lanes \cup {0},
             NEW o \in Orchs \cup {0}
      PROVE  [entry EXCEPT ![e] = [st |-> x, tkt |-> k, lane |-> n, orch |-> o, tries |-> 0]]
                 \in [Entries -> Entry]
  BY <1>1, <1>2 DEF Entry
<1>6. ASSUME e \in Entries, ~repair_exhausted(e)
      PROVE  [entry EXCEPT ![e].tries = @ + 1] \in [Entries -> Entry]
  <2>1. entry[e].tries \in 0 .. RepairCap /\ ~(entry[e].tries >= RepairCap)
    BY <1>1, <1>6 DEF Entry, repair_exhausted
  <2>2. entry[e].tries + 1 \in 0 .. RepairCap
    BY <1>2, <2>1
  <2> QED
    BY <1>1, <2>2 DEF Entry
<1> QED
  BY <1>3, <1>4, <1>5, <1>6

(* The entry that is found or made for an orchestration is an entry.        *)
LEMMA EnsureWrite ==
    ASSUME Typed, NEW n \in Lanes \cup {0}, NEW o \in Orchs
    PROVE  ensure_active_entry_for_orchestration(n, o, entry) \in [Entries -> Entry]
<1>1. orch[o].tkt \in Tickets \cup {0}
  BY DEF Typed, TypeOK, Orch
<1>2. entry \in [Entries -> Entry]
  BY DEF Typed, TypeOK
<1> QED
  BY <1>1, <1>2, EntryWrite DEF ensure_active_entry_for_orchestration

(* The call that completes an orchestration starts with what it needs.      *)
LEMMA CompletingFine ==
    ASSUME Typed, NEW t \in Thread, NEW o \in Orchs, NEW back \in {"idle", "release", "leases"}
    PROVE  Completing(t, o, back) \in Local /\ Fine(Completing(t, o, back))
<1>1. th[t] \in Local
  BY DEF Typed, TypeOK
<1> DEFINE c == Completing(t, o, back)
<1>2. \A l \in Local : [l EXCEPT !.pc = "done"] \in Local
  BY DEF Local, Pc
<1>3. c \in Local
  <2>1. \A l \in Local : [l EXCEPT !.orch = o] \in Local /\ [l EXCEPT !.back = back] \in Local
    BY DEF Local
  <2>2. c = [[[th[t] EXCEPT !.pc = "done"] EXCEPT !.orch = o] EXCEPT !.back = back]
    BY DEF Completing
  <2> HIDE DEF c
  <2> QED
    BY <1>1, <1>2, <2>1, <2>2
<1>4. c.pc = "done" /\ c.back \in {"idle", "release", "leases"}
  BY <1>1 DEF Completing, Local
<1> HIDE DEF c
<1>5. Fine(c)
  BY <1>4 DEF Fine, Admitting, Starting
<1> QED
  BY <1>3, <1>5 DEF c

-----------------------------------------------------------------------------
(* The steps of a request keep every variable in its domain.                *)
LEMMA TypedArrival ==
    ASSUME Typed, NEW w \in Webs,
           orchestrate_ticket(w) \/ add_to_lane(w) \/ complete_orchestration(w)
    PROVE  Typed' /\ UNCHANGED slot /\ scene'.timer = scene.timer
<1> DEFINE t == web(w)
<1>1. t \in Thread
  BY Threads
<1> HIDE DEF t
<1>2. CASE orchestrate_ticket(w)
  <2>1. PICK k \in scene.tickets : th' = [th EXCEPT ![t] = [Idle EXCEPT !.pc = "reserve", !.tkt = k]]
    BY <1>2 DEF orchestrate_ticket, t
  <2> DEFINE l == [Idle EXCEPT !.pc = "reserve", !.tkt = k]
  <2>2. k \in Tickets
    BY DEF Typed, TypeOK
  <2>3. l \in Local /\ Fine(l)
    BY <2>2 DEF Idle, Local, Fine, Pc, Admitting, Starting
  <2>4. th' \in [Thread -> Local] /\ LocalOK'
    BY <1>1, <2>1, <2>3, Walk
  <2>5. Spend("start") /\ UNCHANGED <<slot, orch, entry, server>>
    BY <1>2 DEF orchestrate_ticket
  <2> QED
    BY <2>4, <2>5, Spent DEF Typed, TypeOK, Events
<1>3. CASE add_to_lane(w)
  <2>1. PICK k \in scene.tickets, n \in Slots :
          th' = [th EXCEPT ![t] = [Idle EXCEPT !.pc = "dedupe", !.tkt = k, !.lane = n]]
    BY <1>3 DEF add_to_lane, t
  <2> DEFINE l == [Idle EXCEPT !.pc = "dedupe", !.tkt = k, !.lane = n]
  <2>2. k \in Tickets /\ n \in Lanes
    BY DEF Typed, TypeOK, Slots
  <2>3. l \in Local /\ Fine(l)
    BY <2>2 DEF Idle, Local, Fine, Pc, Admitting, Starting
  <2>4. th' \in [Thread -> Local] /\ LocalOK'
    BY <1>1, <2>1, <2>3, Walk
  <2>5. Spend("add") /\ UNCHANGED <<slot, orch, entry, server>>
    BY <1>3 DEF add_to_lane
  <2> QED
    BY <2>4, <2>5, Spent DEF Typed, TypeOK, Events
<1>4. CASE complete_orchestration(w)
  <2>1. PICK o \in Orchs : /\ orch' = [orch EXCEPT ![o].st = "over"]
                           /\ th' = [th EXCEPT ![t] = Completing(t, o, "idle")]
    BY <1>4 DEF complete_orchestration, t
  <2> DEFINE l == Completing(t, o, "idle")
  <2>3. l \in Local /\ Fine(l)
    BY <1>1, CompletingFine
  <2>4. th' \in [Thread -> Local] /\ LocalOK'
    BY <1>1, <2>1, <2>3, Walk
  <2>5. Spend("cancel") /\ UNCHANGED <<slot, entry, server>>
    BY <1>4 DEF complete_orchestration
  <2>6. orch' \in [Orchs -> Orch]
    BY <2>1, OrchWrite
  <2> QED
    BY <2>4, <2>5, <2>6, Spent DEF Typed, TypeOK, Events
<1> QED
  BY <1>2, <1>3, <1>4

(* The steps of a request, up to its bind.                                  *)
LEMMA TypedClaim ==
    ASSUME Typed, NEW w \in Webs,
           _reserve(w) \/ Find(w) \/ claim_orchestration_run(w) \/ bind(w)
    PROVE  Typed'
<1> DEFINE t == web(w)
<1>1. t \in Thread
  BY Threads
<1>2. th[t] \in Local /\ Fine(th[t]) /\ th \in [Thread -> Local]
  BY <1>1 DEF Typed, TypeOK, LocalOK
<1>3. CASE _reserve(w)
  <2> HIDE DEF t
  <2>1. th[t].pc = "reserve" /\ UNCHANGED <<orch, entry, server, scene>>
    BY <1>3 DEF _reserve, t
  <2>2. CASE \E n \in Slots : /\ _claim_slot_row(t, n)
                              /\ th' = [th EXCEPT ![t].pc = "find", ![t].mine = n]
    <3>1. PICK n \in Slots : /\ _claim_slot_row(t, n)
                             /\ th' = [th EXCEPT ![t].pc = "find", ![t].mine = n]
      BY <2>2
    <3>2. n \in Lanes
      BY DEF Slots
    <3> DEFINE m == [th[t] EXCEPT !.mine = n]
               l == [m EXCEPT !.pc = "find"]
    <3>3. m \in Local
      BY <1>2, <3>2 DEF Local
    <3>4. m.mine = n /\ m.back = th[t].back /\ m.todo = th[t].todo
      BY <1>2, <3>2 DEF Local
    <3> HIDE DEF m
    <3>5. l \in Local /\ l.pc = "find" /\ l.mine = n /\ l.back = th[t].back /\ l.todo = th[t].todo
      BY <3>3, <3>4 DEF Local, Pc, Admitting
    <3>6. th' = [th EXCEPT ![t] = l]
      BY <1>1, <1>2, <3>1 DEF m
    <3> HIDE DEF l
    <3>7. Fine(l)
      BY <1>2, <2>1, <3>2, <3>5 DEF Fine, Admitting, Starting
    <3>8. th' \in [Thread -> Local] /\ LocalOK'
      BY <1>1, <3>5, <3>6, <3>7, Walk
    <3>9. slot' \in [Lanes -> Slot]
      BY <3>1, SlotWrite DEF _claim_slot_row
    <3> QED
      BY <2>1, <3>8, <3>9 DEF Typed, TypeOK
  <2>3. CASE \E n \in Slots : /\ th' = [th EXCEPT ![t].pc = "dedupe", ![t].lane = n]
                              /\ UNCHANGED slot
    <3>1. PICK n \in Slots : /\ th' = [th EXCEPT ![t].pc = "dedupe", ![t].lane = n]
                             /\ UNCHANGED slot
      BY <2>3
    <3>2. n \in Lanes
      BY DEF Slots
    <3> DEFINE m == [th[t] EXCEPT !.lane = n]
               l == [m EXCEPT !.pc = "dedupe"]
    <3>3. m \in Local
      BY <1>2, <3>2 DEF Local
    <3>4. m.lane = n /\ m.back = th[t].back /\ m.todo = th[t].todo
      BY <1>2, <3>2 DEF Local
    <3> HIDE DEF m
    <3>5. l \in Local /\ l.pc = "dedupe" /\ l.lane = n /\ l.back = th[t].back /\ l.todo = th[t].todo
      BY <3>3, <3>4 DEF Local, Pc
    <3>6. th' = [th EXCEPT ![t] = l]
      BY <1>1, <1>2, <3>1 DEF m
    <3> HIDE DEF l
    <3>7. Fine(l)
      BY <1>2, <2>1, <3>2, <3>5 DEF Fine, Admitting, Starting
    <3>8. th' \in [Thread -> Local] /\ LocalOK'
      BY <1>1, <3>5, <3>6, <3>7, Walk
    <3> QED
      BY <2>1, <3>1, <3>8 DEF Typed, TypeOK
  <2> QED
    BY <1>3, <2>2, <2>3 DEF _reserve, t
<1>4. CASE Find(w)
  <2> DEFINE active == get_active_orchestration_run(th[t].tkt)
             pc == IF active = 0 THEN "claim" ELSE "bind"
             m == [th[t] EXCEPT !.bound = active]
             l == [m EXCEPT !.pc = pc]
  <2>1. th[t].pc = "find" /\ UNCHANGED <<slot, orch, entry, server, scene>>
        /\ th' = [th EXCEPT ![t].pc = pc, ![t].bound = active]
    BY <1>4 DEF Find
  <2> HIDE DEF t
  <2>2. active \in Orchs \cup {0}
    BY Found
  <2> HIDE DEF active
  <2>3. m \in Local /\ m.bound = active /\ m.mine = th[t].mine /\ m.back = th[t].back /\ m.todo = th[t].todo
    BY <1>2, <2>2 DEF Local
  <2>4. th' = [th EXCEPT ![t] = l]
    BY <1>1, <1>2, <2>1
  <2> HIDE DEF m
  <2>5. l \in Local /\ l.pc = pc /\ l.bound = active /\ l.mine = th[t].mine /\ l.back = th[t].back
        /\ l.todo = th[t].todo
    BY <2>3 DEF Local, Pc, Admitting
  <2> HIDE DEF l
  <2>6. Fine(l)
    BY <1>2, <2>1, <2>2, <2>5 DEF Fine, Admitting, Starting
  <2>7. th' \in [Thread -> Local] /\ LocalOK'
    BY <1>1, <2>4, <2>5, <2>6, Walk
  <2> QED
    BY <2>1, <2>7 DEF Typed, TypeOK
<1>5. CASE claim_orchestration_run(w)
  <2> DEFINE new == NewOrch
             m == [th[t] EXCEPT !.bound = new]
             l == [m EXCEPT !.pc = "bind"]
  <2>1. th[t].pc = "claim" /\ UNCHANGED <<slot, entry, server, scene>> /\ new # 0
        /\ orch' = [orch EXCEPT ![new] = [st |-> "queued", tkt |-> th[t].tkt]]
        /\ th' = [th EXCEPT ![t].pc = "bind", ![t].bound = new]
    BY <1>5 DEF claim_orchestration_run
  <2> HIDE DEF t
  <2>2. new \in Orchs
    BY Found, <2>1
  <2> HIDE DEF new
  <2>3. m \in Local /\ m.bound = new /\ m.mine = th[t].mine /\ m.back = th[t].back /\ m.todo = th[t].todo
    BY <1>2, <2>2 DEF Local
  <2>4. th' = [th EXCEPT ![t] = l]
    BY <1>1, <1>2, <2>1
  <2> HIDE DEF m
  <2>5. l \in Local /\ l.pc = "bind" /\ l.bound = new /\ l.mine = th[t].mine /\ l.back = th[t].back
        /\ l.todo = th[t].todo
    BY <2>3 DEF Local, Pc, Admitting
  <2> HIDE DEF l
  <2>6. Fine(l)
    BY <1>2, <2>1, <2>2, <2>5 DEF Fine, Admitting, Starting
  <2>7. th' \in [Thread -> Local] /\ LocalOK'
    BY <1>1, <2>4, <2>5, <2>6, Walk
  <2>8. th[t].tkt \in Tickets \cup {0}
    BY <1>2 DEF Local
  <2>9. orch' \in [Orchs -> Orch]
    BY <2>1, <2>8, OrchWrite
  <2> QED
    BY <2>1, <2>7, <2>9 DEF Typed, TypeOK
<1>6. CASE bind(w)
  <2>1. /\ th[t].pc = "bind" /\ Goto(t, "start")
        /\ slot' = [slot EXCEPT ![th[t].mine].occ = th[t].bound, ![th[t].mine].fresh = FALSE]
        /\ entry' = ensure_active_entry_for_orchestration(th[t].mine, th[t].bound, entry)
        /\ UNCHANGED <<orch, server, scene>>
    BY <1>6 DEF bind
  <2> HIDE DEF t
  <2>2. th[t].bound \in Orchs /\ th[t].mine \in Lanes \cup {0}
    BY <1>2, <2>1 DEF Fine, Local
  <2>3. slot' \in [Lanes -> Slot] /\ entry' \in [Entries -> Entry]
    BY <2>1, <2>2, SlotWrite, EnsureWrite
  <2>4. th' \in [Thread -> Local] /\ LocalOK'
    BY <1>1, <2>1, WalkGoto DEF Pc
  <2> QED
    BY <2>1, <2>3, <2>4 DEF Typed, TypeOK
<1> QED
  BY <1>3, <1>4, <1>5, <1>6

(* Its start, its release, and its place in a lane.                         *)
LEMMA TypedRequest ==
    ASSUME Typed, NEW w \in Webs,
           \/ schedule_orchestration(w) \/ release(w) \/ already_queued(w) \/ Insert(w)
           \/ abandon_claim(w)
    PROVE  Typed'
<1> DEFINE t == web(w)
<1>1. t \in Thread
  BY Threads
<1>2. th[t] \in Local /\ Fine(th[t]) /\ th \in [Thread -> Local]
  BY <1>1 DEF Typed, TypeOK, LocalOK
<1>3. CASE schedule_orchestration(w)
  <2>1. /\ th[t].pc = "start" /\ th' = [Scheduled(th[t].bound) EXCEPT ![t] = Idle]
        /\ UNCHANGED <<slot, orch, entry, server, scene>>
    BY <1>3 DEF schedule_orchestration
  <2> HIDE DEF t
  <2>2. th[t].bound \in Orchs
    BY <1>2, <2>1 DEF Fine
  <2>3. th' \in [Thread -> Local] /\ LocalOK'
    <3> DEFINE f == Scheduled(th[t].bound)
    <3>1. f \in [Thread -> Local] /\ \A u \in Thread : Fine(f[u])
      BY <2>2, ScheduledFine
    <3>2. th' = [f EXCEPT ![t] = Idle]
      BY <2>1
    <3> HIDE DEF f
    <3> QED
      BY <1>1, <3>1, <3>2, IdleFine, WalkFrom
  <2> QED
    BY <2>1, <2>3 DEF Typed, TypeOK
<1>4. CASE release(w)
  <2>1. /\ slot' = [slot EXCEPT ![th[t].mine] = IF @.occ \in {0, th[t].bound} THEN Free ELSE @]
        /\ Stop(t) /\ UNCHANGED <<orch, entry, server, scene>>
    BY <1>4 DEF release
  <2> HIDE DEF t
  <2>2. th' \in [Thread -> Local] /\ LocalOK'
    BY <1>1, <2>1, WalkStop
  <2>3. slot' \in [Lanes -> Slot]
    BY <2>1 DEF Typed, TypeOK, Free, Slot
  <2> QED
    BY <2>1, <2>2, <2>3 DEF Typed, TypeOK
<1>5. CASE already_queued(w)
  <2>1. /\ th[t].pc = "dedupe" /\ (Stop(t) \/ Goto(t, "insert"))
        /\ UNCHANGED <<slot, orch, entry, server, scene>>
    BY <1>5 DEF already_queued
  <2> HIDE DEF t
  <2>2. th' \in [Thread -> Local] /\ LocalOK'
    BY <1>1, <2>1, WalkStop, WalkGoto DEF Pc
  <2> QED
    BY <2>1, <2>2 DEF Typed, TypeOK
<1>6. CASE Insert(w)
  <2>1. /\ th[t].pc = "insert" /\ Goto(t, "take")
        /\ entry' = [entry EXCEPT ![NewEntry] = [st |-> "queued", tkt |-> th[t].tkt,
                                                 lane |-> th[t].lane, orch |-> 0, tries |-> 0]]
        /\ UNCHANGED <<slot, orch, server, scene>>
    BY <1>6 DEF Insert
  <2> HIDE DEF t
  <2>2. th' \in [Thread -> Local] /\ LocalOK'
    BY <1>1, <2>1, WalkGoto DEF Pc
  <2>3. th[t].tkt \in Tickets \cup {0} /\ th[t].lane \in Lanes \cup {0}
    BY <1>2 DEF Local
  <2>4. entry' \in [Entries -> Entry]
    BY <2>1, <2>3, EntryWrite
  <2> QED
    BY <2>1, <2>2, <2>4 DEF Typed, TypeOK
<1>7. CASE abandon_claim(w)
  <2>1. /\ th[t].pc = "start" /\ Spend("refuse") /\ UNCHANGED <<slot, entry, server>>
        /\ \/ /\ orch' = [orch EXCEPT ![th[t].bound].st = "over"]
              /\ th' = [th EXCEPT ![t] = Completing(t, th[t].bound, "release")]
           \/ Goto(t, "release") /\ UNCHANGED orch
    BY <1>7 DEF abandon_claim
  <2> HIDE DEF t
  <2>2. th[t].bound \in Orchs
    BY <1>2, <2>1 DEF Fine
  <2>3. th' \in [Thread -> Local] /\ LocalOK'
    <3> DEFINE l == Completing(t, th[t].bound, "release")
    <3>1. l \in Local /\ Fine(l)
      BY <1>1, <2>2, CompletingFine
    <3>2. Goto(t, "release") \/ th' = [th EXCEPT ![t] = l]
      BY <2>1
    <3> HIDE DEF l
    <3> QED
      BY <1>1, <3>1, <3>2, Walk, WalkGoto DEF Pc, Plain
  <2>4. orch' \in [Orchs -> Orch]
    <3> DEFINE o == th[t].bound
    <3>1. orch' = [orch EXCEPT ![o].st = "over"] \/ orch' = orch
      BY <2>1
    <3> HIDE DEF o
    <3>2. [orch EXCEPT ![o].st = "over"] \in [Orchs -> Orch] /\ orch \in [Orchs -> Orch]
      BY OrchWrite, Domains
    <3> QED
      BY <3>1, <3>2
  <2> QED
    BY <2>1, <2>3, <2>4, Spent DEF Typed, TypeOK, Events
<1> QED
  BY <1>3, <1>4, <1>5, <1>6, <1>7

(* The steps of start_lane_head, on any thread.                             *)
LEMMA TypedStartLane ==
    ASSUME Typed, NEW t \in Thread,
           \/ claim_lane_slot(t) \/ start_lane_head(t) \/ dispatch_orchestration(t)
           \/ _start_entry_work(t) \/ release_slot(t)
    PROVE  Typed'
<1>1. th[t] \in Local /\ Fine(th[t]) /\ th \in [Thread -> Local]
  BY DEF Typed, TypeOK, LocalOK
<1>2. CASE claim_lane_slot(t)
  <2>1. th[t].pc = "take" /\ UNCHANGED <<orch, entry, server, scene>>
    BY <1>2 DEF claim_lane_slot
  <2>2. CASE _claim_slot_row(t, th[t].lane) /\ Goto(t, "head")
    <3>1. th' \in [Thread -> Local] /\ LocalOK'
      BY <2>1, <2>2, WalkGoto DEF Pc, Starting
    <3>2. slot' \in [Lanes -> Slot]
      BY <2>2, SlotWrite DEF _claim_slot_row
    <3> QED
      BY <2>1, <3>1, <3>2 DEF Typed, TypeOK
  <2>3. CASE Return(t) /\ UNCHANGED slot
    <3>1. th' \in [Thread -> Local] /\ LocalOK'
      BY <2>3, WalkReturn
    <3> QED
      BY <2>1, <2>3, <3>1 DEF Typed, TypeOK
  <2> QED
    BY <1>2, <2>2, <2>3 DEF claim_lane_slot
<1>3. CASE start_lane_head(t)
  <2>1. PICK n, e, a : n = th[t].lane /\ e = First(waiting_in_lane(n))
                       /\ a = get_active_orchestration_run(entry[e].tkt)
    OBVIOUS
  <2>2. th[t].pc = "head" /\ UNCHANGED <<slot, orch, entry, server, scene>>
    BY <1>3 DEF start_lane_head
  <2>3. \/ th' = [th EXCEPT ![t] = [th[t] EXCEPT !.pc = "give_back"]]
        \/ /\ e # 0 /\ a # 0
           /\ th' = [th EXCEPT ![t] = [th[t] EXCEPT !.pc = "occupy", !.entry = e, !.orch = a]]
        \/ e # 0 /\ th' = [th EXCEPT ![t] = [th[t] EXCEPT !.pc = "launch", !.entry = e]]
    BY <1>1, <1>3, <2>1 DEF start_lane_head
  <2>4. e \in Entries \cup {0} /\ a \in Orchs \cup {0}
    BY <2>1, Found
  <2>5. PICK l : /\ th' = [th EXCEPT ![t] = l]
                 /\ l \in Local /\ l.lane = th[t].lane /\ l.back = th[t].back /\ l.todo = th[t].todo
                 /\ l.pc \in {"give_back", "occupy", "launch"}
                 /\ l.pc = "launch" => l.entry \in Entries
    <3>1. CASE th' = [th EXCEPT ![t] = [th[t] EXCEPT !.pc = "give_back"]]
      <4> DEFINE l == [th[t] EXCEPT !.pc = "give_back"]
      <4>1. l \in Local /\ l.lane = th[t].lane /\ l.back = th[t].back /\ l.todo = th[t].todo
            /\ l.pc = "give_back"
        BY <1>1 DEF Local, Pc, Starting
      <4> QED
        BY <3>1, <4>1
    <3>2. CASE e # 0 /\ th' = [th EXCEPT ![t] = [th[t] EXCEPT !.pc = "occupy", !.entry = e, !.orch = a]]
      <4> DEFINE m == [th[t] EXCEPT !.entry = e]
                 k == [m EXCEPT !.orch = a]
                 l == [k EXCEPT !.pc = "occupy"]
      <4>1. m \in Local /\ m.lane = th[t].lane /\ m.back = th[t].back /\ m.todo = th[t].todo
        BY <1>1, <2>4, <3>2 DEF Local
      <4>2. th' = [th EXCEPT ![t] = l]
        BY <1>1, <3>2
      <4> HIDE DEF m
      <4>3. k \in Local /\ k.lane = th[t].lane /\ k.back = th[t].back /\ k.todo = th[t].todo
        BY <2>4, <4>1 DEF Local
      <4> HIDE DEF k
      <4>4. l \in Local /\ l.lane = th[t].lane /\ l.back = th[t].back /\ l.todo = th[t].todo
            /\ l.pc = "occupy"
        BY <4>3 DEF Local, Pc, Starting
      <4> QED
        BY <4>2, <4>4
    <3>3. CASE e # 0 /\ th' = [th EXCEPT ![t] = [th[t] EXCEPT !.pc = "launch", !.entry = e]]
      <4> DEFINE m == [th[t] EXCEPT !.entry = e]
                 l == [m EXCEPT !.pc = "launch"]
      <4>1. m \in Local /\ m.lane = th[t].lane /\ m.back = th[t].back /\ m.todo = th[t].todo
            /\ m.entry = e
        BY <1>1, <2>4, <3>3 DEF Local
      <4>2. th' = [th EXCEPT ![t] = l]
        BY <1>1, <3>3
      <4> HIDE DEF m
      <4>3. l \in Local /\ l.lane = th[t].lane /\ l.back = th[t].back /\ l.todo = th[t].todo
            /\ l.pc = "launch" /\ l.entry = e
        BY <4>1 DEF Local, Pc, Starting
      <4> HIDE DEF l
      <4>4. l.entry \in Entries
        BY <2>4, <3>3, <4>3
      <4> QED
        BY <4>2, <4>3, <4>4
    <3> QED
      BY <2>3, <3>1, <3>2, <3>3
  <2>6. Fine(l)
    BY <1>1, <2>2, <2>5 DEF Fine, Admitting, Starting
  <2>7. th' \in [Thread -> Local] /\ LocalOK'
    BY <2>5, <2>6, Walk
  <2> QED
    BY <2>2, <2>7 DEF Typed, TypeOK
<1>4. CASE dispatch_orchestration(t)
  <2>1. PICK o : o = NewOrch
    OBVIOUS
  <2>2. /\ th[t].pc = "launch" /\ o # 0 /\ UNCHANGED <<slot, entry, server, scene>>
        /\ orch' = [orch EXCEPT ![o] = [st |-> "queued", tkt |-> entry[th[t].entry].tkt]]
        /\ th' = [Scheduled(o) EXCEPT ![t].pc = "occupy", ![t].orch = o]
    BY <1>4, <2>1 DEF dispatch_orchestration
  <2>3. o \in Orchs
    BY <2>1, <2>2, Found
  <2> DEFINE f == Scheduled(o)
             m == [f[t] EXCEPT !.orch = o]
             l == [m EXCEPT !.pc = "occupy"]
  <2>4. f \in [Thread -> Local] /\ (\A u \in Thread : Fine(f[u])) /\ f[t].lane = th[t].lane
        /\ f[t].back = th[t].back /\ f[t].todo = th[t].todo /\ f[t].pc = "launch"
    <3>1. f \in [Thread -> Local] /\ \A u \in Thread : Fine(f[u])
      BY <2>3, ScheduledFine
    <3>2. f[t] = th[t]
      BY <1>1, <2>2, <2>3, Threads DEF Scheduled
    <3> QED
      BY <2>2, <3>1, <3>2
  <2>5. th' = [f EXCEPT ![t] = l]
    BY <2>2, <2>4
  <2> HIDE DEF f
  <2>6. m \in Local /\ m.lane = th[t].lane /\ m.back = th[t].back /\ m.todo = th[t].todo
    BY <2>3, <2>4 DEF Local
  <2> HIDE DEF m
  <2>7. l \in Local /\ l.lane = th[t].lane /\ l.back = th[t].back /\ l.todo = th[t].todo
        /\ l.pc = "occupy"
    BY <2>6 DEF Local, Pc, Starting
  <2> HIDE DEF l
  <2>8. Fine(l)
    BY <1>1, <2>2, <2>7 DEF Fine, Admitting, Starting
  <2>9. th' \in [Thread -> Local] /\ LocalOK'
    BY <2>4, <2>5, <2>7, <2>8, WalkFrom
  <2>10. entry[th[t].entry].tkt \in Tickets \cup {0}
    BY <1>1, <2>2 DEF Fine, Typed, TypeOK, Entry
  <2>11. orch' \in [Orchs -> Orch]
    BY <2>2, <2>10, OrchWrite
  <2> QED
    BY <2>2, <2>9, <2>11 DEF Typed, TypeOK
<1>5. CASE _start_entry_work(t)
  <2>1. PICK n, e, o : n = th[t].lane /\ e = th[t].entry /\ o = th[t].orch
    OBVIOUS
  <2>2. /\ slot' = [slot EXCEPT ![n].occ = o, ![n].fresh = FALSE]
        /\ entry' = [entry EXCEPT ![e].st = "active", ![e].orch = o]
        /\ Return(t) /\ UNCHANGED <<orch, server, scene>>
    BY <1>5, <2>1 DEF _start_entry_work
  <2>3. o \in Orchs \cup {0}
    BY <1>1, <2>1 DEF Local
  <2>4. slot' \in [Lanes -> Slot]
    BY <2>2, <2>3, SlotWrite
  <2>5. entry' \in [Entries -> Entry]
    BY <2>2, <2>3, EntryWrite
  <2>6. th' \in [Thread -> Local] /\ LocalOK'
    BY <2>2, WalkReturn
  <2> QED
    BY <2>2, <2>4, <2>5, <2>6 DEF Typed, TypeOK
<1>6. CASE release_slot(t)
  <2>1. /\ slot' = [slot EXCEPT ![th[t].lane] = Free]
        /\ Return(t) /\ UNCHANGED <<orch, entry, server, scene>>
    BY <1>6 DEF release_slot
  <2>2. slot' \in [Lanes -> Slot]
    BY <2>1, SlotWrite
  <2>3. th' \in [Thread -> Local] /\ LocalOK'
    BY <2>1, WalkReturn
  <2> QED
    BY <2>1, <2>2, <2>3 DEF Typed, TypeOK
<1> QED
  BY <1>2, <1>3, <1>4, <1>5, <1>6

(* The steps of on_orchestration_complete, on any thread.                   *)
LEMMA TypedComplete ==
    ASSUME Typed, NEW t \in Thread,
           on_orchestration_complete(t) \/ _hold_for_repair(t) \/ SettleEntry(t) \/ FreeLane(t)
    PROVE  Typed'
<1>1. th[t] \in Local /\ Fine(th[t]) /\ th \in [Thread -> Local]
  BY DEF Typed, TypeOK, LocalOK
<1>2. CASE on_orchestration_complete(t)
  <2>1. PICK e, n : e = First(EntriesOf(th[t].orch)) /\ n = First(Naming(th[t].orch))
    OBVIOUS
  <2>2. PICK pc \in {"hold", "settle"} :
          th' = [th EXCEPT ![t].pc = pc, ![t].entry = e, ![t].lane = n]
    BY <1>2, <2>1 DEF on_orchestration_complete
  <2>3. th[t].pc = "done" /\ UNCHANGED <<slot, orch, entry, server, scene>>
    BY <1>2 DEF on_orchestration_complete
  <2>4. e \in Entries \cup {0} /\ n \in Lanes \cup {0}
    BY <2>1, Found
  <2> DEFINE m == [th[t] EXCEPT !.entry = e]
             k == [m EXCEPT !.lane = n]
             l == [k EXCEPT !.pc = pc]
  <2>5. m \in Local /\ m.back = th[t].back /\ m.todo = th[t].todo
    BY <1>1, <2>4 DEF Local
  <2>6. th' = [th EXCEPT ![t] = l]
    BY <1>1, <2>2
  <2> HIDE DEF m
  <2>7. k \in Local /\ k.back = th[t].back /\ k.todo = th[t].todo
    BY <2>4, <2>5 DEF Local
  <2> HIDE DEF k
  <2>8. l \in Local /\ l.back = th[t].back /\ l.todo = th[t].todo /\ l.pc \in {"hold", "settle"}
    BY <2>7 DEF Local, Pc
  <2> HIDE DEF l
  <2>9. Fine(l)
    BY <1>1, <2>3, <2>8 DEF Fine, Admitting, Starting
  <2>10. th' \in [Thread -> Local] /\ LocalOK'
    BY <2>6, <2>8, <2>9, Walk
  <2> QED
    BY <2>3, <2>10 DEF Typed, TypeOK
<1>3. CASE _hold_for_repair(t)
  <2>1. /\ entry' = [entry EXCEPT ![th[t].entry].st = "repairing"]
        /\ Return(t) /\ UNCHANGED <<slot, orch, server, scene>>
    BY <1>3 DEF _hold_for_repair
  <2>2. entry' \in [Entries -> Entry]
    BY <2>1, EntryWrite
  <2>3. th' \in [Thread -> Local] /\ LocalOK'
    BY <2>1, WalkReturn
  <2> QED
    BY <2>1, <2>2, <2>3 DEF Typed, TypeOK
<1>4. CASE SettleEntry(t)
  <2>1. PICK e : e = th[t].entry
    OBVIOUS
  <2>2. /\ entry' = entry \/ entry' = [entry EXCEPT ![e].st = "settled"]
        /\ Return(t) \/ (th[t].lane # 0 /\ Goto(t, "free"))
        /\ UNCHANGED <<slot, orch, server, scene>>
    BY <1>4, <2>1 DEF SettleEntry
  <2>3. entry' \in [Entries -> Entry]
    <3>1. [entry EXCEPT ![e].st = "settled"] \in [Entries -> Entry] /\ entry \in [Entries -> Entry]
      BY EntryWrite, Domains
    <3> QED
      BY <2>2, <3>1
  <2>4. th' \in [Thread -> Local] /\ LocalOK'
    <3>1. th[t].lane # 0 => th[t].lane \in Lanes
      BY <1>1 DEF Local
    <3> QED
      BY <2>2, <3>1, WalkReturn, WalkGoto DEF Pc
  <2> QED
    BY <2>2, <2>3, <2>4 DEF Typed, TypeOK
<1>5. CASE FreeLane(t)
  <2>1. /\ th[t].pc = "free" /\ slot' = [slot EXCEPT ![th[t].lane] = Free]
        /\ th' = [th EXCEPT ![t].pc = "take", ![t].entry = 0, ![t].orch = 0]
        /\ UNCHANGED <<orch, entry, server, scene>>
    BY <1>5 DEF FreeLane
  <2> DEFINE m == [th[t] EXCEPT !.entry = 0]
             k == [m EXCEPT !.orch = 0]
             l == [k EXCEPT !.pc = "take"]
  <2>2. m \in Local /\ m.back = th[t].back /\ m.todo = th[t].todo /\ m.lane = th[t].lane
    BY <1>1 DEF Local
  <2>3. th' = [th EXCEPT ![t] = l]
    BY <1>1, <2>1
  <2> HIDE DEF m
  <2>4. k \in Local /\ k.back = th[t].back /\ k.todo = th[t].todo /\ k.lane = th[t].lane
    BY <2>2 DEF Local
  <2> HIDE DEF k
  <2>5. l \in Local /\ l.back = th[t].back /\ l.todo = th[t].todo /\ l.pc = "take" /\ l.lane = th[t].lane
    BY <2>4 DEF Local, Pc
  <2> HIDE DEF l
  <2>6. Fine(l)
    BY <1>1, <2>1, <2>5 DEF Fine, Admitting, Starting
  <2>7. th' \in [Thread -> Local] /\ LocalOK'
    BY <2>3, <2>5, <2>6, Walk
  <2>8. slot' \in [Lanes -> Slot]
    BY <2>1, SlotWrite
  <2> QED
    BY <2>1, <2>7, <2>8 DEF Typed, TypeOK
<1> QED
  BY <1>2, <1>3, <1>4, <1>5

(* A driver starts with the orchestration it drives.                        *)
LEMMA DrivingFine ==
    \A p \in Orchs : /\ [Idle EXCEPT !.pc = "drive", !.orch = p] \in Local
                     /\ Fine([Idle EXCEPT !.pc = "drive", !.orch = p])
BY DEF Idle, Local, Fine, Pc, Admitting, Starting

(* The steps of a driver.                                                   *)
LEMMA TypedDrive ==
    ASSUME Typed, NEW o \in Orchs, Drive(o)
    PROVE  Typed'
<1> DEFINE t == drv(o)
           driving(p) == [Idle EXCEPT !.pc = "drive", !.orch = p]
<1>1. t \in Thread
  BY Threads
<1>2. th[t] \in Local /\ Fine(th[t]) /\ th \in [Thread -> Local] /\ \A u \in Thread : Fine(th[u])
  BY <1>1 DEF Typed, TypeOK, LocalOK
<1>3. ASSUME NEW p \in Orchs, NEW b \in {Idle, th[t]},
             th' = [th EXCEPT ![t] = b, ![drv(p)] = driving(p)]
      PROVE  th' \in [Thread -> Local] /\ LocalOK'
  <2> DEFINE f == [th EXCEPT ![t] = b]
             d == driving(p)
  <2>1. f \in [Thread -> Local] /\ \A u \in Thread : Fine(f[u])
    BY <1>1, <1>2, IdleFine
  <2>2. th' = [f EXCEPT ![drv(p)] = d]
    BY <1>3
  <2>3. d \in Local /\ Fine(d)
    BY DrivingFine
  <2> HIDE DEF f, d
  <2> QED
    BY <2>1, <2>2, <2>3, WalkFrom, Threads
<1>4. CASE start_orchestration_run(o)
  <2>1. PICK a : a = get_active_orchestration_run(orch[o].tkt)
    OBVIOUS
  <2>2. a \in Orchs \cup {0}
    BY <2>1, Found
  <2>3. UNCHANGED <<slot, entry, server, scene>>
    BY <1>4 DEF start_orchestration_run
  <2>4. orch[o].tkt \in Tickets \cup {0}
    BY DEF Typed, TypeOK, Orch
  <2>5. CASE /\ a # 0 /\ orch' = [orch EXCEPT ![a].st = "running"]
             /\ \E b \in {Idle, th[t]} : th' = [th EXCEPT ![t] = b, ![drv(a)] = driving(a)]
    <3>1. th' \in [Thread -> Local] /\ LocalOK'
      BY <1>3, <2>2, <2>5
    <3>2. orch' \in [Orchs -> Orch]
      BY <2>5, OrchWrite
    <3> QED
      BY <2>3, <3>1, <3>2 DEF Typed, TypeOK
  <2>6. CASE Stop(t) /\ UNCHANGED orch
    <3>1. th' \in [Thread -> Local] /\ LocalOK'
      BY <1>1, <2>6, WalkStop
    <3> QED
      BY <2>3, <2>6, <3>1 DEF Typed, TypeOK
  <2>7. CASE /\ NewOrch # 0
             /\ orch' = [orch EXCEPT ![NewOrch] = [st |-> "running", tkt |-> orch[o].tkt]]
             /\ th' = [th EXCEPT ![t] = Idle, ![drv(NewOrch)] = driving(NewOrch)]
    <3>1. NewOrch \in Orchs
      BY <2>7, Found
    <3>2. th' \in [Thread -> Local] /\ LocalOK'
      BY <1>3, <2>7, <3>1
    <3>3. orch' \in [Orchs -> Orch]
      BY <2>4, <2>7, OrchWrite
    <3> QED
      BY <2>3, <3>2, <3>3 DEF Typed, TypeOK
  <2> QED
    BY <1>2, <1>4, <2>1, <2>5, <2>6, <2>7 DEF start_orchestration_run
<1>5. CASE _finish_orchestration_run(o)
  <2> DEFINE l == Completing(t, o, "idle")
  <2>1. /\ th' = [th EXCEPT ![t] = l] /\ UNCHANGED <<slot, entry, server>>
        /\ orch' = [orch EXCEPT ![o].st = "over"] \/ orch' = [orch EXCEPT ![o].st = "blocked"]
        /\ UNCHANGED scene \/ Spend("block")
    BY <1>5 DEF _finish_orchestration_run
  <2>2. l \in Local /\ Fine(l)
    BY <1>1, CompletingFine
  <2> HIDE DEF l
  <2>3. th' \in [Thread -> Local] /\ LocalOK'
    BY <1>1, <2>1, <2>2, Walk
  <2>4. orch' \in [Orchs -> Orch]
    <3>1. \A x \in {"blocked", "over"} : [orch EXCEPT ![o].st = x] \in [Orchs -> Orch]
      BY OrchWrite
    <3> QED
      BY <2>1, <3>1
  <2> QED
    BY <2>1, <2>3, <2>4, Spent DEF Typed, TypeOK, Events
<1> QED
  BY <1>4, <1>5 DEF Drive

(* The steps of the pass.                                                   *)
LEMMA TypedPassFirst ==
    ASSUME Typed, reconcile_once \/ settle_expired_orchestration_leases
                  \/ _drive_repairing_entries \/ _drive_one_repair \/ _settle_finished_entries
    PROVE  Typed'
<1> DEFINE t == sweep
<1>1. t \in Thread
  BY Threads
<1>2. th[t] \in Local /\ Fine(th[t]) /\ th \in [Thread -> Local]
  BY <1>1 DEF Typed, TypeOK, LocalOK
<1>3. CASE reconcile_once
  <2> DEFINE l == [Idle EXCEPT !.pc = "leases"]
  <2>1. /\ th[t] = Idle /\ th' = [th EXCEPT ![t].pc = "leases"] /\ UNCHANGED <<slot, orch, entry, server>>
        /\ UNCHANGED scene \/ Spend("overlap")
    BY <1>3 DEF reconcile_once
  <2> HIDE DEF t
  <2>2. th' = [th EXCEPT ![t] = l]
    BY <1>1, <1>2, <2>1
  <2>3. l \in Local /\ Fine(l)
    BY DEF Idle, Local, Fine, Pc, Admitting, Starting
  <2> HIDE DEF l
  <2>4. th' \in [Thread -> Local] /\ LocalOK'
    BY <1>1, <2>2, <2>3, Walk
  <2> QED
    BY <2>1, <2>4, Spent DEF Typed, TypeOK, Events
<1>4. CASE settle_expired_orchestration_leases
  <2>1. PICK o \in Orchs : /\ orch' = [orch EXCEPT ![o].st = "over"]
                           /\ th' = [th EXCEPT ![t] = Completing(t, o, "leases")]
    BY <1>4 DEF settle_expired_orchestration_leases
  <2>2. UNCHANGED <<slot, entry, server, scene>>
    BY <1>4 DEF settle_expired_orchestration_leases
  <2> DEFINE l == Completing(t, o, "leases")
  <2>3. l \in Local /\ Fine(l)
    BY <1>1, CompletingFine
  <2> HIDE DEF l
  <2>4. th' \in [Thread -> Local] /\ LocalOK'
    BY <1>1, <2>1, <2>3, Walk DEF l
  <2>5. orch' \in [Orchs -> Orch]
    BY <2>1, OrchWrite
  <2> QED
    BY <2>2, <2>4, <2>5 DEF Typed, TypeOK
<1>5. CASE _drive_repairing_entries
  <2> DEFINE S == {e \in Entries : entry[e].st = "repairing"}
             m == [th[t] EXCEPT !.todo = S]
             l == [m EXCEPT !.pc = "repairs"]
  <2>1. /\ th[t].pc = "leases" /\ UNCHANGED <<slot, orch, entry, server, scene>>
        /\ th' = [th EXCEPT ![t].pc = "repairs", ![t].todo = S]
    BY <1>5 DEF _drive_repairing_entries
  <2> HIDE DEF t
  <2>2. S \subseteq Entries
    OBVIOUS
  <2>3. th' = [th EXCEPT ![t] = l]
    BY <1>1, <1>2, <2>1
  <2> HIDE DEF S
  <2>4. m \in Local /\ m.todo = S /\ m.back = th[t].back
    BY <1>2, <2>2 DEF Local
  <2> HIDE DEF m
  <2>5. l \in Local /\ l.todo = S /\ l.back = th[t].back /\ l.pc = "repairs"
    BY <2>4 DEF Local, Pc
  <2> HIDE DEF l
  <2>6. Fine(l)
    BY <1>2, <2>1, <2>2, <2>5 DEF Fine, Admitting, Starting
  <2>7. th' \in [Thread -> Local] /\ LocalOK'
    BY <1>1, <2>3, <2>5, <2>6, Walk
  <2> QED
    BY <2>1, <2>7 DEF Typed, TypeOK
<1>6. CASE _drive_one_repair
  <2>1. th[t].pc = "repairs" /\ UNCHANGED <<slot, orch, server, scene>>
    BY <1>6 DEF _drive_one_repair
  <2>2. th[t].todo \subseteq Entries
    BY <1>2, <2>1 DEF Fine
  <2>3. PICK e \in th[t].todo :
         LET n == First(Naming(entry[e].orch))
             active == get_active_orchestration_run(entry[e].tkt)
             now == [th[t] EXCEPT !.todo = @ \ {e}, !.entry = e, !.lane = n, !.back = "repairs"]
         IN
         \/ th' = [th EXCEPT ![t] = [now EXCEPT !.pc = "settle"]] /\ UNCHANGED entry
         \/ /\ ~repair_exhausted(e) /\ n # 0
            /\ entry' = [entry EXCEPT ![e].tries = @ + 1]
            /\ th' = [th EXCEPT ![t] =
                 [now EXCEPT !.pc = IF active = 0 THEN "launch" ELSE "occupy", !.orch = active]]
    BY <1>6 DEF _drive_one_repair
  <2>4. PICK n, a : n = First(Naming(entry[e].orch)) /\ a = get_active_orchestration_run(entry[e].tkt)
    OBVIOUS
  <2> HIDE DEF t
  <2>5. e \in Entries /\ n \in Lanes \cup {0} /\ a \in Orchs \cup {0}
    BY <2>2, <2>4, Found
  <2> DEFINE m1 == [th[t] EXCEPT !.todo = @ \ {e}]
             m2 == [m1 EXCEPT !.entry = e]
             m3 == [m2 EXCEPT !.lane = n]
             now == [m3 EXCEPT !.back = "repairs"]
             pc == IF a = 0 THEN "launch" ELSE "occupy"
             m4 == [now EXCEPT !.pc = pc]
  <2>6. \/ th' = [th EXCEPT ![t] = [now EXCEPT !.pc = "settle"]] /\ UNCHANGED entry
        \/ /\ ~repair_exhausted(e) /\ n # 0 /\ entry' = [entry EXCEPT ![e].tries = @ + 1]
           /\ th' = [th EXCEPT ![t] = [m4 EXCEPT !.orch = a]]
    BY <2>3, <2>4
  <2>7. m1 \in Local /\ m1.todo \subseteq Entries
    BY <1>2, <2>2 DEF Local
  <2> HIDE DEF m1
  <2>8. m2 \in Local /\ m2.todo \subseteq Entries /\ m2.entry = e
    BY <2>5, <2>7 DEF Local
  <2> HIDE DEF m2
  <2>9. m3 \in Local /\ m3.todo \subseteq Entries /\ m3.entry = e /\ m3.lane = n
    BY <2>5, <2>8 DEF Local
  <2> HIDE DEF m3
  <2>10. now \in Local /\ now.todo \subseteq Entries /\ now.entry = e /\ now.lane = n /\ now.back = "repairs"
    BY <2>9 DEF Local
  <2> HIDE DEF now
  <2>11. m4 \in Local /\ m4.todo \subseteq Entries /\ m4.entry = e /\ m4.lane = n /\ m4.back = "repairs"
         /\ m4.pc = pc
    BY <2>10 DEF Local, Pc, Starting
  <2> HIDE DEF m4
  <2>12. CASE th' = [th EXCEPT ![t] = [now EXCEPT !.pc = "settle"]] /\ UNCHANGED entry
    <3> DEFINE l == [now EXCEPT !.pc = "settle"]
    <3>1. l \in Local /\ l.todo \subseteq Entries /\ l.back = "repairs" /\ l.pc = "settle"
      BY <2>10 DEF Local, Pc
    <3>2. th' = [th EXCEPT ![t] = l]
      BY <2>12
    <3> HIDE DEF l
    <3>3. Fine(l)
      BY <3>1 DEF Fine, Admitting, Starting
    <3>4. th' \in [Thread -> Local] /\ LocalOK'
      BY <1>1, <3>1, <3>2, <3>3, Walk
    <3> QED
      BY <2>1, <2>12, <3>4 DEF Typed, TypeOK
  <2>13. CASE /\ ~repair_exhausted(e) /\ n # 0 /\ entry' = [entry EXCEPT ![e].tries = @ + 1]
              /\ th' = [th EXCEPT ![t] = [m4 EXCEPT !.orch = a]]
    <3> DEFINE l == [m4 EXCEPT !.orch = a]
    <3>1. l \in Local /\ l.todo \subseteq Entries /\ l.back = "repairs" /\ l.pc = pc /\ l.entry = e
          /\ l.lane = n
      BY <2>5, <2>11 DEF Local
    <3>2. th' = [th EXCEPT ![t] = l]
      BY <2>13
    <3> HIDE DEF l
    <3>3. Fine(l)
      BY <2>5, <2>13, <3>1 DEF Fine, Admitting, Starting
    <3>4. th' \in [Thread -> Local] /\ LocalOK'
      BY <1>1, <3>1, <3>2, <3>3, Walk
    <3>5. entry' \in [Entries -> Entry]
      BY <2>5, <2>13, EntryWrite
    <3> QED
      BY <2>1, <3>4, <3>5 DEF Typed, TypeOK
  <2> QED
    BY <2>6, <2>12, <2>13
<1>7. CASE _settle_finished_entries
  <2>1. /\ th[t].pc = "repairs" /\ th[t].todo = {} /\ Goto(t, "slots") /\ UNCHANGED <<slot, orch, server, scene>>
        /\ entry' = [e \in Entries |-> IF e \in FinishedEntries
                                       THEN [entry[e] EXCEPT !.st = "settled"] ELSE entry[e]]
    BY <1>7 DEF _settle_finished_entries
  <2> HIDE DEF t
  <2>2. entry' \in [Entries -> Entry]
    <3>1. \A x \in Entry : [x EXCEPT !.st = "settled"] \in Entry
      BY DEF Entry
    <3> QED
      BY <2>1, <3>1 DEF Typed, TypeOK
  <2>3. th' \in [Thread -> Local] /\ LocalOK'
    BY <1>1, <2>1, WalkGoto DEF Pc
  <2> QED
    BY <2>1, <2>2, <2>3 DEF Typed, TypeOK
<1> QED
  BY <1>3, <1>4, <1>5, <1>6, <1>7

(* The second half of a pass: slots, lanes and orphans.                     *)
LEMMA TypedPassLast ==
    ASSUME Typed, reconcile_slots \/ Reclaim \/ reconcile_lanes
                  \/ claim_orphaned_orchestrations \/ Attach
    PROVE  Typed'
<1> DEFINE t == sweep
<1>1. t \in Thread
  BY Threads
<1>2. th[t] \in Local /\ Fine(th[t]) /\ th \in [Thread -> Local]
  BY <1>1 DEF Typed, TypeOK, LocalOK
<1>3. CASE reconcile_slots
  <2>1. PICK S, G : /\ S \subseteq Lanes /\ G \subseteq Lanes
                    /\ th' = [th EXCEPT ![t].pc = "reclaim", ![t].todo = Dead \cup S,
                                        ![t].ghosts = G]
    <3>1. {n \in Dead : slot[n].occ = 0} \subseteq Lanes
      BY DEF Dead
    <3> QED
      BY <1>3, <3>1 DEF reconcile_slots
  <2>2. th[t].pc = "slots" /\ UNCHANGED <<slot, orch, entry, server, scene>>
    BY <1>3 DEF reconcile_slots
  <2> HIDE DEF t
  <2> DEFINE S2 == Dead \cup S
             m == [th[t] EXCEPT !.todo = S2, !.ghosts = G]
             l == [m EXCEPT !.pc = "reclaim"]
  <2>3. S2 \subseteq Lanes /\ G \subseteq Lanes
    BY <2>1 DEF Dead
  <2>4. th' = [th EXCEPT ![t] = l]
    BY <1>1, <1>2, <2>1
  <2> HIDE DEF S2
  <2>5. m \in Local /\ m.todo = S2 /\ m.back = th[t].back
    BY <1>2, <2>3 DEF Local
  <2> HIDE DEF m
  <2>6. l \in Local /\ l.todo = S2 /\ l.back = th[t].back /\ l.pc = "reclaim"
    BY <2>5 DEF Local, Pc
  <2> HIDE DEF l
  <2>7. Fine(l)
    BY <1>2, <2>2, <2>3, <2>6 DEF Fine, Admitting, Starting
  <2>8. th' \in [Thread -> Local] /\ LocalOK'
    BY <1>1, <2>4, <2>6, <2>7, Walk
  <2> QED
    BY <2>2, <2>8 DEF Typed, TypeOK
<1>4. CASE Reclaim
  <2> DEFINE I == _idle_lanes_with_work(slot')
  <2>1. /\ th[t].pc = "reclaim" /\ UNCHANGED <<orch, entry, server, scene>>
        /\ slot' = [n \in Lanes |->
               IF n \notin th[t].todo THEN slot[n]
               ELSE [Free EXCEPT !.occ = IF n \in th[t].ghosts THEN slot[n].occ ELSE 0]]
        /\ th' = [th EXCEPT ![t].pc = "heads", ![t].ghosts = {}, ![t].todo = @ \cup I]
    BY <1>4 DEF Reclaim
  <2> HIDE DEF t
  <2> DEFINE S2 == th[t].todo \cup I
             m == [th[t] EXCEPT !.todo = S2, !.ghosts = {}]
             l == [m EXCEPT !.pc = "heads"]
  <2>2. th[t].todo \subseteq Lanes /\ I \subseteq Lanes
    BY <1>2, <2>1 DEF Fine, _idle_lanes_with_work
  <2> HIDE DEF I
  <2>3. S2 \subseteq Lanes
    BY <2>2
  <2>4. th' = [th EXCEPT ![t] = l]
    BY <1>1, <1>2, <2>1
  <2> HIDE DEF S2
  <2>5. m \in Local /\ m.todo = S2 /\ m.back = th[t].back
    BY <1>2, <2>3 DEF Local
  <2> HIDE DEF m
  <2>6. l \in Local /\ l.todo = S2 /\ l.back = th[t].back /\ l.pc = "heads"
    BY <2>5 DEF Local, Pc
  <2> HIDE DEF l
  <2>7. Fine(l)
    BY <1>2, <2>1, <2>3, <2>6 DEF Fine, Admitting, Starting
  <2>8. th' \in [Thread -> Local] /\ LocalOK'
    BY <1>1, <2>4, <2>6, <2>7, Walk
  <2>9. slot' \in [Lanes -> Slot]
    <3>1. Free \in Slot /\ slot \in [Lanes -> Slot]
      BY DEF Free, Slot, Typed, TypeOK
    <3>2. \A n \in Lanes : /\ slot[n].occ \in Orchs \cup {0}
                           /\ [Free EXCEPT !.occ = slot[n].occ] \in Slot
                           /\ [Free EXCEPT !.occ = 0] \in Slot
      BY <3>1 DEF Free, Slot
    <3>3. ASSUME NEW n \in Lanes PROVE slot'[n] \in Slot
      BY <2>1, <3>1, <3>2
    <3> QED
      BY <2>1, <3>3
  <2> QED
    BY <2>1, <2>8, <2>9 DEF Typed, TypeOK
<1>5. CASE reconcile_lanes
  <2>1. PICK n : n = Least(th[t].todo)
    OBVIOUS
  <2>2. /\ th[t].pc = "heads" /\ th[t].todo # {} /\ UNCHANGED <<slot, orch, entry, server, scene>>
        /\ th' = [th EXCEPT ![t].pc = "take", ![t].lane = n, ![t].todo = @ \ {n}, ![t].back = "heads"]
    BY <1>5, <2>1 DEF reconcile_lanes
  <2> HIDE DEF t
  <2>3. th[t].todo \subseteq Lanes
    BY <1>2, <2>2 DEF Fine
  <2>4. n \in Lanes
    <3>1. th[t].todo \in SUBSET (Nat \ {0})
      BY <2>3, PoolAssumption
    <3>2. n \in th[t].todo
      BY <2>1, <2>2, <3>1, FirstOf
    <3> QED
      BY <2>3, <3>2
  <2> DEFINE m1 == [th[t] EXCEPT !.lane = n]
             m2 == [m1 EXCEPT !.todo = @ \ {n}]
             m3 == [m2 EXCEPT !.back = "heads"]
             l == [m3 EXCEPT !.pc = "take"]
  <2>5. th' = [th EXCEPT ![t] = l]
    BY <1>1, <1>2, <2>2
  <2>6. m1 \in Local /\ m1.todo \subseteq Lanes /\ m1.lane = n
    BY <1>2, <2>3, <2>4 DEF Local
  <2> HIDE DEF m1
  <2>7. m2 \in Local /\ m2.todo \subseteq Lanes /\ m2.lane = n
    BY <2>6 DEF Local
  <2> HIDE DEF m2
  <2>8. m3 \in Local /\ m3.todo \subseteq Lanes /\ m3.lane = n /\ m3.back = "heads"
    BY <2>7 DEF Local
  <2> HIDE DEF m3
  <2>9. l \in Local /\ l.todo \subseteq Lanes /\ l.lane = n /\ l.back = "heads" /\ l.pc = "take"
    BY <2>8 DEF Local, Pc
  <2> HIDE DEF l
  <2>10. Fine(l)
    BY <2>4, <2>9 DEF Fine, Admitting, Starting
  <2>11. th' \in [Thread -> Local] /\ LocalOK'
    BY <1>1, <2>5, <2>9, <2>10, Walk
  <2> QED
    BY <2>2, <2>11 DEF Typed, TypeOK
<1>6. CASE claim_orphaned_orchestrations
  <2>1. UNCHANGED <<slot, orch, entry, scene>> /\ th[t].pc = "heads"
    BY <1>6 DEF claim_orphaned_orchestrations
  <2>2. CASE PassEnds
    <3>1. th' \in [Thread -> Local] /\ LocalOK'
      BY <1>1, <2>2, WalkStop DEF PassEnds
    <3> QED
      BY <2>1, <2>2, <3>1 DEF Typed, TypeOK, PassEnds
  <2>3. CASE ~PassEnds
    <3>1. PICK n, o : n = Least({m \in Slots : ~slot[m].busy}) /\ o = Least(Orphans)
      OBVIOUS
    <3>2. /\ {m \in Slots : ~slot[m].busy} # {} /\ Orphans # {}
          /\ th' = [th EXCEPT ![t] = [Idle EXCEPT !.pc = "attach", !.lane = n, !.orch = o]]
          /\ UNCHANGED server
      BY <1>6, <2>3, <3>1 DEF claim_orphaned_orchestrations
    <3>3. n \in Lanes /\ o \in Orchs
      <4>1. /\ {m \in Slots : ~slot[m].busy} \in SUBSET (Nat \ {0}) /\ Orphans \in SUBSET (Nat \ {0})
            /\ {m \in Slots : ~slot[m].busy} \subseteq Lanes /\ Orphans \subseteq Orchs
        BY PoolAssumption DEF Slots, Orphans
      <4>2. n \in {m \in Slots : ~slot[m].busy}
        BY <3>1, <3>2, <4>1, FirstOf
      <4>3. o \in Orphans
        BY <3>1, <3>2, <4>1, FirstOf
      <4> QED
        BY <4>1, <4>2, <4>3
    <3> DEFINE l == [Idle EXCEPT !.pc = "attach", !.lane = n, !.orch = o]
    <3>4. l \in Local /\ Fine(l)
      BY <3>3 DEF Idle, Local, Fine, Pc, Admitting, Starting
    <3>5. th' = [th EXCEPT ![t] = l]
      BY <3>2
    <3> HIDE DEF l
    <3>6. th' \in [Thread -> Local] /\ LocalOK'
      BY <1>1, <3>4, <3>5, Walk
    <3> QED
      BY <2>1, <3>2, <3>6 DEF Typed, TypeOK
  <2> QED
    BY <2>2, <2>3
<1>7. CASE Attach
  <2>1. /\ th[t].pc = "attach" /\ UNCHANGED <<orch, scene>>
        /\ slot' = [slot EXCEPT ![th[t].lane] = Holding(th[t].orch)]
        /\ entry' = ensure_active_entry_for_orchestration(th[t].lane, th[t].orch, entry)
        /\ Stop(t) /\ server' \in {"up", server}
    BY <1>7 DEF Attach, PassEnds
  <2> HIDE DEF t
  <2>2. th[t].orch \in Orchs /\ th[t].lane \in Lanes \cup {0}
    BY <1>2, <2>1 DEF Fine, Local
  <2>3. slot' \in [Lanes -> Slot] /\ entry' \in [Entries -> Entry]
    BY <2>1, <2>2, SlotWrite, EnsureWrite
  <2>4. th' \in [Thread -> Local] /\ LocalOK'
    BY <1>1, <2>1, WalkStop
  <2> QED
    BY <2>1, <2>3, <2>4 DEF Typed, TypeOK
<1> QED
  BY <1>3, <1>4, <1>5, <1>6, <1>7

(* Nothing runs on a server that is down.                                   *)
Down == server = "down" => \A t \in Thread : th[t] = Idle

(* Time, and the server.                                                    *)
LEMMA TypedServer ==
    ASSUME Typed, Down, (\E n \in Lanes : GraceEnds(n)) \/ begin_drain \/ end_drain \/ Crash \/ Boot
    PROVE  Typed'
<1>1. CASE \E n \in Lanes : GraceEnds(n)
  <2>1. PICK n \in Lanes : GraceEnds(n)
    BY <1>1
  <2>2. /\ UNCHANGED scene \/ Spend("slow")
        /\ slot' = [slot EXCEPT ![n].fresh = FALSE]
        /\ UNCHANGED <<orch, entry, th, server>>
    BY <2>1 DEF GraceEnds
  <2>3. slot' \in [Lanes -> Slot]
    BY <2>2, SlotWrite
  <2>4. LocalOK'
    BY <2>2 DEF Typed, LocalOK, Fine
  <2> QED
    BY <2>2, <2>3, <2>4, Spent DEF Typed, TypeOK, Events
<1>2. CASE begin_drain \/ end_drain
  <2>1. LocalOK'
    BY <1>2 DEF Typed, LocalOK, Fine, begin_drain, end_drain
  <2> QED
    BY <1>2, <2>1, Spent DEF Typed, TypeOK, Events, begin_drain, end_drain
<1>3. CASE Crash
  <2>1. th' = [t \in Thread |-> Idle]
    BY <1>3 DEF Crash
  <2>2. th' \in [Thread -> Local] /\ LocalOK'
    <3>1. LocalOK' <=> \A u \in Thread : Fine(th'[u])
      BY DEF LocalOK, Fine
    <3>2. \A u \in Thread : th'[u] = Idle
      BY <2>1
    <3> QED
      BY <2>1, <3>1, <3>2, IdleFine
  <2> QED
    BY <1>3, <2>2, Spent DEF Typed, TypeOK, Events, Crash
<1>4. CASE Boot
  <2> DEFINE l == [Idle EXCEPT !.pc = "leases"]
  <2>1. th' = [th EXCEPT ![sweep] = l]
    <3>1. th[sweep] = Idle
      BY <1>4, Threads DEF Boot, Down
    <3> QED
      BY <1>4, <3>1 DEF Boot
  <2>2. l \in Local /\ Fine(l)
    BY DEF Idle, Local, Fine, Pc, Admitting, Starting
  <2> HIDE DEF l
  <2>3. th' \in [Thread -> Local] /\ LocalOK'
    BY <2>1, <2>2, Walk, Threads
  <2> QED
    BY <1>4, <2>3 DEF Typed, TypeOK, Boot
<1> QED
  BY <1>1, <1>2, <1>3, <1>4

(* A server that is down runs nothing, after any step.                      *)
LEMMA DownKept ==
    ASSUME Typed, Down, Next
    PROVE  Down'
<1>1. Idle.pc = "idle"
  BY DEF Idle
<1>2. ASSUME NEW t \in Thread, th[t].pc # "idle", server' = server \/ server' = "up" PROVE Down'
  BY <1>1, <1>2 DEF Down
<1>3. CASE \E w \in Webs : orchestrate_ticket(w) \/ add_to_lane(w) \/ complete_orchestration(w)
  BY <1>3 DEF orchestrate_ticket, add_to_lane, complete_orchestration, Serving, Down
<1>4. CASE \E w \in Webs : Request(w) \/ abandon_claim(w)
  <2>1. PICK w \in Webs : Request(w) \/ abandon_claim(w)
    BY <1>4
  <2>2. th[web(w)].pc # "idle" /\ server' = server
    BY <2>1 DEF Request, abandon_claim, _reserve, Find, claim_orchestration_run, bind,
                schedule_orchestration, release, already_queued, Insert
  <2> QED
    BY <1>2, <2>2, Threads
<1>5. CASE \E t \in Thread : Call(t)
  <2>1. PICK t \in Thread : Call(t)
    BY <1>5
  <2>2. th[t].pc # "idle" /\ server' = server
    BY <2>1 DEF Call, claim_lane_slot, start_lane_head, dispatch_orchestration,
                _start_entry_work, release_slot, on_orchestration_complete, _hold_for_repair,
                SettleEntry, FreeLane
  <2> QED
    BY <1>2, <2>2
<1>6. CASE \E o \in Orchs : Drive(o)
  <2>1. PICK o \in Orchs : Drive(o)
    BY <1>6
  <2>2. th[drv(o)].pc # "idle" /\ server' = server
    BY <2>1 DEF Drive, start_orchestration_run, _finish_orchestration_run
  <2> QED
    BY <1>2, <2>2, Threads
<1>7. CASE settle_expired_orchestration_leases \/ Pass
  <2>1. th[sweep].pc # "idle" /\ (server' = server \/ server' = "up")
    BY <1>7 DEF settle_expired_orchestration_leases, Pass, _drive_repairing_entries, _drive_one_repair,
                _settle_finished_entries, reconcile_slots, Reclaim, reconcile_lanes,
                claim_orphaned_orchestrations, Attach, PassEnds
  <2> QED
    BY <1>2, <2>1, Threads
<1>8. CASE reconcile_once
  BY <1>8 DEF reconcile_once, Serving, Down
<1>9. CASE \E n \in Lanes : GraceEnds(n)
  BY <1>9 DEF GraceEnds, Down
<1>10. CASE begin_drain \/ end_drain \/ Boot
  BY <1>10 DEF begin_drain, end_drain, Boot, Down
<1>11. CASE Crash
  BY <1>11 DEF Crash, Down
<1> QED
  BY <1>3, <1>4, <1>5, <1>6, <1>7, <1>8, <1>9, <1>10, <1>11 DEF Next

-----------------------------------------------------------------------------

(* The types, with what makes them inductive.                               *)
TypeInv == Typed /\ Down

(* It holds at the start.                                                   *)
LEMMA TypeInit == Init => TypeInv
<1> SUFFICES ASSUME Init PROVE TypeInv
  OBVIOUS
<1>1. /\ slot = [n \in Lanes |-> Free] /\ Free \in Slot
      /\ orch \in [Orchs -> Orch] /\ entry \in [Entries -> Entry]
  BY PoolAssumption DEF Init, Free, Slot, Orch, Entry
<1>2. th = [t \in Thread |-> Idle] /\ server = "up" /\ scene \in Scenarios
  BY DEF Init
<1>3. th \in [Thread -> Local] /\ LocalOK
  BY <1>2, IdleFine DEF LocalOK
<1> QED
  BY <1>1, <1>2, <1>3, PoolAssumption DEF TypeInv, Typed, TypeOK, Down

(* Every step keeps it.                                                     *)
LEMMA TypeStep ==
    ASSUME TypeInv, [Next]_vars
    PROVE  TypeInv'
<1>1. Typed /\ Down
  BY DEF TypeInv
<1>2. CASE UNCHANGED vars
  BY <1>1, <1>2 DEF TypeInv, Typed, TypeOK, LocalOK, Fine, Down, vars
<1>3. CASE Next
  <2>1. Down'
    BY <1>1, <1>3, DownKept
  <2>2. Typed'
    <3>1. ASSUME NEW w \in Webs, orchestrate_ticket(w) \/ add_to_lane(w) \/ complete_orchestration(w)
          PROVE  Typed'
      BY <1>1, <3>1, TypedArrival
    <3>2. ASSUME NEW w \in Webs, Request(w) \/ abandon_claim(w) PROVE Typed'
      BY <1>1, <3>2, TypedClaim, TypedRequest DEF Request
    <3>3. ASSUME NEW t \in Thread, Call(t) PROVE Typed'
      BY <1>1, <3>3, TypedStartLane, TypedComplete DEF Call
    <3>4. ASSUME NEW o \in Orchs, Drive(o) PROVE Typed'
      BY <1>1, <3>4, TypedDrive
    <3>5. CASE reconcile_once \/ settle_expired_orchestration_leases \/ Pass
      BY <1>1, <3>5, TypedPassFirst, TypedPassLast DEF Pass
    <3>6. CASE (\E n \in Lanes : GraceEnds(n)) \/ begin_drain \/ end_drain \/ Crash \/ Boot
      BY <1>1, <3>6, TypedServer
    <3> QED
      BY <1>3, <3>1, <3>2, <3>3, <3>4, <3>5, <3>6 DEF Next
  <2> QED
    BY <2>1, <2>2 DEF TypeInv
<1> QED
  BY <1>2, <1>3

(* So it always holds.                                                      *)
LEMMA TypeAlways == Spec => []TypeInv
<1>1. TypeInv /\ [Next]_vars => TypeInv'
  BY TypeStep
<1> QED
  BY <1>1, TypeInit, PTL DEF Spec

(* Every variable stays in its domain, whatever happens: passes on a timer, *)
(* operators' completions and refused starts included.                      *)
THEOREM TypeCorrect == Spec => []TypeOK
<1>1. TypeInv => TypeOK
  BY DEF TypeInv, Typed
<1> QED
  BY <1>1, TypeAlways, PTL

(* Every thread but the one that runs the pass.                             *)
Workers == Thread \ {sweep}

(* An orchestration that has a row.                                         *)
Known(o) == o \in Orchs /\ orch[o].st # "none"

(* One whose row says it is blocked or over.                                *)
Ended(o) == o \in Orchs /\ orch[o].st \in {"blocked", "over"}

(* Nobody ends an orchestration from outside, and no start is refused after *)
(* its bind.                                                                *)
Quiet == scene.events["cancel"] = 0 /\ scene.events["refuse"] = 0

(* A server that is down runs nothing, one that is booting runs its pass    *)
(* only, and one that serves runs no pass.                                  *)
Alone ==
    /\ server = "down" => \A t \in Thread : th[t] = Idle
    /\ server = "booting" => \A t \in Workers : th[t] = Idle
    /\ Serving => th[sweep] = Idle

(* A free slot names nobody.                                                *)
Slotted == \A n \in Lanes : ~slot[n].busy => slot[n].occ = 0

(* An entry names an orchestration once it is started, and is settled only  *)
(* when that one has ended.                                                 *)
Recorded ==
    \A e \in Entries :
        /\ entry[e].st \in {"none", "queued"} => entry[e].orch = 0
        /\ entry[e].st \notin {"none", "queued"} => Known(entry[e].orch)
        /\ entry[e].st = "settled" => Ended(entry[e].orch)

(* What a thread is about to write about an orchestration is true of it: it *)
(* exists where it will be named, and has ended where it will be reported.  *)
Named(t) ==
    /\ th[t].pc \in {"bind", "start"} => Known(th[t].bound)
    /\ th[t].pc \in {"occupy", "attach"} => Known(th[t].orch)
    /\ th[t].pc = "done" => Ended(th[t].orch)
    /\ th[t].pc = "hold" => th[t].entry \in Entries /\ entry[th[t].entry].orch # 0
    /\ th[t].pc = "settle" /\ th[t].entry # 0 => Ended(entry[th[t].entry].orch)

(* A worker calls from no loop. An orchestration is completed by its        *)
(* driver, and the slot found for it is still its own when it is freed; a   *)
(* slot that is claimed and names nobody is as its holder left it, and the  *)
(* entry a start has taken is still waiting in that slot's line.            *)
Own(t) ==
    /\ th[t].back = "idle" /\ th[t].pc # "release"
    /\ th[t].pc \in {"done", "hold", "settle", "free"} => t = drv(th[t].orch)
    /\ th[t].pc \in {"settle", "free"} /\ th[t].lane # 0 => slot[th[t].lane].occ = th[t].orch
    /\ th[t].pc \in Admitting => slot[th[t].mine].busy /\ slot[th[t].mine].occ = 0
    /\ th[t].pc \in Starting => slot[th[t].lane].busy /\ slot[th[t].lane].occ = 0
    /\ th[t].pc \in {"launch", "occupy"} =>
          /\ th[t].entry \in Entries
          /\ entry[th[t].entry].st = "queued" /\ entry[th[t].entry].lane = th[t].lane

(* No two workers hold one slot.                                            *)
OneHolds == \A t, u \in Workers, n \in Lanes : Holds(t, n) /\ Holds(u, n) => t = u

(* The pass settles entries whose orchestrations have ended, and starts     *)
(* none of them; a slot that it read as naming nothing names nothing still  *)
(* when it is written.                                                      *)
Sweeping ==
    /\ th[sweep].pc \in Starting => slot[th[sweep].lane].busy
    /\ th[sweep].pc = "repairs" \/ th[sweep].back = "repairs" =>
          \A e \in th[sweep].todo : Ended(entry[e].orch)
    /\ th[sweep].back = "repairs" /\ th[sweep].pc \in {"launch", "occupy"} =>
          th[sweep].entry \notin th[sweep].todo
    /\ th[sweep].pc = "reclaim" => \A n \in th[sweep].ghosts : slot[n].occ = 0

(* The invariant of a server whose pass runs at boot only.                  *)
Calm ==
    /\ Quiet /\ Alone /\ Slotted /\ Recorded /\ OneHolds /\ Sweeping
    /\ (\A t \in Thread : Named(t)) /\ (\A t \in Workers : Own(t))

-----------------------------------------------------------------------------
(* What a worker's step leaves alone.                                       *)
Onward == \A o \in Orchs : /\ orch[o].st # "none" => orch'[o].st # "none"
                           /\ orch[o].st \in {"blocked", "over"} => orch'[o].st \in {"blocked", "over"}

(* What a driver that has just been scheduled looks like.                   *)
Fresh(l) == l.pc \in {"adopt", "drive"} /\ l.back = "idle"

(* A worker's step moves itself, and at most schedules drivers.             *)
Moves(t) ==
    /\ UNCHANGED <<server, scene.timer>>
    /\ \A u \in Thread \ {t} : th'[u] = th[u] \/ (u # sweep /\ Fresh(th'[u]))

(* A slot that a worker may write: it is free, or held by that worker, or   *)
(* it is about to free it.                                                  *)
Takes(t, n) == ~slot[n].busy \/ Holds(t, n) \/ (th[t].pc = "free" /\ th[t].lane = n)

(* A worker's step changes no slot but those.                               *)
TouchesSlots(t) ==
    \A n \in Lanes : (slot'[n].busy = slot[n].busy /\ slot'[n].occ = slot[n].occ) \/ Takes(t, n)

(* And no entry but a new one, the one it starts, or the one it holds or    *)
(* settles.                                                                 *)
TouchesEntries(t) ==
    \A e \in Entries :
        \/ entry'[e].st = entry[e].st /\ entry'[e].lane = entry[e].lane /\ entry'[e].orch = entry[e].orch
        \/ entry[e].st = "none"
        \/ /\ th[t].pc \in {"hold", "settle"} /\ e = th[t].entry /\ entry'[e].orch = entry[e].orch
        \/ th[t].pc = "occupy" /\ e = th[t].entry

(* What other workers know stays true: an orchestration is neither          *)
(* forgotten nor taken up again.                                            *)
LEMMA OthersNamed ==
    ASSUME TypeInv, Calm, NEW t \in Workers, NEW u \in Workers, u # t,
           Moves(t), TouchesEntries(t), Onward
    PROVE  Named(u)'
<1>1. th'[u] = th[u] \/ th'[u].pc \in {"adopt", "drive"}
  BY DEF Moves, Workers, Fresh
<1>2. CASE th'[u].pc \in {"adopt", "drive"}
  BY <1>2 DEF Named
<1>3. CASE th'[u] = th[u]
  <2>1. Named(u) /\ Own(t)
    BY DEF Calm, Workers
  <2>2. \A o : (Known(o) => o \in Orchs /\ orch'[o].st # "none")
               /\ (Ended(o) => o \in Orchs /\ orch'[o].st \in {"blocked", "over"})
    BY DEF Known, Ended, Onward
  <2>3. ASSUME NEW e \in Entries, entry[e].orch # 0 PROVE entry'[e].orch = entry[e].orch
    <3>1. entry[e].st # "none" /\ entry[e].st # "queued"
      BY <2>3 DEF Calm, Recorded
    <3>2. ~(th[t].pc = "occupy" /\ e = th[t].entry)
      BY <2>1, <3>1 DEF Own
    <3> QED
      BY <3>1, <3>2 DEF TouchesEntries
  <2>4. 0 \notin Orchs /\ th[u] \in Local
    BY PoolAssumption DEF TypeInv, Typed, TypeOK, Workers
  <2>5. th[u].entry # 0 => th[u].entry \in Entries
    BY <2>4 DEF Local
  <2>6. CASE th[u].pc = "settle" /\ th[u].entry # 0
    <3>1. Ended(entry[th[u].entry].orch)
      BY <2>1, <2>6 DEF Named
    <3>2. entry[th[u].entry].orch # 0
      BY <2>4, <3>1 DEF Ended
    <3>3. entry'[th[u].entry].orch = entry[th[u].entry].orch
      BY <2>3, <2>5, <2>6, <3>2
    <3> QED
      BY <1>3, <2>2, <2>6, <3>1, <3>3 DEF Named, Ended
  <2>7. CASE th[u].pc = "hold"
    BY <1>3, <2>1, <2>3, <2>7 DEF Named
  <2> QED
    BY <1>3, <2>1, <2>2, <2>6, <2>7 DEF Named, Known, Ended
<1> QED
  BY <1>1, <1>2, <1>3

(* And what they have claimed stays theirs.                                 *)
LEMMA OthersOwn ==
    ASSUME TypeInv, Calm, NEW t \in Workers, NEW u \in Workers, u # t,
           Moves(t), TouchesSlots(t), TouchesEntries(t)
    PROVE  Own(u)'
<1>1. th'[u] = th[u] \/ Fresh(th'[u])
  BY DEF Moves, Workers
<1>2. CASE Fresh(th'[u])
  BY <1>2 DEF Own, Fresh, Admitting, Starting
<1>3. CASE th'[u] = th[u]
  <2>1. Own(u) /\ Own(t) /\ th[u] \in Local /\ Fine(th[u]) /\ th[t] \in Local /\ Fine(th[t])
    BY DEF Calm, Workers, TypeInv, Typed, TypeOK, LocalOK
  <2>2. ASSUME NEW n \in Lanes, Holds(u, n) PROVE slot'[n].busy = slot[n].busy /\ slot'[n].occ = slot[n].occ
    <3>1. slot[n].busy /\ slot[n].occ = 0
      BY <2>1, <2>2 DEF Own, Holds
    <3>2. ~Holds(t, n)
      BY <2>2 DEF Calm, OneHolds
    <3>3. ~(th[t].pc = "free" /\ th[t].lane = n)
      <4>1. SUFFICES ASSUME th[t].pc = "free", th[t].lane = n PROVE FALSE
        OBVIOUS
      <4>2. n # 0 /\ 0 \notin Orchs
        BY PoolAssumption
      <4>3. slot[n].occ = th[t].orch /\ t = drv(th[t].orch)
        BY <2>1, <4>1, <4>2 DEF Own
      <4>4. th[t].orch \in Orchs
        BY <4>3, Threads DEF Workers
      <4> QED
        BY <3>1, <4>2, <4>3, <4>4
    <3> QED
      BY <3>1, <3>2, <3>3 DEF TouchesSlots, Takes
  <2>3. ASSUME th[u].pc \in {"settle", "free"}, th[u].lane # 0
        PROVE  slot'[th[u].lane].occ = th[u].orch
    <3>1. PICK n \in Lanes : n = th[u].lane
      BY <2>1, <2>3 DEF Local
    <3>2. slot[n].occ = th[u].orch /\ u = drv(th[u].orch)
      BY <2>1, <2>3, <3>1 DEF Own
    <3>3. th[u].orch \in Orchs /\ th[u].orch # 0
      BY <3>2, Threads, PoolAssumption DEF Workers
    <3>4. slot[n].busy
      BY <3>2, <3>3 DEF Calm, Slotted
    <3>5. ~Holds(t, n)
      BY <2>1, <3>2, <3>3 DEF Own, Holds
    <3>6. ~(th[t].pc = "free" /\ th[t].lane = n)
      <4>1. SUFFICES ASSUME th[t].pc = "free", th[t].lane = n PROVE FALSE
        OBVIOUS
      <4>2. n # 0
        BY PoolAssumption
      <4>3. slot[n].occ = th[t].orch /\ t = drv(th[t].orch)
        BY <2>1, <4>1, <4>2 DEF Own
      <4> QED
        BY <3>2, <4>3
    <3> QED
      BY <3>1, <3>2, <3>4, <3>5, <3>6 DEF TouchesSlots, Takes
  <2>4. ASSUME th[u].pc \in {"launch", "occupy"}
        PROVE  entry'[th[u].entry].st = "queued" /\ entry'[th[u].entry].lane = th[u].lane
    <3>1. PICK e \in Entries : e = th[u].entry /\ entry[e].st = "queued" /\ entry[e].lane = th[u].lane
      BY <2>1, <2>4 DEF Own
    <3>2. PICK n \in Lanes : n = th[u].lane /\ Holds(u, n)
      BY <2>1, <2>4 DEF Fine, Starting, Holds
    <3>3. ~Holds(t, n)
      BY <3>2 DEF Calm, OneHolds
    <3>4. ~(th[t].pc = "occupy" /\ e = th[t].entry)
      BY <2>1, <3>1, <3>2, <3>3 DEF Own, Holds, Starting
    <3>5. entry[e].orch = 0
      BY <3>1 DEF Calm, Recorded
    <3>6. ~(th[t].pc \in {"hold", "settle"} /\ e = th[t].entry)
      <4>1. Named(t) /\ e # 0 /\ 0 \notin Orchs
        BY PoolAssumption DEF Calm, Workers
      <4> QED
        BY <3>5, <4>1 DEF Named, Ended
    <3> QED
      BY <3>1, <3>4, <3>6 DEF TouchesEntries
  <2>5. ASSUME th[u].pc \in Admitting
        PROVE  slot'[th[u].mine].busy /\ slot'[th[u].mine].occ = 0
    <3>1. PICK n \in Lanes : n = th[u].mine /\ Holds(u, n)
      BY <2>1, <2>5 DEF Fine, Holds
    <3> QED
      BY <2>1, <2>2, <2>5, <3>1 DEF Own
  <2>6. ASSUME th[u].pc \in Starting
        PROVE  slot'[th[u].lane].busy /\ slot'[th[u].lane].occ = 0
    <3>1. PICK n \in Lanes : n = th[u].lane /\ Holds(u, n)
      BY <2>1, <2>6 DEF Fine, Holds
    <3> QED
      BY <2>1, <2>2, <2>6, <3>1 DEF Own
  <2> QED
    BY <1>3, <2>1, <2>3, <2>4, <2>5, <2>6 DEF Own
<1> QED
  BY <1>1, <1>2, <1>3

(* A thread gains a slot that was free, or keeps its own.                   *)
Gains(t) == \A n \in Lanes : Holds(t, n)' => Holds(t, n) \/ ~slot[n].busy

(* A worker that gains a slot gains one that nobody held.                   *)
LEMMA OneStill ==
    ASSUME TypeInv, Calm, NEW t \in Workers, Moves(t), Gains(t)
    PROVE  OneHolds'
<1>1. ASSUME NEW u \in Workers, u # t, NEW n \in Lanes, Holds(u, n)'
      PROVE  Holds(u, n) /\ slot[n].busy /\ ~Holds(t, n)
  <2>1. th'[u] = th[u] \/ Fresh(th'[u])
    BY <1>1 DEF Moves, Workers
  <2>2. Holds(u, n)
    BY <1>1, <2>1 DEF Holds, Fresh, Admitting, Starting
  <2>3. Own(u)
    BY DEF Calm
  <2> QED
    BY <1>1, <2>2, <2>3 DEF Own, Holds, Calm, OneHolds
<1>2. ASSUME NEW u \in Workers, NEW v \in Workers, NEW n \in Lanes, Holds(u, n)', Holds(v, n)', u # v
      PROVE  FALSE
  <2>1. CASE u = t
    BY <1>1, <1>2, <2>1 DEF Gains
  <2>2. CASE v = t
    BY <1>1, <1>2, <2>2 DEF Gains
  <2>3. CASE u # t /\ v # t
    BY <1>1, <1>2, <2>3 DEF Calm, OneHolds
  <2> QED
    BY <2>1, <2>2, <2>3
<1>3. \A u, v \in Workers, n \in Lanes : Holds(u, n)' /\ Holds(v, n)' => u = v
  BY <1>2
<1> QED
  BY <1>3 DEF OneHolds, Workers

(* A step that writes no slot.                                              *)
LEMMA SlotsSame ==
    ASSUME Calm, NEW t, UNCHANGED slot
    PROVE  TouchesSlots(t) /\ Slotted'
BY DEF Calm, TouchesSlots, Slotted

(* A step that writes no entry.                                             *)
LEMMA EntriesSame ==
    ASSUME Calm, NEW t, UNCHANGED entry, Onward
    PROVE  TouchesEntries(t) /\ Recorded'
<1>1. Recorded
  BY DEF Calm
<1>2. TouchesEntries(t)
  BY DEF TouchesEntries
<1>3. Recorded'
  BY <1>1 DEF Recorded, Known, Ended, Onward
<1> QED
  BY <1>2, <1>3

(* A step that writes no orchestration.                                     *)
LEMMA OrchSame ==
    ASSUME UNCHANGED orch
    PROVE  Onward
BY DEF Onward

(* A new orchestration.                                                     *)
LEMMA OrchNew ==
    ASSUME TypeInv, NEW o \in Orchs, orch[o].st = "none", NEW x \in {"queued", "running"}, NEW k,
           orch' = [orch EXCEPT ![o] = [st |-> x, tkt |-> k]]
    PROVE  Onward /\ Known(o)'
<1>1. orch \in [Orchs -> Orch]
  BY DEF TypeInv, Typed, TypeOK
<1>2. orch'[o].st = x /\ \A p \in Orchs \ {o} : orch'[p] = orch[p]
  BY <1>1
<1> QED
  BY <1>2 DEF Onward, Known

(* A claim: the row was free.                                               *)
LEMMA SlotClaim ==
    ASSUME TypeInv, Calm, NEW t, NEW n, _claim_slot_row(t, n)
    PROVE  /\ TouchesSlots(t) /\ Slotted'
           /\ n \in Lanes => slot'[n].busy /\ slot'[n].occ = 0
<1>1. ~slot[n].busy /\ slot' = [slot EXCEPT ![n] = Claimed]
  BY DEF _claim_slot_row
<1>2. slot \in [Lanes -> Slot] /\ Slotted
  BY DEF TypeInv, Typed, TypeOK, Calm
<1>3. Claimed.busy /\ Claimed.occ = 0
  BY DEF Claimed
<1>4. n \in Lanes => slot'[n] = Claimed
  BY <1>1, <1>2
<1>5. \A m \in Lanes : m # n => slot'[m] = slot[m]
  BY <1>1, <1>2
<1> QED
  BY <1>1, <1>2, <1>3, <1>4, <1>5 DEF TouchesSlots, Takes, Slotted

(* A slot is freed by one that may.                                         *)
LEMMA SlotFreed ==
    ASSUME TypeInv, Calm, NEW t, NEW n, slot' = [slot EXCEPT ![n] = Free],
           n \in Lanes => Takes(t, n)
    PROVE  TouchesSlots(t) /\ Slotted'
<1>1. slot \in [Lanes -> Slot] /\ Slotted
  BY DEF TypeInv, Typed, TypeOK, Calm
<1>2. Free.busy = FALSE /\ Free.occ = 0
  BY DEF Free
<1>3. n \in Lanes => slot'[n] = Free
  BY <1>1
<1>4. \A m \in Lanes : m # n => slot'[m] = slot[m]
  BY <1>1
<1> QED
  BY <1>1, <1>2, <1>3, <1>4 DEF TouchesSlots, Slotted

(* A claimed slot is given its occupant.                                    *)
LEMMA SlotNamed ==
    ASSUME TypeInv, Calm, NEW t, NEW n \in Lanes, NEW o \in Orchs \cup {0},
           Holds(t, n), slot[n].busy, slot' = [slot EXCEPT ![n].occ = o, ![n].fresh = FALSE]
    PROVE  TouchesSlots(t) /\ Slotted'
<1>1. slot \in [Lanes -> Slot] /\ Slotted
  BY DEF TypeInv, Typed, TypeOK, Calm
<1>2. slot' = [slot EXCEPT ![n] = [slot[n] EXCEPT !.occ = o, !.fresh = FALSE]]
  BY <1>1
<1>3. slot'[n].busy
  BY <1>1, <1>2 DEF Slot
<1>4. \A m \in Lanes : m # n => slot'[m] = slot[m]
  BY <1>1, <1>2
<1> QED
  BY <1>1, <1>3, <1>4 DEF TouchesSlots, Takes, Slotted

(* An orchestration is given its entry.                                     *)
LEMMA EntryEnsured ==
    ASSUME TypeInv, Calm, NEW t, NEW n, NEW o, Known(o), Onward,
           EntriesOf(o) # {} \/ NewEntry # 0,
           entry' = ensure_active_entry_for_orchestration(n, o, entry)
    PROVE  TouchesEntries(t) /\ Recorded'
<1>1. CASE entry' = entry
  BY <1>1, EntriesSame
<1>2. CASE entry' # entry
  <2>1. PICK e \in Entries : e = NewEntry /\ entry[e].st = "none"
    BY <1>2, Found DEF ensure_active_entry_for_orchestration
  <2>2. entry' = [entry EXCEPT ![e] = [st |-> "active", tkt |-> orch[o].tkt, lane |-> n,
                                       orch |-> o, tries |-> 0]]
    BY <1>2, <2>1 DEF ensure_active_entry_for_orchestration
  <2>3. entry \in [Entries -> Entry] /\ Recorded
    BY DEF TypeInv, Typed, TypeOK, Calm
  <2>4. entry'[e].st = "active" /\ entry'[e].orch = o
    BY <2>2, <2>3
  <2>5. \A f \in Entries : f # e => entry'[f] = entry[f]
    BY <2>2, <2>3
  <2>6. Known(o)' /\ \A p : (Known(p) => Known(p)') /\ (Ended(p) => Ended(p)')
    BY DEF Known, Ended, Onward
  <2>7. TouchesEntries(t)
    BY <2>1, <2>5 DEF TouchesEntries
  <2>8. Recorded'
    BY <2>3, <2>4, <2>5, <2>6 DEF Recorded, Known, Ended
  <2> QED
    BY <2>7, <2>8
<1> QED
  BY <1>1, <1>2

-----------------------------------------------------------------------------
(* A worker's step that keeps its part keeps all of it.                     *)
Kept(t) ==
    /\ Moves(t) /\ TouchesSlots(t) /\ TouchesEntries(t) /\ Onward /\ Gains(t)
    /\ Slotted' /\ Recorded' /\ Quiet' /\ Own(t)' /\ Named(t)'

(* A worker's step that writes only what it may keeps the invariant.        *)
LEMMA WorkerStep ==
    ASSUME TypeInv, Calm, Serving, NEW t \in Workers, Kept(t)
    PROVE  Calm'
<1>1. Moves(t) /\ TouchesSlots(t) /\ TouchesEntries(t) /\ Onward /\ Gains(t)
  BY DEF Kept
<1>2. \A u \in Workers : Own(u)'
  BY <1>1, OthersOwn DEF Kept
<1>3. \A u \in Workers : Named(u)'
  BY <1>1, OthersNamed DEF Kept
<1>4. OneHolds'
  BY <1>1, OneStill
<1>5. th'[sweep] = Idle /\ server' = server
  BY <1>1, Threads DEF Moves, Workers, Calm, Alone
<1>6. Named(sweep)' /\ Sweeping'
  <2>1. th'[sweep].pc = "idle" /\ th'[sweep].back = "idle"
    BY <1>5 DEF Idle
  <2>2. Named(sweep)'
    BY <2>1 DEF Named
  <2>3. Sweeping'
    BY <2>1 DEF Sweeping, Starting
  <2> QED
    BY <2>2, <2>3
<1>7. Alone'
  BY <1>5 DEF Alone, Serving
<1>8. \A u \in Thread : Named(u)'
  BY <1>3, <1>6 DEF Workers
<1>9. Quiet' /\ Slotted' /\ Recorded'
  BY DEF Kept
<1>10. (\A u \in Thread : Named(u)') /\ (\A u \in Workers : Own(u)')
  BY <1>2, <1>8
<1> QED
  BY <1>4, <1>6, <1>7, <1>9, <1>10 DEF Calm, Workers

(* Who works, works on a server that serves, while the pass rests.          *)
LEMMA AtWork ==
    ASSUME TypeInv, Calm, NEW t \in Workers, th[t].pc # "idle"
    PROVE  /\ Serving /\ th[sweep] = Idle /\ Own(t) /\ Named(t) /\ Recorded /\ Slotted
           /\ th[t] \in Local /\ Fine(th[t]) /\ th \in [Thread -> Local] /\ t \in Thread
<1>1. Idle.pc = "idle"
  BY DEF Idle
<1>2. server \in {"up", "draining", "down", "booting"}
  BY DEF TypeInv, Typed, TypeOK
<1>3. Serving /\ th[sweep] = Idle
  BY <1>1, <1>2 DEF Calm, Alone, Serving, Workers
<1>4. th[t] \in Local /\ Fine(th[t]) /\ th \in [Thread -> Local] /\ t \in Thread
  BY DEF TypeInv, Typed, TypeOK, LocalOK, Workers
<1> QED
  BY <1>3, <1>4 DEF Calm

(* The scene stays quiet.                                                   *)
LEMMA StillQuiet ==
    ASSUME TypeInv, Calm, UNCHANGED scene \/ \E what \in Events \ {"cancel", "refuse"} : Spend(what)
    PROVE  Quiet' /\ scene'.timer = scene.timer
<1>1. CASE UNCHANGED scene
  BY <1>1 DEF Calm, Quiet
<1>2. CASE \E what \in Events \ {"cancel", "refuse"} : Spend(what)
  <2>1. PICK what \in Events \ {"cancel", "refuse"} : Spend(what)
    BY <1>2
  <2>2. scene'.timer = scene.timer /\ \A x \in Events \ {what} : scene'.events[x] = scene.events[x]
    BY <2>1, Spent DEF TypeInv
  <2>3. "cancel" \in Events \ {what} /\ "refuse" \in Events \ {what}
    BY <2>1 DEF Events
  <2> QED
    BY <2>2, <2>3 DEF Calm, Quiet
<1> QED
  BY <1>1, <1>2

(* A step that moves one thread.                                            *)
LEMMA OneMoves ==
    ASSUME TypeInv, NEW t \in Thread, NEW l, th' = [th EXCEPT ![t] = l],
           UNCHANGED <<server, scene.timer>>
    PROVE  Moves(t) /\ th'[t] = l
BY DEF Moves, TypeInv, Typed, TypeOK

(* A worker at rest, or at a place where it has nothing to lose.            *)
LEMMA AtEase ==
    ASSUME NEW t \in Workers, th'[t].back = "idle",
           th'[t].pc \in {"idle", "reserve", "dedupe", "insert", "take", "adopt", "drive"}
    PROVE  Own(t)' /\ Named(t)' /\ Gains(t)
BY DEF Own, Named, Gains, Holds, Admitting, Starting

(* A thread at rest owes nobody an answer.                                  *)
LEMMA IdleFields == Idle.back = "idle" /\ Idle.pc = "idle"
BY DEF Idle

(* A request's thread is a worker.                                          *)
LEMMA WebWorks == \A w \in Webs : web(w) \in Workers
BY Threads DEF Workers

(* So is a driver.                                                          *)
LEMMA DriverWorks == \A o \in Orchs : drv(o) \in Workers
BY Threads DEF Workers

-----------------------------------------------------------------------------
(* A request arrives.                                                       *)
LEMMA CalmArrival ==
    ASSUME TypeInv, Calm, NEW w \in Webs, orchestrate_ticket(w) \/ add_to_lane(w)
    PROVE  Calm'
<1> DEFINE t == web(w)
<1>1. t \in Workers /\ t \in Thread
  BY WebWorks DEF Workers
<1>2. UNCHANGED <<slot, orch, entry, server>> /\ Serving /\ (Spend("start") \/ Spend("add"))
  BY DEF orchestrate_ticket, add_to_lane
<1>3. PICK l : th' = [th EXCEPT ![t] = l] /\ l.back = "idle" /\ l.pc \in {"reserve", "dedupe"}
  <2>1. CASE orchestrate_ticket(w)
    <3>1. PICK k : th' = [th EXCEPT ![t] = [Idle EXCEPT !.pc = "reserve", !.tkt = k]]
      BY <2>1 DEF orchestrate_ticket
    <3>2. [Idle EXCEPT !.pc = "reserve", !.tkt = k].pc \in {"reserve", "dedupe"} /\ [Idle EXCEPT !.pc = "reserve", !.tkt = k].back = "idle"
      BY DEF Idle
    <3> QED
      BY <3>1, <3>2
  <2>2. CASE add_to_lane(w)
    <3>1. PICK k, n : th' = [th EXCEPT ![t] = [Idle EXCEPT !.pc = "dedupe", !.tkt = k, !.lane = n]]
      BY <2>2 DEF add_to_lane
    <3>2. [Idle EXCEPT !.pc = "dedupe", !.tkt = k, !.lane = n].pc \in {"reserve", "dedupe"} /\ [Idle EXCEPT !.pc = "dedupe", !.tkt = k, !.lane = n].back = "idle"
      BY DEF Idle
    <3> QED
      BY <3>1, <3>2
  <2> QED
    BY <2>1, <2>2
<1> HIDE DEF t
<1>4. Quiet' /\ scene'.timer = scene.timer
  BY <1>2, StillQuiet DEF Events
<1>5. Moves(t) /\ th'[t] = l
  BY <1>1, <1>2, <1>3, <1>4, OneMoves
<1>6. Own(t)' /\ Named(t)' /\ Gains(t)
  BY <1>1, <1>3, <1>5, AtEase
<1>7. Onward
  BY <1>2, OrchSame
<1>8. TouchesSlots(t) /\ Slotted' /\ TouchesEntries(t) /\ Recorded'
  BY <1>2, <1>7, SlotsSame, EntriesSame
<1> QED
  BY <1>1, <1>2, <1>4, <1>5, <1>6, <1>7, <1>8, WorkerStep DEF Kept

(* It takes a slot, finds or makes its orchestration, and binds it.         *)
LEMMA CalmClaim ==
    ASSUME TypeInv, Calm, NEW w \in Webs,
           _reserve(w) \/ Find(w) \/ claim_orchestration_run(w) \/ bind(w)
    PROVE  Calm'
<1> DEFINE t == web(w)
<1>1. t \in Workers /\ t \in Thread
  BY WebWorks DEF Workers
<1>2. th[t].pc # "idle" /\ UNCHANGED <<server, scene>>
  BY DEF _reserve, Find, claim_orchestration_run, bind
<1>3. _reserve(w) => /\ th[t].pc = "reserve" /\ UNCHANGED <<orch, entry>>
                     /\ \/ \E n \in Slots : /\ _claim_slot_row(t, n)
                                            /\ th' = [th EXCEPT ![t].pc = "find", ![t].mine = n]
                        \/ \E n \in Slots : /\ th' = [th EXCEPT ![t].pc = "dedupe", ![t].lane = n]
                                            /\ UNCHANGED slot
  BY DEF _reserve
<1>4. Find(w) => LET active == get_active_orchestration_run(th[t].tkt) IN
                 /\ th[t].pc = "find" /\ UNCHANGED <<slot, orch, entry>>
                 /\ th' = [th EXCEPT ![t].pc = IF active = 0 THEN "claim" ELSE "bind", ![t].bound = active]
  BY DEF Find
<1>5. claim_orchestration_run(w) =>
          /\ th[t].pc = "claim" /\ NewOrch # 0 /\ UNCHANGED <<slot, entry>>
          /\ orch' = [orch EXCEPT ![NewOrch] = [st |-> "queued", tkt |-> th[t].tkt]]
          /\ th' = [th EXCEPT ![t].pc = "bind", ![t].bound = NewOrch]
  BY DEF claim_orchestration_run
<1>6. bind(w) => /\ th[t].pc = "bind" /\ UNCHANGED orch
                 /\ EntriesOf(th[t].bound) # {} \/ NewEntry # 0
                 /\ slot' = [slot EXCEPT ![th[t].mine].occ = th[t].bound, ![th[t].mine].fresh = FALSE]
                 /\ entry' = ensure_active_entry_for_orchestration(th[t].mine, th[t].bound, entry)
                 /\ Goto(t, "start")
  BY DEF bind
<1> HIDE DEF t
<1>7. /\ Serving /\ th[sweep] = Idle /\ Own(t) /\ Named(t) /\ Recorded /\ Slotted
      /\ th[t] \in Local /\ Fine(th[t]) /\ th \in [Thread -> Local]
  BY <1>1, <1>2, AtWork
<1>8. Quiet' /\ UNCHANGED <<server, scene.timer>>
  BY <1>2, StillQuiet
<1>9. CASE _reserve(w)
  <2>1. th[t].pc = "reserve" /\ Onward /\ TouchesEntries(t) /\ Recorded'
    BY <1>3, <1>9, OrchSame, EntriesSame
  <2>2. CASE \E n \in Slots : /\ _claim_slot_row(t, n)
                              /\ th' = [th EXCEPT ![t].pc = "find", ![t].mine = n]
    <3>1. PICK n \in Slots : /\ _claim_slot_row(t, n)
                             /\ th' = [th EXCEPT ![t].pc = "find", ![t].mine = n]
      BY <2>2
    <3>2. n \in Lanes /\ ~slot[n].busy
      BY <3>1 DEF Slots, _claim_slot_row
    <3>3. TouchesSlots(t) /\ Slotted' /\ slot'[n].busy /\ slot'[n].occ = 0
      BY <3>1, <3>2, SlotClaim
    <3>4. th'[t].pc = "find" /\ th'[t].mine = n /\ th'[t].back = "idle"
      BY <1>1, <1>7, <3>1 DEF Own, Local
    <3>5. Moves(t)
      BY <1>7, <1>8, <3>1 DEF Moves
    <3>6. Own(t)' /\ Named(t)'
      BY <3>3, <3>4 DEF Own, Named, Starting
    <3>7. Gains(t)
      BY <3>2, <3>4 DEF Gains, Holds, Starting
    <3> QED
      BY <1>1, <1>7, <1>8, <2>1, <3>3, <3>5, <3>6, <3>7, WorkerStep DEF Kept
  <2>3. CASE \E n \in Slots : /\ th' = [th EXCEPT ![t].pc = "dedupe", ![t].lane = n]
                              /\ UNCHANGED slot
    <3>1. PICK n \in Slots : /\ th' = [th EXCEPT ![t].pc = "dedupe", ![t].lane = n]
                             /\ UNCHANGED slot
      BY <2>3
    <3>2. th'[t].pc = "dedupe" /\ th'[t].back = "idle"
      BY <1>1, <1>7, <3>1 DEF Own, Local
    <3>3. Own(t)' /\ Named(t)' /\ Gains(t)
      BY <1>1, <3>2, AtEase
    <3>4. Moves(t) /\ TouchesSlots(t) /\ Slotted'
      BY <1>7, <1>8, <3>1, SlotsSame DEF Moves
    <3> QED
      BY <1>1, <1>7, <1>8, <2>1, <3>3, <3>4, WorkerStep DEF Kept
  <2> QED
    BY <1>3, <1>9, <2>2, <2>3
<1>10. CASE Find(w)
  <2>1. PICK a : a = get_active_orchestration_run(th[t].tkt)
    OBVIOUS
  <2>2. /\ th[t].pc = "find" /\ UNCHANGED <<slot, orch, entry>>
        /\ th' = [th EXCEPT ![t].pc = IF a = 0 THEN "claim" ELSE "bind", ![t].bound = a]
    BY <1>4, <1>10, <2>1
  <2>3. a # 0 => Known(a)
    BY <2>1, Found DEF Known, Live, LIVE_ORCHESTRATION_STATUSES
  <2>4. /\ th'[t].pc = IF a = 0 THEN "claim" ELSE "bind"
        /\ th'[t].bound = a /\ th'[t].mine = th[t].mine /\ th'[t].back = "idle"
    BY <1>1, <1>7, <2>2 DEF Own, Local
  <2>5. Onward /\ Moves(t) /\ TouchesSlots(t) /\ Slotted' /\ TouchesEntries(t) /\ Recorded'
    BY <1>7, <1>8, <2>2, OrchSame, SlotsSame, EntriesSame DEF Moves
  <2>6. slot[th[t].mine].busy /\ slot[th[t].mine].occ = 0
    BY <1>7, <2>2 DEF Own, Admitting
  <2>7. Own(t)' /\ Named(t)'
    BY <2>2, <2>3, <2>4, <2>6 DEF Own, Named, Starting, Known
  <2>8. Gains(t)
    BY <2>2, <2>4 DEF Gains, Holds, Starting, Admitting
  <2> QED
    BY <1>1, <1>7, <1>8, <2>5, <2>7, <2>8, WorkerStep DEF Kept
<1>11. CASE claim_orchestration_run(w)
  <2>1. PICK a : a = NewOrch
    OBVIOUS
  <2>2. /\ th[t].pc = "claim" /\ a # 0 /\ UNCHANGED <<slot, entry>>
        /\ orch' = [orch EXCEPT ![a] = [st |-> "queued", tkt |-> th[t].tkt]]
        /\ th' = [th EXCEPT ![t].pc = "bind", ![t].bound = a]
    BY <1>5, <1>11, <2>1
  <2>3. a \in Orchs /\ orch[a].st = "none"
    BY <2>1, <2>2, Found
  <2>4. Onward /\ Known(a)'
    BY <2>2, <2>3, OrchNew
  <2>5. th'[t].pc = "bind" /\ th'[t].bound = a /\ th'[t].mine = th[t].mine /\ th'[t].back = "idle"
    BY <1>1, <1>7, <2>2 DEF Own, Local
  <2>6. Moves(t) /\ TouchesSlots(t) /\ Slotted' /\ TouchesEntries(t) /\ Recorded'
    BY <1>7, <1>8, <2>2, <2>4, SlotsSame, EntriesSame DEF Moves
  <2>7. slot[th[t].mine].busy /\ slot[th[t].mine].occ = 0
    BY <1>7, <2>2 DEF Own, Admitting
  <2>8. Own(t)' /\ Named(t)'
    BY <2>2, <2>4, <2>5, <2>7 DEF Own, Named, Starting, Known
  <2>9. Gains(t)
    BY <2>2, <2>5 DEF Gains, Holds, Starting, Admitting
  <2> QED
    BY <1>1, <1>7, <1>8, <2>4, <2>6, <2>8, <2>9, WorkerStep DEF Kept
<1>12. CASE bind(w)
  <2>1. PICK n, o : n = th[t].mine /\ o = th[t].bound
    OBVIOUS
  <2>2. /\ th[t].pc = "bind" /\ UNCHANGED orch /\ (EntriesOf(o) # {} \/ NewEntry # 0)
        /\ slot' = [slot EXCEPT ![n].occ = o, ![n].fresh = FALSE]
        /\ entry' = ensure_active_entry_for_orchestration(n, o, entry)
        /\ Goto(t, "start")
    BY <1>6, <1>12, <2>1
  <2>3. n \in Lanes /\ o \in Orchs /\ Known(o) /\ Holds(t, n) /\ slot[n].busy
    BY <1>7, <2>1, <2>2 DEF Fine, Admitting, Holds, Own, Named
  <2>4. th'[t].pc = "start" /\ th'[t].bound = o /\ th'[t].back = "idle"
    BY <1>1, <1>7, <2>1, <2>2 DEF Own, Local, Goto
  <2>5. Onward
    BY <2>2, OrchSame
  <2>6. TouchesSlots(t) /\ Slotted' /\ TouchesEntries(t) /\ Recorded'
    BY <2>2, <2>3, <2>5, SlotNamed, EntryEnsured
  <2>7. Moves(t)
    BY <1>7, <1>8, <2>2 DEF Moves, Goto
  <2>8. Known(o)'
    BY <2>2, <2>3 DEF Known
  <2>9. Own(t)' /\ Named(t)'
    BY <2>4, <2>8 DEF Own, Named, Starting, Admitting, Known
  <2>10. Gains(t)
    BY <2>4 DEF Gains, Holds, Starting, Admitting
  <2> QED
    BY <1>1, <1>7, <1>8, <2>5, <2>6, <2>7, <2>9, <2>10, WorkerStep DEF Kept
<1> QED
  BY <1>9, <1>10, <1>11, <1>12

(* Scheduling moves nobody but a driver, which begins afresh.               *)
LEMMA ScheduledMoves ==
    ASSUME TypeInv, NEW t \in Workers, NEW o \in Orchs, NEW l,
           th' = [Scheduled(o) EXCEPT ![t] = l], UNCHANGED <<server, scene.timer>>
    PROVE  Moves(t) /\ th'[t] = l
<1>1. th \in [Thread -> Local] /\ drv(o) \in Thread /\ drv(o) # sweep
  BY Threads DEF TypeInv, Typed, TypeOK
<1> DEFINE a == [Idle EXCEPT !.pc = "adopt", !.orch = o]
<1>2. Fresh(a)
  BY DEF Fresh, Idle
<1>3. Scheduled(o) = th \/ Scheduled(o) = [th EXCEPT ![drv(o)] = a]
  BY DEF Scheduled
<1> HIDE DEF a
<1> QED
  BY <1>1, <1>2, <1>3 DEF Moves, Workers

(* It starts its ticket, or waits in a lane.                                *)
LEMMA CalmRequest ==
    ASSUME TypeInv, Calm, NEW w \in Webs,
           schedule_orchestration(w) \/ release(w) \/ already_queued(w) \/ Insert(w)
    PROVE  Calm'
<1> DEFINE t == web(w)
<1>1. t \in Workers /\ t \in Thread
  BY WebWorks DEF Workers
<1>2. th[t].pc # "idle" /\ UNCHANGED <<server, scene>>
  BY DEF schedule_orchestration, release, already_queued, Insert
<1>3. schedule_orchestration(w) => /\ th[t].pc = "start" /\ UNCHANGED <<slot, orch, entry>>
                                   /\ th' = [Scheduled(th[t].bound) EXCEPT ![t] = Idle]
  BY DEF schedule_orchestration
<1>4. release(w) => th[t].pc = "release"
  BY DEF release
<1>5. already_queued(w) => /\ th[t].pc = "dedupe" /\ UNCHANGED <<slot, orch, entry>>
                           /\ Stop(t) \/ Goto(t, "insert")
  BY DEF already_queued
<1>6. Insert(w) => /\ th[t].pc = "insert" /\ NewEntry # 0 /\ UNCHANGED <<slot, orch>> /\ Goto(t, "take")
                   /\ entry' = [entry EXCEPT ![NewEntry] = [st |-> "queued", tkt |-> th[t].tkt,
                                             lane |-> th[t].lane, orch |-> 0, tries |-> 0]]
  BY DEF Insert
<1> HIDE DEF t
<1>7. /\ Serving /\ th[sweep] = Idle /\ Own(t) /\ Named(t) /\ Recorded /\ Slotted
      /\ th[t] \in Local /\ Fine(th[t]) /\ th \in [Thread -> Local]
  BY <1>1, <1>2, AtWork
<1>8. Quiet' /\ UNCHANGED <<server, scene.timer>>
  BY <1>2, StillQuiet
<1>9. CASE schedule_orchestration(w)
  <2>1. PICK o : o = th[t].bound
    OBVIOUS
  <2>2. /\ th[t].pc = "start" /\ UNCHANGED <<slot, orch, entry>>
        /\ th' = [Scheduled(o) EXCEPT ![t] = Idle]
    BY <1>3, <1>9, <2>1
  <2>3. o \in Orchs
    BY <1>7, <2>1, <2>2 DEF Fine
  <2>4. Moves(t) /\ th'[t] = Idle
    BY <1>1, <1>8, <2>2, <2>3, ScheduledMoves
  <2>5. Own(t)' /\ Named(t)' /\ Gains(t)
    BY <1>1, <2>4, AtEase, IdleFields
  <2>6. Onward /\ TouchesSlots(t) /\ Slotted' /\ TouchesEntries(t) /\ Recorded'
    BY <2>2, OrchSame, SlotsSame, EntriesSame
  <2> QED
    BY <1>1, <1>7, <1>8, <2>4, <2>5, <2>6, WorkerStep DEF Kept
<1>10. CASE release(w)
  BY <1>4, <1>7, <1>10 DEF Own
<1>11. CASE already_queued(w)
  <2>1. th'[t].pc \in {"idle", "insert"} /\ th'[t].back = "idle" /\ Moves(t)
    BY <1>1, <1>5, <1>7, <1>8, <1>11, IdleFields DEF Own, Local, Stop, Goto, Moves
  <2>2. Own(t)' /\ Named(t)' /\ Gains(t)
    BY <1>1, <2>1, AtEase
  <2>3. Onward /\ TouchesSlots(t) /\ Slotted' /\ TouchesEntries(t) /\ Recorded'
    BY <1>5, <1>11, OrchSame, SlotsSame, EntriesSame
  <2> QED
    BY <1>1, <1>7, <1>8, <2>1, <2>2, <2>3, WorkerStep DEF Kept
<1>12. CASE Insert(w)
  <2>1. PICK e, r : e = NewEntry /\ r = [st |-> "queued", tkt |-> th[t].tkt, lane |-> th[t].lane,
                                         orch |-> 0, tries |-> 0]
    OBVIOUS
  <2>2. /\ e # 0 /\ UNCHANGED <<slot, orch>> /\ Goto(t, "take") /\ entry' = [entry EXCEPT ![e] = r]
    BY <1>6, <1>12, <2>1
  <2>3. e \in Entries /\ entry[e].st = "none" /\ r.st = "queued" /\ r.orch = 0
    BY <2>1, <2>2, Found
  <2>4. entry \in [Entries -> Entry]
    BY DEF TypeInv, Typed, TypeOK
  <2>5. entry'[e] = r /\ \A f \in Entries : f # e => entry'[f] = entry[f]
    BY <2>2, <2>3, <2>4
  <2>6. Onward /\ TouchesSlots(t) /\ Slotted'
    BY <2>2, OrchSame, SlotsSame
  <2>7. TouchesEntries(t)
    BY <2>3, <2>5 DEF TouchesEntries
  <2>8. Recorded'
    BY <1>7, <2>2, <2>3, <2>5 DEF Recorded, Known, Ended
  <2>9. th'[t].pc = "take" /\ th'[t].back = "idle" /\ Moves(t)
    BY <1>1, <1>7, <1>8, <2>2 DEF Own, Local, Goto, Moves
  <2>10. Own(t)' /\ Named(t)' /\ Gains(t)
    BY <1>1, <2>9, AtEase
  <2> QED
    BY <1>1, <1>7, <1>8, <2>6, <2>7, <2>8, <2>9, <2>10, WorkerStep DEF Kept
<1> QED
  BY <1>9, <1>10, <1>11, <1>12

-----------------------------------------------------------------------------
(* A worker returns to rest.                                                *)
LEMMA Rests ==
    ASSUME TypeInv, NEW t \in Workers, Own(t), Return(t), UNCHANGED <<server, scene.timer>>
    PROVE  Moves(t) /\ Own(t)' /\ Named(t)' /\ Gains(t)
<1>1. th' = [th EXCEPT ![t] = Idle]
  BY DEF Return, Own
<1>2. Moves(t) /\ th'[t] = Idle
  BY <1>1, OneMoves DEF Workers
<1> QED
  BY <1>2, AtEase, IdleFields

(* A lane starts its head.                                                  *)
LEMMA CalmStartLane ==
    ASSUME TypeInv, Calm, NEW t \in Workers,
           \/ claim_lane_slot(t) \/ start_lane_head(t) \/ dispatch_orchestration(t)
           \/ _start_entry_work(t) \/ release_slot(t)
    PROVE  Calm'
<1>1. t \in Thread
  BY DEF Workers
<1>2. th[t].pc # "idle" /\ UNCHANGED <<server, scene>>
  BY DEF claim_lane_slot, start_lane_head, dispatch_orchestration, _start_entry_work, release_slot
<1>7. /\ Serving /\ th[sweep] = Idle /\ Own(t) /\ Named(t) /\ Recorded /\ Slotted
      /\ th[t] \in Local /\ Fine(th[t]) /\ th \in [Thread -> Local]
  BY <1>2, AtWork
<1>8. Quiet' /\ UNCHANGED <<server, scene.timer>>
  BY <1>2, StillQuiet
<1>9. CASE claim_lane_slot(t)
  <2>1. th[t].pc = "take" /\ UNCHANGED <<orch, entry>>
    BY <1>9 DEF claim_lane_slot
  <2>2. Onward /\ TouchesEntries(t) /\ Recorded'
    BY <2>1, OrchSame, EntriesSame
  <2>3. CASE _claim_slot_row(t, th[t].lane) /\ Goto(t, "head")
    <3>1. PICK n \in Lanes : n = th[t].lane
      BY <1>7, <2>1 DEF Fine
    <3>2. _claim_slot_row(t, n) /\ ~slot[n].busy
      BY <2>3, <3>1 DEF _claim_slot_row
    <3>3. TouchesSlots(t) /\ Slotted' /\ slot'[n].busy /\ slot'[n].occ = 0
      BY <3>2, SlotClaim
    <3>4. th'[t].pc = "head" /\ th'[t].lane = n /\ th'[t].back = "idle" /\ Moves(t)
      BY <1>1, <1>7, <1>8, <2>3, <3>1 DEF Own, Local, Goto, Moves
    <3>5. Own(t)' /\ Named(t)'
      BY <3>3, <3>4 DEF Own, Named, Admitting
    <3>6. Gains(t)
      BY <3>2, <3>4 DEF Gains, Holds, Admitting
    <3> QED
      BY <1>7, <1>8, <2>2, <3>3, <3>4, <3>5, <3>6, WorkerStep DEF Kept
  <2>4. CASE Return(t) /\ UNCHANGED slot
    <3>1. Moves(t) /\ Own(t)' /\ Named(t)' /\ Gains(t)
      BY <1>7, <1>8, <2>4, Rests
    <3>2. TouchesSlots(t) /\ Slotted'
      BY <2>4, SlotsSame
    <3> QED
      BY <1>7, <1>8, <2>2, <3>1, <3>2, WorkerStep DEF Kept
  <2> QED
    BY <1>9, <2>3, <2>4 DEF claim_lane_slot
<1>10. CASE start_lane_head(t)
  <2>1. PICK n, e, a : n = th[t].lane /\ e = First(waiting_in_lane(n))
                       /\ a = get_active_orchestration_run(entry[e].tkt)
    OBVIOUS
  <2>2. th[t].pc = "head" /\ UNCHANGED <<slot, orch, entry>>
    BY <1>10 DEF start_lane_head
  <2>3. \/ th' = [th EXCEPT ![t] = [th[t] EXCEPT !.pc = "give_back"]]
        \/ /\ e # 0 /\ a # 0
           /\ th' = [th EXCEPT ![t] = [th[t] EXCEPT !.pc = "occupy", !.entry = e, !.orch = a]]
        \/ e # 0 /\ th' = [th EXCEPT ![t] = [th[t] EXCEPT !.pc = "launch", !.entry = e]]
    BY <1>7, <1>10, <2>1 DEF start_lane_head
  <2>4. e # 0 => e \in Entries /\ entry[e].st = "queued" /\ entry[e].lane = n
    BY <2>1, Found
  <2>5. a # 0 => Known(a)
    BY <2>1, Found DEF Known, Live, LIVE_ORCHESTRATION_STATUSES
  <2>6. /\ th'[t].lane = n /\ th'[t].back = "idle" /\ th'[t].pc \in {"give_back", "occupy", "launch"}
        /\ th'[t].pc \in {"occupy", "launch"} => e # 0 /\ th'[t].entry = e
        /\ th'[t].pc = "occupy" => a # 0 /\ th'[t].orch = a
    <3>1. th[t].lane = n /\ th[t].back = "idle"
      BY <1>7, <2>1 DEF Own
    <3>2. CASE th' = [th EXCEPT ![t] = [th[t] EXCEPT !.pc = "give_back"]]
      BY <1>1, <1>7, <3>1, <3>2 DEF Local
    <3>3. CASE /\ e # 0 /\ a # 0
               /\ th' = [th EXCEPT ![t] = [th[t] EXCEPT !.pc = "occupy", !.entry = e, !.orch = a]]
      <4>1. th'[t] = [th[t] EXCEPT !.pc = "occupy", !.entry = e, !.orch = a]
        BY <1>1, <1>7, <3>3
      <4>2. th'[t].pc = "occupy" /\ th'[t].entry = e /\ th'[t].orch = a
        BY <1>7, <4>1 DEF Local
      <4>3. th'[t].lane = n /\ th'[t].back = "idle"
        BY <1>7, <3>1, <4>1 DEF Local
      <4> QED
        BY <3>3, <4>2, <4>3
    <3>4. CASE e # 0 /\ th' = [th EXCEPT ![t] = [th[t] EXCEPT !.pc = "launch", !.entry = e]]
      BY <1>1, <1>7, <3>1, <3>4 DEF Local
    <3> QED
      BY <2>3, <3>2, <3>3, <3>4
  <2>7. Onward /\ Moves(t) /\ TouchesSlots(t) /\ Slotted' /\ TouchesEntries(t) /\ Recorded'
    BY <1>7, <1>8, <2>2, <2>3, OrchSame, SlotsSame, EntriesSame DEF Moves
  <2>8. slot[n].busy /\ slot[n].occ = 0
    BY <1>7, <2>1, <2>2 DEF Own, Starting
  <2>9. Own(t)'
    BY <2>2, <2>4, <2>6, <2>8 DEF Own, Admitting
  <2>10. Named(t)'
    BY <2>2, <2>5, <2>6 DEF Named, Known
  <2>11. Gains(t)
    BY <2>1, <2>2, <2>6 DEF Gains, Holds, Starting, Admitting
  <2> QED
    BY <1>7, <1>8, <2>7, <2>9, <2>10, <2>11, WorkerStep DEF Kept
<1>11. CASE dispatch_orchestration(t)
  <2>1. PICK o : o = NewOrch
    OBVIOUS
  <2>2. /\ th[t].pc = "launch" /\ o # 0 /\ UNCHANGED <<slot, entry>>
        /\ orch' = [orch EXCEPT ![o] = [st |-> "queued", tkt |-> entry[th[t].entry].tkt]]
        /\ th' = [Scheduled(o) EXCEPT ![t].pc = "occupy", ![t].orch = o]
    BY <1>11, <2>1 DEF dispatch_orchestration
  <2>3. o \in Orchs /\ orch[o].st = "none" /\ th[drv(o)].pc = "idle"
    BY <2>1, <2>2, Found
  <2>4. Onward /\ Known(o)'
    BY <2>2, <2>3, OrchNew
  <2>5. Scheduled(o)[t] = th[t] /\ Scheduled(o) \in [Thread -> Local]
    BY <1>1, <1>7, <2>2, <2>3, ScheduledFine DEF Scheduled, TypeInv
  <2> DEFINE m == [Scheduled(o)[t] EXCEPT !.orch = o]
             l == [m EXCEPT !.pc = "occupy"]
  <2>6. th' = [Scheduled(o) EXCEPT ![t] = l]
    BY <1>1, <2>2, <2>5
  <2>7. m \in Local /\ m.orch = o /\ m.lane = th[t].lane /\ m.entry = th[t].entry /\ m.back = "idle"
    BY <1>7, <2>3, <2>5 DEF Own, Local
  <2> HIDE DEF m
  <2>8. l.pc = "occupy" /\ l.orch = o /\ l.lane = th[t].lane /\ l.entry = th[t].entry /\ l.back = "idle"
    BY <2>7 DEF Local
  <2> HIDE DEF l
  <2>9. Moves(t) /\ th'[t].pc = "occupy" /\ th'[t].orch = o /\ th'[t].lane = th[t].lane
        /\ th'[t].entry = th[t].entry /\ th'[t].back = "idle"
    <3>1. PICK k : k = l
      OBVIOUS
    <3>2. Moves(t) /\ th'[t] = k
      BY <1>8, <2>3, <2>6, <3>1, ScheduledMoves
    <3> QED
      BY <2>8, <3>1, <3>2
  <2>10. TouchesSlots(t) /\ Slotted' /\ TouchesEntries(t) /\ Recorded'
    BY <2>2, <2>4, SlotsSame, EntriesSame
  <2>11. Own(t)'
    BY <1>7, <2>2, <2>9 DEF Own, Admitting, Starting
  <2>12. Named(t)'
    BY <2>4, <2>9 DEF Named, Known
  <2>13. Gains(t)
    BY <2>2, <2>9 DEF Gains, Holds, Starting, Admitting
  <2> QED
    BY <1>7, <1>8, <2>4, <2>9, <2>10, <2>11, <2>12, <2>13, WorkerStep DEF Kept
<1>12. CASE _start_entry_work(t)
  <2>1. PICK n, e, o : n = th[t].lane /\ e = th[t].entry /\ o = th[t].orch
    OBVIOUS
  <2>2. /\ th[t].pc = "occupy" /\ UNCHANGED orch /\ Return(t)
        /\ slot' = [slot EXCEPT ![n].occ = o, ![n].fresh = FALSE]
        /\ entry' = [entry EXCEPT ![e].st = "active", ![e].orch = o]
    BY <1>12, <2>1 DEF _start_entry_work
  <2>3. n \in Lanes /\ Holds(t, n) /\ slot[n].busy /\ Known(o) /\ o \in Orchs /\ e \in Entries
    BY <1>7, <2>1, <2>2 DEF Fine, Starting, Holds, Own, Named, Known
  <2>4. entry \in [Entries -> Entry]
    BY DEF TypeInv, Typed, TypeOK
  <2>5. entry'[e].st = "active" /\ entry'[e].orch = o /\ \A f \in Entries : f # e => entry'[f] = entry[f]
    BY <2>2, <2>3, <2>4 DEF Entry
  <2>6. Onward /\ TouchesSlots(t) /\ Slotted'
    BY <2>2, <2>3, OrchSame, SlotNamed
  <2>7. TouchesEntries(t)
    BY <2>1, <2>2, <2>5 DEF TouchesEntries
  <2>8. Recorded'
    BY <1>7, <2>2, <2>3, <2>5 DEF Recorded, Known, Ended
  <2>9. Moves(t) /\ Own(t)' /\ Named(t)' /\ Gains(t)
    BY <1>7, <1>8, <2>2, Rests
  <2> QED
    BY <1>7, <1>8, <2>6, <2>7, <2>8, <2>9, WorkerStep DEF Kept
<1>13. CASE release_slot(t)
  <2>1. PICK n : n = th[t].lane
    OBVIOUS
  <2>2. /\ th[t].pc = "give_back" /\ UNCHANGED <<orch, entry>> /\ Return(t)
        /\ slot' = [slot EXCEPT ![n] = Free]
    BY <1>13, <2>1 DEF release_slot
  <2>3. Takes(t, n)
    BY <2>1, <2>2 DEF Takes, Holds, Starting
  <2>4. Onward /\ TouchesSlots(t) /\ Slotted' /\ TouchesEntries(t) /\ Recorded'
    BY <2>2, <2>3, OrchSame, SlotFreed, EntriesSame
  <2>5. Moves(t) /\ Own(t)' /\ Named(t)' /\ Gains(t)
    BY <1>7, <1>8, <2>2, Rests
  <2> QED
    BY <1>7, <1>8, <2>4, <2>5, WorkerStep DEF Kept
<1> QED
  BY <1>9, <1>10, <1>11, <1>12, <1>13

(* An orchestration's driver records its end.                               *)
LEMMA CalmComplete ==
    ASSUME TypeInv, Calm, NEW t \in Workers,
           on_orchestration_complete(t) \/ _hold_for_repair(t) \/ SettleEntry(t) \/ FreeLane(t)
    PROVE  Calm'
<1>1. t \in Thread
  BY DEF Workers
<1>2. th[t].pc # "idle" /\ UNCHANGED <<orch, server, scene>>
  BY DEF on_orchestration_complete, _hold_for_repair, SettleEntry, FreeLane
<1>3. /\ Serving /\ th[sweep] = Idle /\ Own(t) /\ Named(t) /\ Recorded /\ Slotted
      /\ th[t] \in Local /\ Fine(th[t]) /\ th \in [Thread -> Local]
  BY <1>2, AtWork
<1>4. Quiet' /\ UNCHANGED <<server, scene.timer>>
  BY <1>2, StillQuiet
<1>5. Onward
  BY <1>2, OrchSame
<1>6. entry \in [Entries -> Entry] /\ 0 \notin Orchs /\ 0 \notin Lanes
  BY PoolAssumption DEF TypeInv, Typed, TypeOK
<1>7. CASE on_orchestration_complete(t)
  <2>1. PICK o, e, n : o = th[t].orch /\ e = First(EntriesOf(o)) /\ n = First(Naming(o))
    OBVIOUS
  <2>2. PICK pc \in {"hold", "settle"} :
          /\ pc = "hold" => e # 0
          /\ th' = [th EXCEPT ![t].pc = pc, ![t].entry = e, ![t].lane = n]
    BY <1>7, <2>1 DEF on_orchestration_complete
  <2>3. th[t].pc = "done" /\ UNCHANGED <<slot, entry>>
    BY <1>7 DEF on_orchestration_complete
  <2>4. /\ e # 0 => e \in Entries /\ entry[e].orch = o
        /\ n # 0 => slot[n].occ = o
    BY <2>1, Found
  <2>5. Ended(o) /\ t = drv(o) /\ o # 0
    BY <1>3, <1>6, <2>1, <2>3 DEF Named, Own, Ended
  <2>6. th'[t].pc = pc /\ th'[t].entry = e /\ th'[t].lane = n /\ th'[t].orch = o /\ th'[t].back = "idle"
    <3>1. th'[t] = [th[t] EXCEPT !.pc = pc, !.entry = e, !.lane = n]
      BY <1>1, <1>3, <2>2
    <3>2. th'[t].pc = pc /\ th'[t].entry = e /\ th'[t].lane = n
      BY <1>3, <3>1 DEF Local
    <3>3. th'[t].orch = o /\ th'[t].back = "idle"
      BY <1>3, <2>1, <3>1 DEF Local, Own
    <3> QED
      BY <3>2, <3>3
  <2>7. Moves(t) /\ TouchesSlots(t) /\ Slotted' /\ TouchesEntries(t) /\ Recorded'
    BY <1>3, <1>4, <1>5, <2>2, <2>3, SlotsSame, EntriesSame DEF Moves
  <2>8. Own(t)'
    BY <2>3, <2>4, <2>5, <2>6 DEF Own, Admitting, Starting
  <2>9. Named(t)'
    BY <1>2, <2>2, <2>3, <2>4, <2>5, <2>6 DEF Named, Ended
  <2>10. Gains(t)
    BY <2>6 DEF Gains, Holds, Starting, Admitting
  <2> QED
    BY <1>3, <1>4, <1>5, <2>7, <2>8, <2>9, <2>10, WorkerStep DEF Kept
<1>8. CASE _hold_for_repair(t)
  <2>1. PICK e : e = th[t].entry
    OBVIOUS
  <2>2. /\ th[t].pc = "hold" /\ UNCHANGED slot /\ Return(t)
        /\ entry' = [entry EXCEPT ![e].st = "repairing"]
    BY <1>8, <2>1 DEF _hold_for_repair
  <2>3. e \in Entries /\ entry[e].orch # 0
    BY <1>3, <2>1, <2>2 DEF Named
  <2>4. /\ entry'[e].st = "repairing" /\ entry'[e].orch = entry[e].orch
        /\ \A f \in Entries : f # e => entry'[f] = entry[f]
    BY <1>6, <2>2, <2>3 DEF Entry
  <2>5. Known(entry[e].orch)
    BY <1>3, <2>3 DEF Recorded
  <2>6. TouchesEntries(t)
    BY <2>1, <2>2, <2>4 DEF TouchesEntries
  <2>7. Recorded'
    BY <1>2, <1>3, <2>3, <2>4, <2>5 DEF Recorded, Known, Ended
  <2>8. Moves(t) /\ Own(t)' /\ Named(t)' /\ Gains(t)
    BY <1>3, <1>4, <2>2, Rests
  <2>9. TouchesSlots(t) /\ Slotted'
    BY <2>2, SlotsSame
  <2> QED
    BY <1>3, <1>4, <1>5, <2>6, <2>7, <2>8, <2>9, WorkerStep DEF Kept
<1>9. CASE SettleEntry(t)
  <2>1. PICK e : e = th[t].entry
    OBVIOUS
  <2>2. /\ th[t].pc = "settle" /\ UNCHANGED slot
        /\ entry' = IF e = 0 THEN entry ELSE [entry EXCEPT ![e].st = "settled"]
        /\ IF th[t].lane = 0 THEN Return(t) ELSE Goto(t, "free")
    BY <1>9, <2>1 DEF SettleEntry
  <2>3. TouchesEntries(t) /\ Recorded'
    <3>1. CASE e = 0
      BY <1>5, <2>2, <3>1, EntriesSame
    <3>2. CASE e # 0
      <4>1. e \in Entries /\ Ended(entry[e].orch)
        BY <1>3, <2>1, <2>2, <3>2 DEF Named, Local
      <4>2. /\ entry'[e].st = "settled" /\ entry'[e].orch = entry[e].orch
            /\ \A f \in Entries : f # e => entry'[f] = entry[f]
        BY <1>6, <2>2, <3>2, <4>1 DEF Entry
      <4>3. TouchesEntries(t)
        BY <2>1, <2>2, <4>2 DEF TouchesEntries
      <4>4. Recorded'
        BY <1>2, <1>3, <4>1, <4>2 DEF Recorded, Known, Ended
      <4> QED
        BY <4>3, <4>4
    <3> QED
      BY <3>1, <3>2
  <2>4. Moves(t) /\ Own(t)' /\ Named(t)' /\ Gains(t)
    <3>1. CASE Return(t)
      BY <1>3, <1>4, <3>1, Rests
    <3>2. CASE th[t].lane # 0 /\ Goto(t, "free")
      <4>1. th'[t].pc = "free" /\ th'[t].lane = th[t].lane /\ th'[t].orch = th[t].orch
            /\ th'[t].back = "idle" /\ Moves(t)
        BY <1>1, <1>3, <1>4, <3>2 DEF Own, Local, Goto, Moves
      <4>2. Own(t)'
        BY <1>3, <2>2, <3>2, <4>1 DEF Own, Admitting, Starting
      <4>3. Named(t)' /\ Gains(t)
        BY <4>1 DEF Named, Gains, Holds, Admitting, Starting
      <4> QED
        BY <4>1, <4>2, <4>3
    <3> QED
      BY <2>2, <3>1, <3>2
  <2>5. TouchesSlots(t) /\ Slotted'
    BY <2>2, SlotsSame
  <2> QED
    BY <1>3, <1>4, <1>5, <2>3, <2>4, <2>5, WorkerStep DEF Kept
<1>10. CASE FreeLane(t)
  <2>1. PICK n : n = th[t].lane
    OBVIOUS
  <2>2. /\ th[t].pc = "free" /\ UNCHANGED entry /\ slot' = [slot EXCEPT ![n] = Free]
        /\ th' = [th EXCEPT ![t].pc = "take", ![t].entry = 0, ![t].orch = 0]
    BY <1>10, <2>1 DEF FreeLane
  <2>3. TouchesSlots(t) /\ Slotted'
    BY <2>1, <2>2, SlotFreed DEF Takes
  <2>4. th'[t].pc = "take" /\ th'[t].back = "idle"
    <3>1. th'[t] = [th[t] EXCEPT !.pc = "take", !.entry = 0, !.orch = 0]
      BY <1>1, <1>3, <2>2
    <3> QED
      BY <1>3, <3>1 DEF Local, Own
  <2>5. Moves(t)
    BY <1>3, <1>4, <2>2 DEF Moves
  <2>6. Own(t)' /\ Named(t)' /\ Gains(t)
    BY <2>4, AtEase
  <2>7. TouchesEntries(t) /\ Recorded'
    BY <1>5, <2>2, EntriesSame
  <2> QED
    BY <1>3, <1>4, <1>5, <2>3, <2>5, <2>6, <2>7, WorkerStep DEF Kept
<1> QED
  BY <1>7, <1>8, <1>9, <1>10

(* A driver adopts its claim, and ends it.                                  *)
LEMMA CalmDrive ==
    ASSUME TypeInv, Calm, NEW o \in Orchs, Drive(o)
    PROVE  Calm'
<1> DEFINE t == drv(o)
           driving(p) == [Idle EXCEPT !.pc = "drive", !.orch = p]
<1>1. t \in Workers /\ t \in Thread
  BY DriverWorks DEF Workers
<1>2. th[t].pc # "idle" /\ UNCHANGED <<slot, entry, server>>
  BY DEF Drive, start_orchestration_run, _finish_orchestration_run
<1>3. /\ Serving /\ th[sweep] = Idle /\ Own(t) /\ Named(t) /\ Recorded /\ Slotted
      /\ th[t] \in Local /\ Fine(th[t]) /\ th \in [Thread -> Local]
  BY <1>1, <1>2, AtWork
<1>4. TouchesSlots(t) /\ Slotted'
  BY <1>2, SlotsSame
<1>5. orch \in [Orchs -> Orch]
  BY DEF TypeInv, Typed, TypeOK
<1>6. \A p : Fresh(driving(p))
  BY DEF Fresh, Idle
<1>7. CASE start_orchestration_run(o)
  <2>1. PICK a : a = get_active_orchestration_run(orch[o].tkt)
    OBVIOUS
  <2>2. th[t].pc = "adopt" /\ UNCHANGED scene
    BY <1>7 DEF start_orchestration_run
  <2>3. a # 0 => a \in Orchs /\ Live(a)
    BY <2>1, Found
  <2>4. \/ /\ a # 0 /\ orch' = [orch EXCEPT ![a].st = "running"]
           /\ \E b \in {Idle, th[t]} : th' = [th EXCEPT ![t] = b, ![drv(a)] = driving(a)]
        \/ Stop(t) /\ UNCHANGED orch
        \/ /\ NewOrch # 0
           /\ orch' = [orch EXCEPT ![NewOrch] = [st |-> "running", tkt |-> orch[o].tkt]]
           /\ th' = [th EXCEPT ![t] = Idle, ![drv(NewOrch)] = driving(NewOrch)]
    BY <1>3, <1>7, <2>1 DEF start_orchestration_run
  <2>5. Quiet' /\ UNCHANGED <<server, scene.timer>>
    BY <1>2, <2>2, StillQuiet
  <2>6. ASSUME NEW p \in Orchs, NEW b \in {Idle, th[t]},
               th' = [th EXCEPT ![t] = b, ![drv(p)] = driving(p)]
        PROVE  Moves(t) /\ Own(t)' /\ Named(t)' /\ Gains(t)
    <3>1. drv(p) \in Thread /\ drv(p) # sweep
      BY Threads
    <3> DEFINE d == driving(p)
    <3>2. Fresh(d)
      BY <1>6
    <3>3. th' = [th EXCEPT ![t] = b, ![drv(p)] = d]
      BY <2>6
    <3> HIDE DEF d, t
    <3>4. Moves(t)
      BY <1>3, <2>5, <3>1, <3>2, <3>3 DEF Moves
    <3>5. th'[t] = b \/ th'[t] = d
      BY <1>1, <1>3, <3>3
    <3>6. th'[t].back = "idle" /\ th'[t].pc \in {"idle", "adopt", "drive"}
      BY <1>3, <2>2, <3>2, <3>5, IdleFields DEF Fresh, Own
    <3> QED
      BY <1>1, <3>4, <3>6, AtEase
  <2> HIDE DEF t, driving
  <2>7. CASE /\ a # 0 /\ orch' = [orch EXCEPT ![a].st = "running"]
             /\ \E b \in {Idle, th[t]} : th' = [th EXCEPT ![t] = b, ![drv(a)] = driving(a)]
    <3>1. Moves(t) /\ Own(t)' /\ Named(t)' /\ Gains(t)
      BY <2>3, <2>6, <2>7
    <3>2. Onward
      <4>1. orch'[a].st = "running" /\ \A p \in Orchs \ {a} : orch'[p] = orch[p]
        BY <1>5, <2>3, <2>7 DEF Orch
      <4>2. orch[a].st \notin {"blocked", "over"}
        BY <2>3, <2>7 DEF Live, LIVE_ORCHESTRATION_STATUSES
      <4> QED
        BY <4>1, <4>2 DEF Onward
    <3>3. TouchesEntries(t) /\ Recorded'
      BY <1>2, <3>2, EntriesSame
    <3> QED
      BY <1>1, <1>3, <1>4, <2>5, <3>1, <3>2, <3>3, WorkerStep DEF Kept
  <2>8. CASE Stop(t) /\ UNCHANGED orch
    <3>1. Moves(t) /\ th'[t] = Idle
      BY <1>1, <2>5, <2>8, OneMoves DEF Stop
    <3>2. Own(t)' /\ Named(t)' /\ Gains(t)
      BY <1>1, <3>1, AtEase, IdleFields
    <3>3. Onward /\ TouchesEntries(t) /\ Recorded'
      BY <1>2, <2>8, OrchSame, EntriesSame
    <3> QED
      BY <1>1, <1>3, <1>4, <2>5, <3>1, <3>2, <3>3, WorkerStep DEF Kept
  <2>9. CASE /\ NewOrch # 0
             /\ orch' = [orch EXCEPT ![NewOrch] = [st |-> "running", tkt |-> orch[o].tkt]]
             /\ th' = [th EXCEPT ![t] = Idle, ![drv(NewOrch)] = driving(NewOrch)]
    <3>1. PICK p : p = NewOrch
      OBVIOUS
    <3>2. p \in Orchs /\ orch[p].st = "none"
      BY <2>9, <3>1, Found
    <3>3. Onward
      BY <2>9, <3>1, <3>2, OrchNew
    <3>4. Moves(t) /\ Own(t)' /\ Named(t)' /\ Gains(t)
      BY <2>6, <2>9, <3>1, <3>2
    <3>5. TouchesEntries(t) /\ Recorded'
      BY <1>2, <3>3, EntriesSame
    <3> QED
      BY <1>1, <1>3, <1>4, <2>5, <3>3, <3>4, <3>5, WorkerStep DEF Kept
  <2> QED
    BY <2>4, <2>7, <2>8, <2>9
<1>8. CASE _finish_orchestration_run(o)
  <2>1. /\ th[t].pc = "drive" /\ th' = [th EXCEPT ![t] = Completing(t, o, "idle")]
        /\ orch' = [orch EXCEPT ![o].st = "over"] \/ orch' = [orch EXCEPT ![o].st = "blocked"]
        /\ UNCHANGED scene \/ Spend("block")
    BY <1>8 DEF _finish_orchestration_run
  <2>2. Quiet' /\ UNCHANGED <<server, scene.timer>>
    BY <1>2, <2>1, StillQuiet DEF Events
  <2>3. PICK l : l = Completing(t, o, "idle")
    OBVIOUS
  <2>4. l.pc = "done" /\ l.orch = o /\ l.back = "idle"
    BY <1>3, <2>3 DEF Completing, Local
  <2>5. Moves(t) /\ th'[t] = l
    BY <1>1, <2>1, <2>2, <2>3, OneMoves
  <2>6. orch'[o].st \in {"blocked", "over"} /\ \A p \in Orchs \ {o} : orch'[p] = orch[p]
    <3>1. PICK x \in {"blocked", "over"} : orch' = [orch EXCEPT ![o].st = x]
      BY <2>1
    <3> QED
      BY <1>5, <3>1 DEF Orch
  <2>7. Onward /\ Ended(o)'
    BY <2>6 DEF Onward, Ended
  <2>8. Own(t)' /\ Named(t)' /\ Gains(t)
    <3>1. Own(t)'
      BY <2>4, <2>5 DEF Own, Admitting, Starting
    <3>2. Named(t)'
      BY <2>4, <2>5, <2>7 DEF Named, Ended
    <3>3. Gains(t)
      BY <2>4, <2>5 DEF Gains, Holds, Admitting, Starting
    <3> QED
      BY <3>1, <3>2, <3>3
  <2>9. TouchesEntries(t) /\ Recorded'
    BY <1>2, <2>7, EntriesSame
  <2> QED
    BY <1>1, <1>3, <1>4, <2>2, <2>5, <2>7, <2>8, <2>9, WorkerStep DEF Kept
<1> QED
  BY <1>7, <1>8 DEF Drive

(* No worker moves.                                                         *)
Rested == \A u \in Workers : th'[u] = th[u]

(* While the pass of a boot is under way nothing else is.                   *)
LEMMA AtBoot ==
    ASSUME TypeInv, Calm, th[sweep].pc # "idle"
    PROVE  /\ server = "booting" /\ (\A u \in Workers : th[u] = Idle)
           /\ Named(sweep) /\ Sweeping /\ Recorded /\ Slotted
           /\ th[sweep] \in Local /\ Fine(th[sweep]) /\ th \in [Thread -> Local] /\ sweep \in Thread
           /\ entry \in [Entries -> Entry] /\ slot \in [Lanes -> Slot] /\ orch \in [Orchs -> Orch]
<1>1. sweep \in Thread /\ Idle.pc = "idle"
  BY Threads, IdleFields
<1>2. /\ server \in {"up", "draining", "down", "booting"} /\ th[sweep] \in Local /\ Fine(th[sweep])
      /\ th \in [Thread -> Local] /\ entry \in [Entries -> Entry] /\ slot \in [Lanes -> Slot]
      /\ orch \in [Orchs -> Orch]
  BY <1>1 DEF TypeInv, Typed, TypeOK, LocalOK
<1>3. server = "booting"
  BY <1>1, <1>2 DEF Calm, Alone, Serving
<1> QED
  BY <1>1, <1>2, <1>3 DEF Calm, Alone

(* A step of the pass keeps the invariant when its own part is kept:        *)
(* everyone else is at rest.                                                *)
LEMMA SweepStep ==
    ASSUME TypeInv, Calm, th[sweep].pc # "idle", Rested,
           server' = server \/ (server' = "up" /\ th'[sweep] = Idle),
           Slotted', Recorded', Sweeping', Named(sweep)', Quiet'
    PROVE  Calm'
<1>1. server = "booting" /\ \A u \in Workers : th[u] = Idle
  BY AtBoot
<1>2. \A u \in Workers : th'[u] = Idle
  BY <1>1 DEF Rested
<1>3. \A u \in Workers : th'[u].pc = "idle" /\ th'[u].back = "idle"
  BY <1>2, IdleFields
<1>4. \A u \in Workers : Own(u)' /\ Named(u)'
  BY <1>3 DEF Own, Named, Admitting, Starting
<1>5. OneHolds'
  BY <1>3 DEF OneHolds, Workers, Holds, Admitting, Starting
<1>6. Alone'
  BY <1>1, <1>2 DEF Alone, Serving, Workers
<1>7. (\A u \in Thread : Named(u)') /\ (\A u \in Workers : Own(u)')
  BY <1>4 DEF Workers
<1> QED
  BY <1>5, <1>6, <1>7 DEF Calm, Workers

(* A step that moves the pass moves nobody else.                            *)
LEMMA SweepMoves ==
    ASSUME TypeInv, NEW l, th' = [th EXCEPT ![sweep] = l]
    PROVE  Rested /\ th'[sweep] = l
BY Threads DEF Rested, Workers, TypeInv, Typed, TypeOK

(* The pass goes back to its loop.                                          *)
LEMMA SweepReturns ==
    ASSUME TypeInv, Calm, th[sweep].pc # "idle", Return(sweep), Onward,
           th[sweep].back = "repairs" => \A e \in th[sweep].todo : entry'[e].orch = entry[e].orch
    PROVE  Rested /\ Sweeping' /\ Named(sweep)'
<1>1. PICK l : l = Back(th[sweep])
  OBVIOUS
<1>2. th' = [th EXCEPT ![sweep] = l]
  BY <1>1 DEF Return, Back
<1>3. Rested /\ th'[sweep] = l
  BY <1>2, SweepMoves
<1>4. Sweeping /\ th[sweep] \in Local /\ Fine(th[sweep])
  BY AtBoot
<1>5. CASE th[sweep].back = "idle"
  <2>1. l.pc = "idle" /\ l.back = "idle"
    BY <1>1, <1>5, IdleFields DEF Back
  <2>2. Sweeping'
    BY <1>3, <2>1 DEF Sweeping, Starting
  <2>3. Named(sweep)'
    BY <1>3, <2>1 DEF Named
  <2> QED
    BY <1>3, <2>2, <2>3
<1>6. CASE th[sweep].back # "idle"
  <2>1. l.pc = th[sweep].back /\ l.back = "idle" /\ l.todo = th[sweep].todo
    BY <1>1, <1>6, BackIs
  <2>2. l.pc \in {"release", "leases", "repairs", "heads"}
    BY <1>4, <1>6, <2>1 DEF Local
  <2>3. Named(sweep)'
    BY <1>3, <2>2 DEF Named
  <2>4. l.pc = "repairs" => \A e \in l.todo : Ended(entry[e].orch)'
    <3>1. SUFFICES ASSUME l.pc = "repairs", NEW e \in l.todo PROVE Ended(entry[e].orch)'
      OBVIOUS
    <3>2. PICK o : o = entry[e].orch
      OBVIOUS
    <3>3. Ended(o) /\ entry'[e].orch = o
      BY <1>4, <2>1, <3>1, <3>2 DEF Sweeping
    <3> QED
      BY <3>3 DEF Ended, Onward
  <2>5. Sweeping'
    BY <1>3, <2>1, <2>2, <2>4 DEF Sweeping, Starting, Ended
  <2> QED
    BY <1>3, <2>3, <2>5
<1> QED
  BY <1>5, <1>6

-----------------------------------------------------------------------------
(* The pass starts the head of a lane.                                      *)
LEMMA BootStartsLane ==
    ASSUME TypeInv, Calm,
           \/ claim_lane_slot(sweep) \/ start_lane_head(sweep) \/ dispatch_orchestration(sweep)
           \/ _start_entry_work(sweep) \/ release_slot(sweep)
    PROVE  Calm'
<1> DEFINE t == sweep
<1>1. th[t].pc # "idle" /\ UNCHANGED <<server, scene>>
  BY DEF claim_lane_slot, start_lane_head, dispatch_orchestration, _start_entry_work, release_slot
<1>2. /\ server = "booting" /\ (\A u \in Workers : th[u] = Idle)
      /\ Named(t) /\ Sweeping /\ Recorded /\ Slotted
      /\ th[t] \in Local /\ Fine(th[t]) /\ th \in [Thread -> Local] /\ t \in Thread
      /\ entry \in [Entries -> Entry] /\ slot \in [Lanes -> Slot] /\ orch \in [Orchs -> Orch]
  BY <1>1, AtBoot
<1>3. Quiet'
  BY <1>1, StillQuiet
<1>4. CASE claim_lane_slot(t)
  <2>1. th[t].pc = "take" /\ UNCHANGED <<orch, entry>>
    BY <1>4 DEF claim_lane_slot
  <2>2. Onward /\ Recorded'
    BY <2>1, OrchSame, EntriesSame
  <2>3. CASE _claim_slot_row(t, th[t].lane) /\ Goto(t, "head")
    <3>1. PICK n \in Lanes : n = th[t].lane
      BY <1>2, <2>1 DEF Fine
    <3>2. _claim_slot_row(t, n)
      BY <2>3, <3>1 DEF _claim_slot_row
    <3>3. Slotted' /\ slot'[n].busy
      BY <3>2, SlotClaim
    <3>4. th' = [th EXCEPT ![t] = [th[t] EXCEPT !.pc = "head"]]
      BY <2>3 DEF Goto
    <3>5. Rested /\ th'[t].pc = "head" /\ th'[t].lane = n /\ th'[t].back = th[t].back
          /\ th'[t].todo = th[t].todo
      BY <1>2, <3>1, <3>4, SweepMoves DEF Local
    <3>6. Sweeping'
      BY <1>2, <2>1, <3>3, <3>5 DEF Sweeping, Ended
    <3>7. Named(t)'
      BY <3>5 DEF Named
    <3> QED
      BY <1>1, <1>3, <2>2, <3>3, <3>5, <3>6, <3>7, SweepStep
  <2>4. CASE Return(t) /\ UNCHANGED slot
    <3>1. Rested /\ Sweeping' /\ Named(t)'
      BY <1>1, <2>1, <2>2, <2>4, SweepReturns
    <3>2. Slotted'
      BY <2>4, SlotsSame
    <3> QED
      BY <1>1, <1>3, <2>2, <3>1, <3>2, SweepStep
  <2> QED
    BY <1>4, <2>3, <2>4 DEF claim_lane_slot
<1>5. CASE start_lane_head(t)
  <2>1. PICK n, e, a : n = th[t].lane /\ e = First(waiting_in_lane(n))
                       /\ a = get_active_orchestration_run(entry[e].tkt)
    OBVIOUS
  <2>2. th[t].pc = "head" /\ UNCHANGED <<slot, orch, entry>>
    BY <1>5 DEF start_lane_head
  <2>3. \/ th' = [th EXCEPT ![t] = [th[t] EXCEPT !.pc = "give_back"]]
        \/ /\ e # 0 /\ a # 0
           /\ th' = [th EXCEPT ![t] = [th[t] EXCEPT !.pc = "occupy", !.entry = e, !.orch = a]]
        \/ e # 0 /\ th' = [th EXCEPT ![t] = [th[t] EXCEPT !.pc = "launch", !.entry = e]]
    BY <1>2, <1>5, <2>1 DEF start_lane_head
  <2>4. e # 0 => e \in Entries /\ entry[e].st = "queued"
    BY <2>1, Found
  <2>5. a # 0 => Known(a)
    BY <2>1, Found DEF Known, Live, LIVE_ORCHESTRATION_STATUSES
  <2> HIDE DEF t
  <2>6. /\ th'[t].lane = n /\ th'[t].back = th[t].back /\ th'[t].todo = th[t].todo
        /\ th'[t].pc \in {"give_back", "occupy", "launch"}
        /\ th'[t].pc \in {"occupy", "launch"} => e # 0 /\ th'[t].entry = e
        /\ th'[t].pc = "occupy" => a # 0 /\ th'[t].orch = a
    <3>2. CASE th' = [th EXCEPT ![t] = [th[t] EXCEPT !.pc = "give_back"]]
      BY <1>2, <2>1, <3>2 DEF Local
    <3>3. CASE /\ e # 0 /\ a # 0
               /\ th' = [th EXCEPT ![t] = [th[t] EXCEPT !.pc = "occupy", !.entry = e, !.orch = a]]
      <4>1. th'[t] = [th[t] EXCEPT !.pc = "occupy", !.entry = e, !.orch = a]
        BY <1>2, <3>3
      <4>2. th'[t].pc = "occupy" /\ th'[t].entry = e /\ th'[t].orch = a
        BY <1>2, <4>1 DEF Local
      <4>3. th'[t].lane = n /\ th'[t].back = th[t].back /\ th'[t].todo = th[t].todo
        BY <1>2, <2>1, <4>1 DEF Local
      <4> QED
        BY <3>3, <4>2, <4>3
    <3>4. CASE e # 0 /\ th' = [th EXCEPT ![t] = [th[t] EXCEPT !.pc = "launch", !.entry = e]]
      <4>1. th'[t] = [th[t] EXCEPT !.pc = "launch", !.entry = e]
        BY <1>2, <3>4
      <4>2. th'[t].pc = "launch" /\ th'[t].entry = e
        BY <1>2, <4>1 DEF Local
      <4>3. th'[t].lane = n /\ th'[t].back = th[t].back /\ th'[t].todo = th[t].todo
        BY <1>2, <2>1, <4>1 DEF Local
      <4> QED
        BY <3>4, <4>2, <4>3
    <3> QED
      BY <2>3, <3>2, <3>3, <3>4
  <2>7. Onward /\ Slotted' /\ Recorded'
    BY <2>2, OrchSame, SlotsSame, EntriesSame
  <2>8. Rested
    BY <1>2, <2>3, SweepMoves DEF t
  <2>9. slot[n].busy
    BY <1>2, <2>1, <2>2 DEF Sweeping, Starting, t
  <2>10. th[t].back = "repairs" => e = 0 \/ e \notin th[t].todo
    <3>1. SUFFICES ASSUME th[t].back = "repairs", e # 0, e \in th[t].todo PROVE FALSE
      OBVIOUS
    <3>2. Ended(entry[e].orch) /\ entry[e].orch = 0
      BY <1>2, <2>4, <3>1 DEF Sweeping, Recorded, t
    <3> QED
      BY <3>2, PoolAssumption DEF Ended
  <2>11. Sweeping'
    BY <1>2, <2>2, <2>6, <2>9, <2>10 DEF Sweeping, Ended, t
  <2>12. Named(t)'
    BY <2>2, <2>5, <2>6 DEF Named, Known
  <2> QED
    BY <1>1, <1>3, <2>7, <2>8, <2>11, <2>12, SweepStep DEF t
<1>6. CASE dispatch_orchestration(t)
  <2>1. PICK o : o = NewOrch
    OBVIOUS
  <2>2. /\ th[t].pc = "launch" /\ o # 0 /\ UNCHANGED <<slot, entry>>
        /\ orch' = [orch EXCEPT ![o] = [st |-> "queued", tkt |-> entry[th[t].entry].tkt]]
        /\ th' = [Scheduled(o) EXCEPT ![t].pc = "occupy", ![t].orch = o]
    BY <1>6, <2>1 DEF dispatch_orchestration
  <2>3. o \in Orchs /\ orch[o].st = "none"
    BY <2>1, <2>2, Found
  <2>4. Onward /\ Known(o)'
    BY <2>2, <2>3, OrchNew
  <2>5. Scheduled(o) = th
    BY <1>2 DEF Scheduled
  <2>6. Slotted' /\ Recorded'
    BY <2>2, <2>4, SlotsSame, EntriesSame
  <2> HIDE DEF t
  <2>7. th'[t] = [th[t] EXCEPT !.pc = "occupy", !.orch = o] /\ \A u \in Thread \ {t} : th'[u] = th[u]
    BY <1>2, <2>2, <2>5
  <2>8. th'[t].pc = "occupy" /\ th'[t].orch = o
    BY <1>2, <2>7 DEF Local
  <2>9. th'[t].lane = th[t].lane /\ th'[t].entry = th[t].entry /\ th'[t].back = th[t].back
        /\ th'[t].todo = th[t].todo
    BY <1>2, <2>7 DEF Local
  <2>10. Rested
    BY <2>7 DEF Rested, Workers, t
  <2>11. Sweeping'
    <3>1. ASSUME NEW e, Ended(entry[e].orch) PROVE Ended(entry[e].orch)' 
      BY <2>2, <2>4, <3>1 DEF Ended, Onward
    <3> QED
      BY <1>2, <2>2, <2>8, <2>9, <3>1 DEF Sweeping, Starting, t
  <2>12. Named(t)'
    BY <2>4, <2>8 DEF Named, Known
  <2> QED
    BY <1>1, <1>3, <2>6, <2>10, <2>11, <2>12, SweepStep DEF t
<1>7. CASE _start_entry_work(t)
  <2>1. PICK n, e, o : n = th[t].lane /\ e = th[t].entry /\ o = th[t].orch
    OBVIOUS
  <2>2. /\ th[t].pc = "occupy" /\ UNCHANGED orch /\ Return(t)
        /\ slot' = [slot EXCEPT ![n].occ = o, ![n].fresh = FALSE]
        /\ entry' = [entry EXCEPT ![e].st = "active", ![e].orch = o]
    BY <1>7, <2>1 DEF _start_entry_work
  <2>3. n \in Lanes /\ Holds(t, n) /\ slot[n].busy /\ Known(o) /\ o \in Orchs
    BY <1>2, <2>1, <2>2 DEF Fine, Starting, Holds, Sweeping, Named, Known
  <2>4. e \in Entries => entry'[e].st = "active" /\ entry'[e].orch = o
    BY <1>2, <2>2 DEF Entry
  <2>5. \A f \in Entries : f # e => entry'[f] = entry[f]
    BY <1>2, <2>2
  <2>6. Onward /\ Slotted'
    BY <2>2, <2>3, OrchSame, SlotNamed
  <2>7. Recorded'
    BY <1>2, <2>2, <2>3, <2>4, <2>5 DEF Recorded, Known, Ended
  <2>8. th[t].back = "repairs" => \A f \in th[t].todo : entry'[f].orch = entry[f].orch
    BY <1>2, <2>1, <2>2, <2>5 DEF Sweeping, Fine
  <2>9. Rested /\ Sweeping' /\ Named(t)'
    BY <1>1, <2>2, <2>6, <2>8, SweepReturns
  <2> QED
    BY <1>1, <1>3, <2>6, <2>7, <2>9, SweepStep
<1>8. CASE release_slot(t)
  <2>1. PICK n : n = th[t].lane
    OBVIOUS
  <2>2. /\ th[t].pc = "give_back" /\ UNCHANGED <<orch, entry>> /\ Return(t)
        /\ slot' = [slot EXCEPT ![n] = Free]
    BY <1>8, <2>1 DEF release_slot
  <2>3. Takes(t, n)
    BY <2>1, <2>2 DEF Takes, Holds, Starting
  <2>4. Onward /\ Slotted' /\ Recorded'
    BY <2>2, <2>3, OrchSame, SlotFreed, EntriesSame
  <2>5. Rested /\ Sweeping' /\ Named(t)'
    BY <1>1, <2>2, <2>4, SweepReturns
  <2> QED
    BY <1>1, <1>3, <2>4, <2>5, SweepStep
<1> QED
  BY <1>4, <1>5, <1>6, <1>7, <1>8

(* The pass records an end.                                                 *)
LEMMA BootCompletes ==
    ASSUME TypeInv, Calm,
           \/ on_orchestration_complete(sweep) \/ _hold_for_repair(sweep)
           \/ SettleEntry(sweep) \/ FreeLane(sweep)
    PROVE  Calm'
<1> DEFINE t == sweep
<1>1. th[t].pc # "idle" /\ UNCHANGED <<orch, server, scene>>
  BY DEF on_orchestration_complete, _hold_for_repair, SettleEntry, FreeLane
<1>2. /\ server = "booting" /\ (\A u \in Workers : th[u] = Idle)
      /\ Named(t) /\ Sweeping /\ Recorded /\ Slotted
      /\ th[t] \in Local /\ Fine(th[t]) /\ th \in [Thread -> Local] /\ t \in Thread
      /\ entry \in [Entries -> Entry] /\ slot \in [Lanes -> Slot] /\ orch \in [Orchs -> Orch]
  BY <1>1, AtBoot
<1>3. Quiet' /\ Onward
  BY <1>1, StillQuiet, OrchSame
<1>4. CASE on_orchestration_complete(t)
  <2>1. PICK o, e, n : o = th[t].orch /\ e = First(EntriesOf(o)) /\ n = First(Naming(o))
    OBVIOUS
  <2>2. PICK pc \in {"hold", "settle"} :
          /\ pc = "hold" => e # 0
          /\ th' = [th EXCEPT ![t].pc = pc, ![t].entry = e, ![t].lane = n]
    BY <1>4, <2>1 DEF on_orchestration_complete
  <2>3. th[t].pc = "done" /\ UNCHANGED <<slot, entry>>
    BY <1>4 DEF on_orchestration_complete
  <2>4. e # 0 => e \in Entries /\ entry[e].orch = o
    BY <2>1, Found
  <2>5. Ended(o) /\ o # 0
    BY <1>2, <2>1, <2>3, PoolAssumption DEF Named, Ended
  <2> HIDE DEF t
  <2>6. th'[t].pc = pc /\ th'[t].entry = e /\ th'[t].back = th[t].back /\ th'[t].todo = th[t].todo
    <3>1. th'[t] = [th[t] EXCEPT !.pc = pc, !.entry = e, !.lane = n]
      BY <1>2, <2>2
    <3>2. th'[t].pc = pc /\ th'[t].entry = e
      BY <1>2, <3>1 DEF Local
    <3>3. th'[t].back = th[t].back /\ th'[t].todo = th[t].todo
      BY <1>2, <3>1 DEF Local
    <3> QED
      BY <3>2, <3>3
  <2>7. Slotted' /\ Recorded'
    BY <1>3, <2>3, SlotsSame, EntriesSame
  <2>8. Rested
    BY <1>2, <2>2 DEF Rested, Workers, t
  <2>9. Sweeping'
    BY <1>1, <1>2, <2>3, <2>6 DEF Sweeping, Starting, Ended, t
  <2>10. Named(t)'
    BY <1>1, <2>2, <2>3, <2>4, <2>5, <2>6 DEF Named, Ended
  <2> QED
    BY <1>1, <1>3, <2>7, <2>8, <2>9, <2>10, SweepStep DEF t
<1>5. CASE _hold_for_repair(t)
  <2>1. PICK e : e = th[t].entry
    OBVIOUS
  <2>2. /\ th[t].pc = "hold" /\ UNCHANGED slot /\ Return(t)
        /\ entry' = [entry EXCEPT ![e].st = "repairing"]
    BY <1>5, <2>1 DEF _hold_for_repair
  <2>3. e \in Entries /\ entry[e].orch # 0
    BY <1>2, <2>1, <2>2 DEF Named
  <2>4. /\ entry'[e].st = "repairing" /\ entry'[e].orch = entry[e].orch
        /\ \A f \in Entries : f # e => entry'[f] = entry[f]
    BY <1>2, <2>2, <2>3 DEF Entry
  <2>5. Known(entry[e].orch)
    BY <1>2, <2>3 DEF Recorded
  <2>6. Recorded'
    BY <1>1, <1>2, <2>3, <2>4, <2>5 DEF Recorded, Known, Ended
  <2>7. Slotted'
    BY <2>2, SlotsSame
  <2>8. th[t].back = "repairs" => \A f \in th[t].todo : entry'[f].orch = entry[f].orch
    BY <1>2, <2>4 DEF Fine
  <2>9. Rested /\ Sweeping' /\ Named(t)'
    BY <1>1, <1>3, <2>2, <2>8, SweepReturns
  <2> QED
    BY <1>1, <1>3, <2>6, <2>7, <2>9, SweepStep
<1>6. CASE SettleEntry(t)
  <2>1. PICK e : e = th[t].entry
    OBVIOUS
  <2>2. /\ th[t].pc = "settle" /\ UNCHANGED slot
        /\ entry' = IF e = 0 THEN entry ELSE [entry EXCEPT ![e].st = "settled"]
        /\ IF th[t].lane = 0 THEN Return(t) ELSE Goto(t, "free")
    BY <1>6, <2>1 DEF SettleEntry
  <2>3. /\ \A f \in Entries : entry'[f].orch = entry[f].orch
        /\ Recorded'
    <3>1. CASE e = 0
      BY <1>3, <2>2, <3>1, EntriesSame
    <3>2. CASE e # 0
      <4>1. e \in Entries /\ Ended(entry[e].orch)
        BY <1>2, <2>1, <2>2, <3>2 DEF Named, Local
      <4>2. /\ entry'[e].st = "settled" /\ entry'[e].orch = entry[e].orch
            /\ \A f \in Entries : f # e => entry'[f] = entry[f]
        BY <1>2, <2>2, <3>2, <4>1 DEF Entry
      <4>3. Recorded'
        BY <1>1, <1>2, <4>1, <4>2 DEF Recorded, Known, Ended
      <4> QED
        BY <4>2, <4>3
    <3> QED
      BY <3>1, <3>2
  <2>4. Rested /\ Sweeping' /\ Named(t)'
    <3>1. CASE Return(t)
      <4>1. th[t].back = "repairs" => \A f \in th[t].todo : entry'[f].orch = entry[f].orch
        BY <1>2, <2>3 DEF Fine
      <4> QED
        BY <1>1, <1>3, <3>1, <4>1, SweepReturns
    <3>2. CASE Goto(t, "free")
      <4>1. th' = [th EXCEPT ![t] = [th[t] EXCEPT !.pc = "free"]]
        BY <3>2 DEF Goto
      <4>2. Rested /\ th'[t] = [th[t] EXCEPT !.pc = "free"]
        BY <4>1, <1>2 DEF Rested, Workers
      <4> HIDE DEF t
      <4>3. th'[t].pc = "free" /\ th'[t].back = th[t].back /\ th'[t].todo = th[t].todo
        BY <1>2, <4>2 DEF Local
      <4>4. Named(t)'
        BY <4>3 DEF Named
      <4>5. Sweeping'
        BY <1>1, <1>2, <2>2, <2>3, <4>3 DEF Sweeping, Starting, Ended, Fine, t
      <4> QED
        BY <4>2, <4>4, <4>5
    <3> QED
      BY <2>2, <3>1, <3>2
  <2>5. Slotted'
    BY <2>2, SlotsSame
  <2> QED
    BY <1>1, <1>3, <2>3, <2>4, <2>5, SweepStep
<1>7. CASE FreeLane(t)
  <2>1. PICK n : n = th[t].lane
    OBVIOUS
  <2>2. /\ th[t].pc = "free" /\ UNCHANGED entry /\ slot' = [slot EXCEPT ![n] = Free]
        /\ th' = [th EXCEPT ![t].pc = "take", ![t].entry = 0, ![t].orch = 0]
    BY <1>7, <2>1 DEF FreeLane
  <2>3. Slotted'
    BY <2>1, <2>2, SlotFreed DEF Takes
  <2> HIDE DEF t
  <2>4. th'[t].pc = "take" /\ th'[t].back = th[t].back /\ th'[t].todo = th[t].todo
    <3>1. th'[t] = [th[t] EXCEPT !.pc = "take", !.entry = 0, !.orch = 0]
      BY <1>2, <2>2
    <3>2. th'[t].back = th[t].back /\ th'[t].todo = th[t].todo
      BY <1>2, <3>1 DEF Local
    <3>3. th'[t].pc = "take"
      BY <1>2, <3>1 DEF Local
    <3> QED
      BY <3>2, <3>3
  <2>5. Rested
    BY <1>2, <2>2 DEF Rested, Workers, t
  <2>6. Recorded'
    BY <1>3, <2>2, EntriesSame
  <2>7. Sweeping'
    BY <1>1, <1>2, <2>2, <2>4 DEF Sweeping, Starting, Ended, t
  <2>8. Named(t)'
    BY <2>4 DEF Named
  <2> QED
    BY <1>1, <1>3, <2>3, <2>5, <2>6, <2>7, <2>8, SweepStep DEF t
<1> QED
  BY <1>4, <1>5, <1>6, <1>7

(* The pass itself: leases, repairs, entries.                               *)
LEMMA BootFirst ==
    ASSUME TypeInv, Calm,
           \/ settle_expired_orchestration_leases \/ _drive_repairing_entries
           \/ _drive_one_repair \/ _settle_finished_entries
    PROVE  Calm'
<1> DEFINE t == sweep
<1>1. th[t].pc # "idle" /\ UNCHANGED <<slot, server, scene>>
  BY DEF settle_expired_orchestration_leases, _drive_repairing_entries, _drive_one_repair,
         _settle_finished_entries
<1>2. /\ server = "booting" /\ (\A u \in Workers : th[u] = Idle)
      /\ Named(t) /\ Sweeping /\ Recorded /\ Slotted
      /\ th[t] \in Local /\ Fine(th[t]) /\ th \in [Thread -> Local] /\ t \in Thread
      /\ entry \in [Entries -> Entry] /\ slot \in [Lanes -> Slot] /\ orch \in [Orchs -> Orch]
  BY <1>1, AtBoot
<1>3. Quiet' /\ Slotted'
  BY <1>1, StillQuiet, SlotsSame
<1>4. CASE settle_expired_orchestration_leases
  <2>1. PICK o \in Orchs : /\ orch' = [orch EXCEPT ![o].st = "over"]
                           /\ th' = [th EXCEPT ![t] = Completing(t, o, "leases")]
    BY <1>4 DEF settle_expired_orchestration_leases
  <2>2. UNCHANGED entry
    BY <1>4 DEF settle_expired_orchestration_leases
  <2>3. PICK l : l = Completing(t, o, "leases")
    OBVIOUS
  <2> HIDE DEF t
  <2>4. l.pc = "done" /\ l.orch = o /\ l.back = "leases"
    BY <1>2, <2>3 DEF Completing, Local
  <2>5. Rested /\ th'[t] = l
    BY <1>2, <2>1, <2>3, SweepMoves DEF t
  <2>6. orch'[o].st = "over" /\ \A p \in Orchs \ {o} : orch'[p] = orch[p]
    BY <1>2, <2>1 DEF Orch
  <2>7. Onward /\ Ended(o)'
    BY <2>6 DEF Onward, Ended
  <2>8. Recorded'
    BY <2>2, <2>7, EntriesSame
  <2>9. Named(t)'
    BY <2>4, <2>5, <2>7 DEF Named, Ended
  <2>10. Sweeping'
    BY <2>4, <2>5 DEF Sweeping, Starting, t
  <2> QED
    BY <1>1, <1>3, <2>5, <2>8, <2>9, <2>10, SweepStep DEF t
<1>5. CASE _drive_repairing_entries
  <2>1. PICK S : S = {e \in Entries : entry[e].st = "repairing"}
    OBVIOUS
  <2>2. /\ th[t].pc = "leases" /\ UNCHANGED <<orch, entry>>
        /\ th' = [th EXCEPT ![t].pc = "repairs", ![t].todo = S]
        /\ \A o \in Orchs : ~Live(o)
    BY <1>2, <1>5, <2>1 DEF _drive_repairing_entries
  <2> HIDE DEF t
  <2>3. th'[t].pc = "repairs" /\ th'[t].todo = S /\ th'[t].back = "idle"
    <3>1. th'[t] = [th[t] EXCEPT !.pc = "repairs", !.todo = S]
      BY <1>2, <2>2
    <3> QED
      BY <1>2, <2>2, <3>1 DEF Local, Fine
  <2>4. Rested
    BY <1>2, <2>2 DEF Rested, Workers, t
  <2>5. \A e \in S : Ended(entry[e].orch)
    <3>1. SUFFICES ASSUME NEW e \in S PROVE Ended(entry[e].orch)
      OBVIOUS
    <3>2. PICK o : o = entry[e].orch
      OBVIOUS
    <3>3. o \in Orchs /\ orch[o].st # "none"
      BY <1>2, <2>1, <3>1, <3>2 DEF Recorded, Known
    <3>4. orch[o].st \notin {"queued", "running"}
      BY <2>2, <3>3 DEF Live, LIVE_ORCHESTRATION_STATUSES
    <3>5. orch[o].st \in {"blocked", "over"}
      BY <1>2, <3>3, <3>4 DEF Orch, LIVE_ORCHESTRATION_STATUSES
    <3> QED
      BY <3>2, <3>3, <3>5 DEF Ended
  <2>6. Recorded'
    BY <2>2, OrchSame, EntriesSame
  <2>7. Named(t)'
    BY <2>3 DEF Named
  <2>8. Sweeping'
    BY <2>2, <2>3, <2>5 DEF Sweeping, Starting, Ended, t
  <2> QED
    BY <1>1, <1>3, <2>4, <2>6, <2>7, <2>8, SweepStep DEF t
<1>6. CASE _drive_one_repair
  <2>1. th[t].pc = "repairs" /\ UNCHANGED orch
    BY <1>6 DEF _drive_one_repair
  <2>2. th[t].todo \subseteq Entries /\ \A e \in th[t].todo : Ended(entry[e].orch)
    BY <1>2, <2>1 DEF Fine, Sweeping
  <2>3. PICK e \in th[t].todo :
         LET n == First(Naming(entry[e].orch))
             active == get_active_orchestration_run(entry[e].tkt)
             now == [th[t] EXCEPT !.todo = @ \ {e}, !.entry = e, !.lane = n, !.back = "repairs"]
         IN
         \/ th' = [th EXCEPT ![t] = [now EXCEPT !.pc = "settle"]] /\ UNCHANGED entry
         \/ /\ ~repair_exhausted(e) /\ n # 0
            /\ entry' = [entry EXCEPT ![e].tries = @ + 1]
            /\ th' = [th EXCEPT ![t] =
                 [now EXCEPT !.pc = IF active = 0 THEN "launch" ELSE "occupy", !.orch = active]]
    BY <1>6 DEF _drive_one_repair
  <2>4. PICK n, a : n = First(Naming(entry[e].orch)) /\ a = get_active_orchestration_run(entry[e].tkt)
    OBVIOUS
  <2>5. e \in Entries /\ n \in Lanes \cup {0} /\ a \in Orchs \cup {0} /\ Ended(entry[e].orch)
        /\ (a # 0 => Known(a)) /\ (n # 0 => n \in Lanes /\ slot[n].occ = entry[e].orch)
    BY <2>2, <2>4, Found DEF Known, Live, LIVE_ORCHESTRATION_STATUSES
  <2>6. n # 0 => slot[n].busy
    BY <1>2, <2>5, PoolAssumption DEF Slotted, Ended
  <2> HIDE DEF t
  <2> DEFINE now == [th[t] EXCEPT !.todo = @ \ {e}, !.entry = e, !.lane = n, !.back = "repairs"]
             pc == IF a = 0 THEN "launch" ELSE "occupy"
  <2>7. \/ th' = [th EXCEPT ![t] = [now EXCEPT !.pc = "settle"]] /\ UNCHANGED entry
        \/ /\ n # 0 /\ entry' = [entry EXCEPT ![e].tries = @ + 1]
           /\ th' = [th EXCEPT ![t] = [now EXCEPT !.pc = pc, !.orch = a]]
    BY <2>3, <2>4
  <2>8. now \in Local /\ now.todo = th[t].todo \ {e} /\ now.entry = e /\ now.lane = n /\ now.back = "repairs"
    <3> DEFINE m1 == [th[t] EXCEPT !.todo = @ \ {e}]
               m2 == [m1 EXCEPT !.entry = e]
               m3 == [m2 EXCEPT !.lane = n]
    <3>1. m1 \in Local /\ m1.todo = th[t].todo \ {e}
      BY <1>2, <2>2 DEF Local
    <3>2. now = [m3 EXCEPT !.back = "repairs"]
      OBVIOUS
    <3> HIDE DEF m1, now
    <3>3. m2 \in Local /\ m2.todo = th[t].todo \ {e} /\ m2.entry = e
      BY <2>5, <3>1 DEF Local
    <3> HIDE DEF m2
    <3>4. m3 \in Local /\ m3.todo = th[t].todo \ {e} /\ m3.entry = e /\ m3.lane = n
      BY <2>5, <3>3 DEF Local
    <3> HIDE DEF m3
    <3> QED
      BY <3>2, <3>4 DEF Local
  <2> HIDE DEF now
  <2>9. CASE th' = [th EXCEPT ![t] = [now EXCEPT !.pc = "settle"]] /\ UNCHANGED entry
    <3>1. Rested /\ th'[t] = [now EXCEPT !.pc = "settle"]
      BY <2>9, SweepMoves DEF t
    <3>2. th'[t].pc = "settle" /\ th'[t].todo = th[t].todo \ {e} /\ th'[t].entry = e
          /\ th'[t].back = "repairs"
      BY <2>8, <3>1 DEF Local
    <3>3. Recorded'
      BY <2>1, <2>9, OrchSame, EntriesSame
    <3>4. Named(t)'
      BY <2>1, <2>5, <2>9, <3>2 DEF Named, Ended
    <3>5. Sweeping'
      BY <2>1, <2>2, <2>9, <3>2 DEF Sweeping, Starting, Ended, t
    <3> QED
      BY <1>1, <1>3, <3>1, <3>3, <3>4, <3>5, SweepStep DEF t
  <2>10. CASE /\ n # 0 /\ entry' = [entry EXCEPT ![e].tries = @ + 1]
              /\ th' = [th EXCEPT ![t] = [now EXCEPT !.pc = pc, !.orch = a]]
    <3>1. Rested /\ th'[t] = [now EXCEPT !.pc = pc, !.orch = a]
      BY <2>10, SweepMoves DEF t
    <3>2. th'[t].pc = pc /\ th'[t].orch = a
      BY <2>8, <3>1 DEF Local
    <3>3. th'[t].todo = th[t].todo \ {e} /\ th'[t].entry = e /\ th'[t].lane = n /\ th'[t].back = "repairs"
      BY <2>8, <3>1 DEF Local
    <3>4. /\ entry'[e].st = entry[e].st /\ entry'[e].orch = entry[e].orch
          /\ \A f \in Entries : f # e => entry'[f] = entry[f]
      BY <1>2, <2>5, <2>10 DEF Entry
    <3>5. Recorded'
      BY <1>2, <2>1, <2>5, <3>4 DEF Recorded, Known, Ended
    <3>6. Named(t)'
      BY <2>1, <2>5, <3>2 DEF Named, Known
    <3>7. Sweeping'
      <4>1. \A f \in Entries : entry'[f].orch = entry[f].orch
        BY <3>4
      <4>2. \A f \in th'[t].todo : Ended(entry'[f].orch)
        BY <2>2, <3>3, <4>1
      <4>3. slot'[n].busy
        BY <1>1, <2>6, <2>10
      <4>4. th'[t].entry \notin th'[t].todo
        BY <3>3
      <4>5. th'[t].pc # "reclaim"
        BY <2>1, <3>2
      <4> QED
        BY <2>1, <3>3, <4>2, <4>3, <4>4, <4>5 DEF Sweeping, Ended, t
    <3> QED
      BY <1>1, <1>3, <3>1, <3>5, <3>6, <3>7, SweepStep DEF t
  <2> QED
    BY <2>7, <2>9, <2>10
<1>7. CASE _settle_finished_entries
  <2>1. /\ th[t].pc = "repairs" /\ UNCHANGED orch /\ Goto(t, "slots")
        /\ entry' = [e \in Entries |-> IF e \in FinishedEntries
                                       THEN [entry[e] EXCEPT !.st = "settled"] ELSE entry[e]]
    BY <1>7 DEF _settle_finished_entries
  <2>2. Recorded'
    <3>1. ASSUME NEW e \in Entries, e \in FinishedEntries
          PROVE  entry'[e].st = "settled" /\ entry'[e].orch = entry[e].orch /\ Ended(entry[e].orch)
      <4>1. entry'[e] = [entry[e] EXCEPT !.st = "settled"] /\ entry[e] \in Entry
        BY <1>2, <2>1, <3>1
      <4>2. PICK o : o = entry[e].orch
        OBVIOUS
      <4>3. o \in Orchs /\ orch[o].st # "none" /\ ~Live(o)
        BY <1>2, <3>1, <4>2 DEF FinishedEntries, Recorded, Known
      <4>4. orch[o].st \in {"blocked", "over"}
        BY <1>2, <4>3 DEF Orch, Live, LIVE_ORCHESTRATION_STATUSES
      <4> QED
        BY <4>1, <4>2, <4>3, <4>4 DEF Ended, Entry
    <3>2. ASSUME NEW e \in Entries, e \notin FinishedEntries PROVE entry'[e] = entry[e]
      BY <2>1, <3>2
    <3>3. ASSUME NEW e \in Entries
          PROVE  /\ entry'[e].st \in {"none", "queued"} => entry'[e].orch = 0
                 /\ entry'[e].st \notin {"none", "queued"} => Known(entry'[e].orch)
                 /\ entry'[e].st = "settled" => Ended(entry'[e].orch)
      BY <1>2, <3>1, <3>2 DEF Recorded, Known, Ended
    <3> QED
      BY <2>1, <3>3 DEF Recorded, Known, Ended
  <2> HIDE DEF t
  <2>3. th'[t] = [th[t] EXCEPT !.pc = "slots"] /\ Rested
    BY <1>2, <2>1 DEF Goto, Rested, Workers, t
  <2>4. th'[t].pc = "slots" /\ th'[t].back = "idle"
    BY <1>2, <2>1, <2>3 DEF Local, Fine
  <2>5. Named(t)'
    BY <2>4 DEF Named
  <2>6. Sweeping'
    BY <2>4 DEF Sweeping, Starting, t
  <2> QED
    BY <1>1, <1>3, <2>2, <2>3, <2>5, <2>6, SweepStep DEF t
<1> QED
  BY <1>4, <1>5, <1>6, <1>7

(* The pass itself: slots, lanes, orphans.                                  *)
LEMMA BootLast ==
    ASSUME TypeInv, Calm,
           \/ reconcile_slots \/ Reclaim \/ reconcile_lanes
           \/ claim_orphaned_orchestrations \/ Attach
    PROVE  Calm'
<1> DEFINE t == sweep
<1>1. th[t].pc # "idle" /\ UNCHANGED <<orch, scene>>
  BY DEF reconcile_slots, Reclaim, reconcile_lanes, claim_orphaned_orchestrations, Attach
<1>2. /\ server = "booting" /\ (\A u \in Workers : th[u] = Idle)
      /\ Named(t) /\ Sweeping /\ Recorded /\ Slotted
      /\ th[t] \in Local /\ Fine(th[t]) /\ th \in [Thread -> Local] /\ t \in Thread
      /\ entry \in [Entries -> Entry] /\ slot \in [Lanes -> Slot] /\ orch \in [Orchs -> Orch]
  BY <1>1, AtBoot
<1>3. Quiet' /\ Onward
  BY <1>1, StillQuiet, OrchSame
<1>4. CASE reconcile_slots
  <2>1. PICK S, G : /\ th' = [th EXCEPT ![t].pc = "reclaim", ![t].todo = S, ![t].ghosts = G]
                    /\ \A n \in G : slot[n].occ = 0
    <3>1. \A n \in {m \in Dead : slot[m].occ = 0} : slot[n].occ = 0
      OBVIOUS
    <3> QED
      BY <1>4, <3>1 DEF reconcile_slots
  <2>2. th[t].pc = "slots" /\ UNCHANGED <<slot, entry, server>>
    BY <1>4 DEF reconcile_slots
  <2> HIDE DEF t
  <2>3. th'[t].pc = "reclaim" /\ th'[t].back = "idle" /\ th'[t].ghosts = G
    <3>1. th'[t] = [th[t] EXCEPT !.pc = "reclaim", !.todo = S, !.ghosts = G]
      BY <1>2, <2>1
    <3> QED
      BY <1>2, <2>2, <3>1 DEF Local, Fine
  <2>4. Rested
    BY <1>2, <2>1 DEF Rested, Workers, t
  <2>5. Slotted' /\ Recorded'
    BY <1>3, <2>2, SlotsSame, EntriesSame
  <2>6. Named(t)'
    BY <2>3 DEF Named
  <2>7. Sweeping'
    BY <2>1, <2>2, <2>3 DEF Sweeping, Starting, t
  <2> QED
    BY <1>1, <1>3, <2>2, <2>4, <2>5, <2>6, <2>7, SweepStep DEF t
<1>5. CASE Reclaim
  <2>1. PICK S : th' = [th EXCEPT ![t].pc = "heads", ![t].ghosts = {}, ![t].todo = S]
    BY <1>5 DEF Reclaim
  <2>2. /\ th[t].pc = "reclaim" /\ UNCHANGED <<entry, server>>
        /\ slot' = [n \in Lanes |->
               IF n \notin th[t].todo THEN slot[n]
               ELSE [Free EXCEPT !.occ = IF n \in th[t].ghosts THEN slot[n].occ ELSE 0]]
    BY <1>5 DEF Reclaim
  <2> HIDE DEF t
  <2>3. th'[t].pc = "heads" /\ th'[t].back = "idle"
    <3>1. th'[t] = [th[t] EXCEPT !.pc = "heads", !.ghosts = {}, !.todo = S]
      BY <1>2, <2>1
    <3> QED
      BY <1>2, <2>2, <3>1 DEF Local, Fine
  <2>4. Rested
    BY <1>2, <2>1 DEF Rested, Workers, t
  <2>5. Recorded'
    BY <1>3, <2>2, EntriesSame
  <2>6. Slotted'
    <3>1. \A n \in th[t].ghosts : slot[n].occ = 0
      BY <1>2, <2>2 DEF Sweeping, t
    <3>2. ASSUME NEW n \in Lanes, n \in th[t].todo PROVE slot'[n].occ = 0
      BY <2>2, <3>1, <3>2 DEF Free
    <3>3. ASSUME NEW n \in Lanes, n \notin th[t].todo PROVE slot'[n] = slot[n]
      BY <2>2, <3>3
    <3> QED
      BY <1>2, <3>2, <3>3 DEF Slotted
  <2>7. Named(t)'
    BY <2>3 DEF Named
  <2>8. Sweeping'
    BY <2>3 DEF Sweeping, Starting, t
  <2> QED
    BY <1>1, <1>3, <2>2, <2>4, <2>5, <2>6, <2>7, <2>8, SweepStep DEF t
<1>6. CASE reconcile_lanes
  <2>1. PICK n, S : th' = [th EXCEPT ![t].pc = "take", ![t].lane = n, ![t].todo = S, ![t].back = "heads"]
    BY <1>6 DEF reconcile_lanes
  <2>2. UNCHANGED <<slot, entry, server>>
    BY <1>6 DEF reconcile_lanes
  <2> HIDE DEF t
  <2>3. th'[t].pc = "take" /\ th'[t].back = "heads"
    <3>1. th'[t] = [th[t] EXCEPT !.pc = "take", !.lane = n, !.todo = S, !.back = "heads"]
      BY <1>2, <2>1
    <3> QED
      BY <1>2, <3>1 DEF Local
  <2>4. Rested
    BY <1>2, <2>1 DEF Rested, Workers, t
  <2>5. Slotted' /\ Recorded'
    BY <1>3, <2>2, SlotsSame, EntriesSame
  <2>6. Named(t)'
    BY <2>3 DEF Named
  <2>7. Sweeping'
    BY <2>3 DEF Sweeping, Starting, t
  <2> QED
    BY <1>1, <1>3, <2>2, <2>4, <2>5, <2>6, <2>7, SweepStep DEF t
<1>7. CASE claim_orphaned_orchestrations
  <2>1. UNCHANGED <<slot, entry>>
    BY <1>7 DEF claim_orphaned_orchestrations
  <2>2. Slotted' /\ Recorded'
    BY <1>3, <2>1, SlotsSame, EntriesSame
  <2>3. CASE PassEnds
    <3>1. server' = "up" /\ th' = [th EXCEPT ![t] = Idle]
      BY <1>2, <2>3 DEF PassEnds, Stop
    <3>2. Rested /\ th'[t] = Idle
      BY <3>1, SweepMoves
    <3>3. Named(t)' /\ Sweeping'
      BY <3>2, IdleFields DEF Named, Sweeping, Starting
    <3> QED
      BY <1>1, <1>3, <2>2, <3>1, <3>2, <3>3, SweepStep
  <2>4. CASE ~PassEnds
    <3>1. PICK n, o : n = Least({m \in Slots : ~slot[m].busy}) /\ o = Least(Orphans)
      OBVIOUS
    <3>2. /\ Orphans # {} /\ UNCHANGED server
          /\ th' = [th EXCEPT ![t] = [Idle EXCEPT !.pc = "attach", !.lane = n, !.orch = o]]
      BY <1>7, <2>4, <3>1 DEF claim_orphaned_orchestrations
    <3>3. o \in Orchs /\ Live(o)
      <4>1. Orphans \in SUBSET (Nat \ {0})
        BY PoolAssumption DEF Orphans
      <4>2. o \in Orphans
        BY <3>1, <3>2, <4>1, FirstOf
      <4> QED
        BY <4>2 DEF Orphans
    <3>4. Known(o)
      BY <3>3 DEF Known, Live, LIVE_ORCHESTRATION_STATUSES
    <3>5. PICK l : l = [Idle EXCEPT !.pc = "attach", !.lane = n, !.orch = o]
      OBVIOUS
    <3>6. l.pc = "attach" /\ l.orch = o /\ l.back = "idle"
      BY <3>5 DEF Idle
    <3>7. Rested /\ th'[t] = l
      BY <3>2, <3>5, SweepMoves
    <3>8. Named(t)'
      BY <1>1, <3>4, <3>6, <3>7 DEF Named, Known
    <3>9. Sweeping'
      BY <3>6, <3>7 DEF Sweeping, Starting
    <3> QED
      BY <1>1, <1>3, <2>2, <3>2, <3>7, <3>8, <3>9, SweepStep
  <2> QED
    BY <2>3, <2>4
<1>8. CASE Attach
  <2>1. PICK n, o : n = th[t].lane /\ o = th[t].orch
    OBVIOUS
  <2>2. /\ th[t].pc = "attach" /\ server' = "up" /\ th' = [th EXCEPT ![t] = Idle]
        /\ slot' = [slot EXCEPT ![n] = Holding(o)]
        /\ entry' = ensure_active_entry_for_orchestration(n, o, entry)
        /\ (EntriesOf(o) # {} \/ NewEntry # 0)
    BY <1>2, <1>8, <2>1 DEF Attach, PassEnds, Stop
  <2>3. Rested /\ th'[t] = Idle
    BY <2>2, SweepMoves
  <2>4. Named(t)' /\ Sweeping'
    BY <2>3, IdleFields DEF Named, Sweeping, Starting
  <2>5. Known(o)
    BY <1>2, <2>1, <2>2 DEF Named
  <2>6. Recorded'
    BY <1>3, <2>2, <2>5, EntryEnsured
  <2>7. Slotted'
    <3>1. Holding(o).busy
      BY DEF Holding
    <3>2. \A m \in Lanes : slot'[m] = slot[m] \/ slot'[m] = Holding(o)
      BY <1>2, <2>2
    <3> QED
      BY <1>2, <3>1, <3>2 DEF Slotted
  <2> QED
    BY <1>1, <1>3, <2>2, <2>3, <2>4, <2>6, <2>7, SweepStep
<1> QED
  BY <1>4, <1>5, <1>6, <1>7, <1>8

-----------------------------------------------------------------------------
(* Time, and the server.                                                    *)
LEMMA CalmServer ==
    ASSUME TypeInv, Calm,
           (\E n \in Lanes : GraceEnds(n)) \/ begin_drain \/ end_drain \/ Crash \/ Boot
    PROVE  Calm'
<1>1. UNCHANGED <<orch, entry>>
  BY DEF GraceEnds, begin_drain, end_drain, Crash, Boot
<1>2. Quiet'
  <2>1. UNCHANGED scene \/ Spend("slow") \/ Spend("drain") \/ Spend("crash")
    BY DEF GraceEnds, begin_drain, end_drain, Crash, Boot
  <2> QED
    BY <2>1, StillQuiet DEF Events
<1>3. Recorded'
  BY <1>1, OrchSame, EntriesSame
<1>4. CASE \E n \in Lanes : GraceEnds(n)
  <2>1. PICK n \in Lanes : GraceEnds(n)
    BY <1>4
  <2>2. slot' = [slot EXCEPT ![n].fresh = FALSE] /\ UNCHANGED <<th, server>>
    BY <2>1 DEF GraceEnds
  <2>3. slot \in [Lanes -> Slot] /\ 0 \notin Lanes
    BY PoolAssumption DEF TypeInv, Typed, TypeOK
  <2>4. \A m \in Lanes : slot'[m].busy = slot[m].busy /\ slot'[m].occ = slot[m].occ
    BY <2>2, <2>3 DEF Slot
  <2>5. Slotted'
    BY <2>4 DEF Calm, Slotted
  <2>6. Alone' /\ OneHolds'
    BY <2>2 DEF Calm, Alone, OneHolds, Serving, Holds, Workers
  <2>7. ASSUME NEW t \in Thread PROVE Named(t)'
    BY <1>1, <2>2 DEF Calm, Named, Known, Ended
  <2>8. ASSUME NEW t \in Workers PROVE Own(t)'
    <3>1. Own(t) /\ th[t] \in Local /\ Fine(th[t])
      BY DEF Calm, Workers, TypeInv, Typed, TypeOK, LocalOK
    <3>2. /\ th[t].lane # 0 => th[t].lane \in Lanes
          /\ th[t].pc \in Admitting => th[t].mine \in Lanes
          /\ th[t].pc \in Starting => th[t].lane \in Lanes
      BY <3>1 DEF Local, Fine
    <3> QED
      BY <1>1, <2>2, <2>4, <3>1, <3>2 DEF Own
  <2>9. Sweeping'
    <3>1. Sweeping /\ Fine(th[sweep])
      BY Threads DEF Calm, TypeInv, Typed, LocalOK
    <3>2. th[sweep].pc \in Starting => th[sweep].lane \in Lanes
      BY <3>1 DEF Fine
    <3> QED
      BY <1>1, <2>2, <2>4, <3>1, <3>2 DEF Sweeping, Ended
  <2>10. (\A t \in Thread : Named(t)') /\ (\A t \in Workers : Own(t)')
    BY <2>7, <2>8
  <2> QED
    BY <1>2, <1>3, <2>5, <2>6, <2>9, <2>10 DEF Calm, Workers
<1>5. CASE begin_drain \/ end_drain
  <2>1. UNCHANGED <<slot, th>> /\ Serving /\ Serving'
    BY <1>5 DEF begin_drain, end_drain, Serving
  <2>2. Alone'
    BY <2>1 DEF Calm, Alone, Serving
  <2>3. Slotted' /\ OneHolds' /\ Sweeping'
    BY <1>1, <2>1 DEF Calm, Slotted, OneHolds, Holds, Sweeping, Ended, Workers
  <2>4. ASSUME NEW t \in Thread PROVE Named(t)'
    BY <1>1, <2>1 DEF Calm, Named, Known, Ended
  <2>5. ASSUME NEW t \in Workers PROVE Own(t)'
    BY <1>1, <2>1 DEF Calm, Own
  <2>6. (\A t \in Thread : Named(t)') /\ (\A t \in Workers : Own(t)')
    BY <2>4, <2>5
  <2> QED
    BY <1>2, <1>3, <2>2, <2>3, <2>6 DEF Calm, Workers
<1>6. ASSUME UNCHANGED slot, NEW b, th' = [t \in Thread |-> IF t = sweep THEN b ELSE Idle],
             b = Idle \/ (b.pc = "leases" /\ b.back = "idle"),
             server' = "down" => b = Idle, ~Serving'
      PROVE  Calm'
  <2>1. th'[sweep] = b /\ (\A t \in Workers : th'[t] = Idle) /\ sweep \in Thread
    BY <1>6, Threads DEF Workers
  <2>2. b.back = "idle" /\ b.pc \in {"idle", "leases"}
    BY <1>6, IdleFields
  <2>3. \A t \in Workers : th'[t].pc = "idle" /\ th'[t].back = "idle"
    BY <2>1, IdleFields
  <2>4. Alone'
    BY <1>6, <2>1 DEF Alone, Serving, Workers
  <2>5. Slotted'
    BY <1>6, SlotsSame
  <2>6. Sweeping'
    BY <2>1, <2>2 DEF Sweeping, Starting
  <2>7. OneHolds'
    BY <2>3 DEF OneHolds, Workers, Holds, Admitting, Starting
  <2>8. \A t \in Thread : th'[t].pc \in {"idle", "leases"}
    BY <2>1, <2>2, <2>3 DEF Workers
  <2>9. \A t \in Thread : Named(t)'
    BY <2>8 DEF Named
  <2>10. \A t \in Workers : Own(t)'
    BY <2>3 DEF Own, Admitting, Starting
  <2>11. (\A t \in Thread : Named(t)') /\ (\A t \in Workers : Own(t)')
    BY <2>9, <2>10
  <2> QED
    BY <1>2, <1>3, <2>4, <2>5, <2>6, <2>7, <2>11 DEF Calm, Workers
<1>7. CASE Crash
  <2>1. UNCHANGED slot /\ th' = [t \in Thread |-> IF t = sweep THEN Idle ELSE Idle] /\ ~Serving'
    BY <1>7 DEF Crash, Serving
  <2> QED
    BY <1>6, <2>1
<1>8. CASE Boot
  <2>1. PICK b : b = [Idle EXCEPT !.pc = "leases"]
    OBVIOUS
  <2>2. b.pc = "leases" /\ b.back = "idle"
    BY <2>1 DEF Idle
  <2>3. \A t \in Thread : th[t] = Idle
    BY <1>8 DEF Boot, Calm, Alone
  <2>4. th' = [th EXCEPT ![sweep] = b]
    BY <1>8, <2>1, <2>3, Threads DEF Boot
  <2>5. th' = [t \in Thread |-> IF t = sweep THEN b ELSE Idle]
    BY <2>3, <2>4, Threads DEF TypeInv, Typed, TypeOK
  <2>6. UNCHANGED slot /\ server' = "booting" /\ ~Serving'
    BY <1>8 DEF Boot, Serving
  <2> QED
    BY <1>6, <2>2, <2>5, <2>6
<1> QED
  BY <1>4, <1>5, <1>7, <1>8

(* Where the pass runs at boot only, no request ends an orchestration under *)
(* its driver (complete_orchestration) and no start is refused once its     *)
(* slot is bound. Both are calls the code makes; each lets a second thread  *)
(* free a slot the first still counts on.                                   *)
Undisturbed ==
    \A s \in Scenarios : ~s.timer => s.events["cancel"] = 0 /\ s.events["refuse"] = 0

(* The inductive invariant: the types always, the rest where the pass runs  *)
(* at boot only.                                                            *)
PoolInv == TypeInv /\ (~scene.timer => Calm)

(* Whether the pass also runs on a timer is settled at the start.           *)
LEMMA TimerKept ==
    ASSUME TypeInv, [Next]_vars
    PROVE  scene'.timer = scene.timer
<1>1. UNCHANGED scene \/ \E what \in Events : Spend(what)
  <2>1. CASE \E w \in Webs : orchestrate_ticket(w) \/ add_to_lane(w) \/ complete_orchestration(w)
    BY <2>1 DEF orchestrate_ticket, add_to_lane, complete_orchestration, Events
  <2>2. CASE \E w \in Webs : Request(w) \/ abandon_claim(w)
    BY <2>2 DEF Request, abandon_claim, _reserve, Find, claim_orchestration_run, bind,
                schedule_orchestration, release, already_queued, Insert, Events
  <2>3. CASE \E t \in Thread : Call(t)
    BY <2>3 DEF Call, claim_lane_slot, start_lane_head, dispatch_orchestration,
                _start_entry_work, release_slot, on_orchestration_complete, _hold_for_repair,
                SettleEntry, FreeLane
  <2>4. CASE \E o \in Orchs : Drive(o)
    BY <2>4 DEF Drive, start_orchestration_run, _finish_orchestration_run, Events
  <2>5. CASE settle_expired_orchestration_leases \/ Pass
    BY <2>5 DEF settle_expired_orchestration_leases, Pass, _drive_repairing_entries, _drive_one_repair,
                _settle_finished_entries, reconcile_slots, Reclaim, reconcile_lanes,
                claim_orphaned_orchestrations, Attach
  <2>6. CASE reconcile_once
    BY <2>6 DEF reconcile_once, Events
  <2>7. CASE (\E n \in Lanes : GraceEnds(n)) \/ begin_drain \/ end_drain \/ Crash \/ Boot
    BY <2>7 DEF GraceEnds, begin_drain, end_drain, Crash, Boot, Events
  <2>8. CASE UNCHANGED vars
    BY <2>8 DEF vars
  <2> QED
    BY <2>1, <2>2, <2>3, <2>4, <2>5, <2>6, <2>7, <2>8 DEF Next
<1> QED
  BY <1>1, Spent DEF TypeInv

(* Where it does not, every step keeps the rest.                            *)
LEMMA CalmStep ==
    ASSUME TypeInv, Calm, ~scene.timer, [Next]_vars
    PROVE  Calm'
<1>1. CASE UNCHANGED vars
  BY <1>1 DEF vars, Calm, Quiet, Alone, Serving, Slotted, Recorded, Known, Ended, OneHolds, Holds,
              Workers, Sweeping, Named, Own
<1>2. CASE \E w \in Webs : orchestrate_ticket(w) \/ add_to_lane(w) \/ complete_orchestration(w)
  <2>1. \A w \in Webs : ~complete_orchestration(w)
    BY DEF complete_orchestration, Spend, Calm, Quiet
  <2> QED
    BY <1>2, <2>1, CalmArrival
<1>3. CASE \E w \in Webs : Request(w) \/ abandon_claim(w)
  <2>1. \A w \in Webs : ~abandon_claim(w)
    BY DEF abandon_claim, Spend, Calm, Quiet
  <2> QED
    BY <1>3, <2>1, CalmClaim, CalmRequest DEF Request
<1>4. CASE \E t \in Thread : Call(t)
  <2>1. PICK t \in Thread : Call(t)
    BY <1>4
  <2>2. CASE t \in Workers
    BY <2>1, <2>2, CalmStartLane, CalmComplete DEF Call
  <2>3. CASE t = sweep
    BY <2>1, <2>3, BootStartsLane, BootCompletes DEF Call
  <2> QED
    BY <2>2, <2>3 DEF Workers
<1>5. CASE \E o \in Orchs : Drive(o)
  BY <1>5, CalmDrive
<1>6. CASE settle_expired_orchestration_leases \/ Pass
  BY <1>6, BootFirst, BootLast DEF Pass
<1>7. CASE reconcile_once
  BY <1>7 DEF reconcile_once
<1>8. CASE (\E n \in Lanes : GraceEnds(n)) \/ begin_drain \/ end_drain \/ Crash \/ Boot
  BY <1>8, CalmServer
<1> QED
  BY <1>1, <1>2, <1>3, <1>4, <1>5, <1>6, <1>7, <1>8 DEF Next

(* The invariant holds at the start.                                        *)
LEMMA PoolInit ==
    ASSUME Undisturbed, Init
    PROVE  PoolInv
<1>1. TypeInv
  BY TypeInit
<1>2. /\ slot = [n \in Lanes |-> Free] /\ th = [t \in Thread |-> Idle] /\ server = "up"
      /\ entry = [e \in Entries |-> [st |-> "none", tkt |-> 0, lane |-> 0, orch |-> 0, tries |-> 0]]
      /\ scene \in Scenarios
  BY DEF Init
<1>3. ASSUME ~scene.timer PROVE Calm
  <2>1. Quiet
    BY <1>2, <1>3 DEF Undisturbed, Quiet
  <2>2. \A t \in Thread : th[t].pc = "idle" /\ th[t].back = "idle"
    BY <1>2, IdleFields
  <2>3. Alone
    BY <1>2, Threads DEF Alone, Serving
  <2>4. Slotted
    BY <1>2 DEF Slotted, Free
  <2>5. Recorded
    BY <1>2 DEF Recorded
  <2>6. OneHolds
    BY <2>2 DEF OneHolds, Holds, Workers, Admitting, Starting
  <2>7. Sweeping
    BY <2>2, Threads DEF Sweeping, Starting
  <2>8. \A t \in Thread : Named(t)
    BY <2>2 DEF Named
  <2>9. \A t \in Workers : Own(t)
    BY <2>2 DEF Own, Workers, Admitting, Starting
  <2> QED
    BY <2>1, <2>3, <2>4, <2>5, <2>6, <2>7, <2>8, <2>9 DEF Calm
<1> QED
  BY <1>1, <1>3 DEF PoolInv

(* Every step keeps it.                                                     *)
LEMMA PoolStep ==
    ASSUME PoolInv, [Next]_vars
    PROVE  PoolInv'
<1>1. TypeInv' /\ scene'.timer = scene.timer
  BY TypeStep, TimerKept DEF PoolInv
<1>2. ~scene.timer => Calm'
  BY CalmStep DEF PoolInv
<1> QED
  BY <1>1, <1>2 DEF PoolInv

(* The invariant always holds: a claim by compare-and-set is one thread's   *)
(* until that thread names or frees the slot, and a driver frees only a     *)
(* slot that still names its own orchestration, across crashes, drains,     *)
(* held repairs and claims past their grace.                                *)
THEOREM PoolInvariant ==
    ASSUME Undisturbed
    PROVE  Spec => []PoolInv
<1>1. Init => PoolInv
  BY PoolInit
<1>2. PoolInv /\ [Next]_vars => PoolInv'
  BY PoolStep
<1> QED
  BY <1>1, <1>2, PTL DEF Spec

(* A slot claimed by _claim_slot_row is in one thread's hands until it is   *)
(* named or given back, whichever of the reservations, lane starts and      *)
(* completions are under way, and through any number of crashes and boots,  *)
(* when the pass runs at boot only.                                         *)
THEOREM SlotsHaveOneHolder ==
    ASSUME Undisturbed
    PROVE  Spec => []OneHolder
<1>1. PoolInv => OneHolder
  <2>1. SUFFICES ASSUME PoolInv, ~scene.timer, NEW n \in Lanes, NEW t \in Thread, NEW u \in Thread,
                        Holds(t, n), Holds(u, n)
                 PROVE  t = u
    BY DEF OneHolder
  <2>2. Calm /\ TypeInv
    BY <2>1 DEF PoolInv
  <2>3. \A v \in Thread : Holds(v, n) => th[v].pc # "idle"
    BY DEF Holds, Admitting, Starting
  <2>4. CASE t \in Workers /\ u \in Workers
    BY <2>1, <2>2, <2>4 DEF Calm, OneHolds
  <2>5. CASE t = sweep \/ u = sweep
    <3>1. \A v \in Workers : th[v] = Idle
      BY <2>1, <2>2, <2>3, <2>5, AtBoot
    <3> QED
      BY <2>1, <2>3, <2>5, <3>1, IdleFields DEF Workers
  <2> QED
    BY <2>4, <2>5 DEF Workers
<1> QED
  BY <1>1, PoolInvariant, PTL

(* A lane entry is settled only when the orchestration it was started for   *)
(* has ended: neither on_orchestration_complete nor the sweep of a boot     *)
(* closes the entry of one that may still be driven.                        *)
THEOREM SettledWorkIsOver ==
    ASSUME Undisturbed
    PROVE  Spec => []SettledIsOver
<1>1. PoolInv => SettledIsOver
  BY DEF PoolInv, Calm, Recorded, SettledIsOver, Ended, Live, LIVE_ORCHESTRATION_STATUSES
<1> QED
  BY <1>1, PoolInvariant, PTL

-----------------------------------------------------------------------------
(* Which slots a worker's step writes.                                      *)
LEMMA WorkersWrite ==
    ASSUME TypeInv, Calm, NEW t \in Workers,
           Call(t) \/ \E w \in Webs : t = web(w) /\ Request(w)
    PROVE  TouchesSlots(t)
<1>1. CASE UNCHANGED slot
  BY <1>1, SlotsSame
<1>2. CASE th[t].pc # "idle" /\ slot' # slot
  <2>1. Own(t) /\ Named(t) /\ th[t] \in Local /\ Fine(th[t])
    BY <1>2, AtWork
  <2>2. CASE \E n \in Slots : _claim_slot_row(t, n)
    BY <2>2, SlotClaim
  <2>3. CASE \E w \in Webs : t = web(w) /\ bind(w)
    <3>1. PICK w \in Webs : t = web(w) /\ bind(w)
      BY <2>3
    <3>2. PICK n, o : n = th[t].mine /\ o = th[t].bound
      OBVIOUS
    <3>3. th[t].pc = "bind" /\ slot' = [slot EXCEPT ![n].occ = o, ![n].fresh = FALSE]
      BY <3>1, <3>2 DEF bind
    <3>4. n \in Lanes /\ o \in Orchs /\ Holds(t, n) /\ slot[n].busy
      BY <2>1, <3>2, <3>3 DEF Fine, Admitting, Holds, Own
    <3> QED
      BY <3>3, <3>4, SlotNamed
  <2>4. CASE \E w \in Webs : t = web(w) /\ release(w)
    BY <2>1, <2>4 DEF release, Own
  <2>5. CASE claim_lane_slot(t)
    <3>1. PICK n : n = th[t].lane
      OBVIOUS
    <3>2. _claim_slot_row(t, n)
      BY <1>2, <2>5, <3>1 DEF claim_lane_slot
    <3> QED
      BY <3>2, SlotClaim
  <2>6. CASE _start_entry_work(t)
    <3>1. PICK n, o : n = th[t].lane /\ o = th[t].orch
      OBVIOUS
    <3>2. th[t].pc = "occupy" /\ slot' = [slot EXCEPT ![n].occ = o, ![n].fresh = FALSE]
      BY <2>6, <3>1 DEF _start_entry_work
    <3>3. n \in Lanes /\ o \in Orchs /\ Holds(t, n) /\ slot[n].busy
      BY <2>1, <3>1, <3>2 DEF Fine, Starting, Holds, Own, Named, Known
    <3> QED
      BY <3>2, <3>3, SlotNamed
  <2>7. CASE release_slot(t) \/ FreeLane(t)
    <3>1. PICK n : n = th[t].lane
      OBVIOUS
    <3>2. /\ th[t].pc = "give_back" \/ th[t].pc = "free"
          /\ slot' = [slot EXCEPT ![n] = Free]
      BY <2>7, <3>1 DEF release_slot, FreeLane
    <3>3. Takes(t, n)
      BY <3>1, <3>2 DEF Takes, Holds, Starting
    <3> QED
      BY <3>2, <3>3, SlotFreed
  <2>8. CASE \E w \in Webs : t = web(w) /\ _reserve(w)
    BY <1>2, <2>2, <2>8 DEF _reserve
  <2> QED
    BY <1>2, <2>3, <2>4, <2>5, <2>6, <2>7, <2>8
       DEF Call, Request, Find, claim_orchestration_run, schedule_orchestration, already_queued, Insert,
           start_lane_head, dispatch_orchestration, on_orchestration_complete, _hold_for_repair,
           SettleEntry
<1>3. th[t].pc # "idle"
  BY DEF Call, claim_lane_slot, start_lane_head, dispatch_orchestration,
         _start_entry_work, release_slot, on_orchestration_complete, _hold_for_repair,
         SettleEntry, FreeLane, Request, _reserve, Find, claim_orchestration_run, bind,
         schedule_orchestration, release, already_queued, Insert
<1> QED
  BY <1>1, <1>2, <1>3

(* The pass moves no driver while it writes.                                *)
LEMMA SweepLeaves ==
    ASSUME TypeInv, Calm, NEW o \in Orchs, Pass \/ settle_expired_orchestration_leases \/ Call(sweep)
    PROVE  th'[drv(o)].pc = "idle"
<1> DEFINE d == drv(o)
<1>1. d \in Workers /\ d # sweep /\ d \in Thread
  BY DriverWorks, Threads
<1> HIDE DEF d
<1>2. th[sweep].pc # "idle"
  BY DEF settle_expired_orchestration_leases, Pass, _drive_repairing_entries, _drive_one_repair,
         _settle_finished_entries, reconcile_slots, Reclaim, reconcile_lanes,
         claim_orphaned_orchestrations, Attach,
         Call, claim_lane_slot, start_lane_head, dispatch_orchestration,
         _start_entry_work, release_slot, on_orchestration_complete, _hold_for_repair,
         SettleEntry, FreeLane
<1>3. server = "booting" /\ th[d] = Idle /\ th \in [Thread -> Local]
  BY <1>1, <1>2, AtBoot
<1>4. \A p : Scheduled(p) = th
  BY <1>3 DEF Scheduled
<1>5. th'[d] = th[d]
  BY <1>1, <1>3, <1>4
     DEF settle_expired_orchestration_leases, Pass, _drive_repairing_entries, _drive_one_repair,
         _settle_finished_entries, reconcile_slots, Reclaim, reconcile_lanes,
         claim_orphaned_orchestrations, Attach, PassEnds, Goto, Stop, Return,
         Call, claim_lane_slot, start_lane_head, dispatch_orchestration,
         _start_entry_work, release_slot, on_orchestration_complete, _hold_for_repair,
         SettleEntry, FreeLane
<1> QED
  BY <1>3, <1>5, IdleFields DEF d

(* No step takes a slot from an orchestration whose driver is alive after   *)
(* it.                                                                      *)
LEMMA Spared ==
    ASSUME TypeInv, Calm, ~scene.timer, Next, NEW n \in Lanes, NEW o \in Orchs,
           slot[n].busy, slot[n].occ = o, th'[drv(o)].pc \in {"adopt", "drive"}
    PROVE  slot'[n].busy /\ slot'[n].occ = o
<1> DEFINE Same == slot'[n].busy = slot[n].busy /\ slot'[n].occ = slot[n].occ
<1>1. 0 \notin Orchs /\ 0 \notin Lanes
  BY PoolAssumption
<1>2. ASSUME NEW t \in Workers, Call(t) \/ \E w \in Webs : t = web(w) /\ Request(w)
      PROVE  Same
  <2>1. TouchesSlots(t)
    BY <1>2, WorkersWrite
  <2>2. Own(t)
    BY DEF Calm
  <2>3. ~Holds(t, n)
    BY <1>1, <2>2 DEF Own, Holds
  <2>4. ~(th[t].pc = "free" /\ th[t].lane = n)
    <3>1. SUFFICES ASSUME th[t].pc = "free", th[t].lane = n PROVE FALSE
      OBVIOUS
    <3>2. t = drv(o) /\ t \in Thread
      BY <1>1, <2>2, <3>1 DEF Own, Workers
    <3>3. FreeLane(t)
      <4>1. \A w \in Webs : t # web(w)
        BY <3>2, Threads
      <4> QED
        BY <1>2, <3>1, <4>1
           DEF Call, claim_lane_slot, start_lane_head, dispatch_orchestration, _start_entry_work,
               release_slot, on_orchestration_complete, _hold_for_repair, SettleEntry
    <3>4. th'[t].pc = "take"
      <4>1. th[t] \in Local /\ th \in [Thread -> Local]
        BY <3>2 DEF TypeInv, Typed, TypeOK
      <4>2. th'[t] = [th[t] EXCEPT !.pc = "take", !.entry = 0, !.orch = 0]
        BY <3>2, <3>3, <4>1 DEF FreeLane
      <4> QED
        BY <4>1, <4>2 DEF Local
    <3> QED
      BY <3>2, <3>4
  <2> QED
    BY <2>1, <2>3, <2>4 DEF TouchesSlots, Takes
<1>3. CASE UNCHANGED slot
  BY <1>3
<1>4. CASE \E w \in Webs : Request(w)
  BY <1>2, <1>4, WebWorks
<1>5. CASE \E t \in Workers : Call(t)
  BY <1>2, <1>5
<1>6. CASE Pass \/ settle_expired_orchestration_leases \/ Call(sweep)
  BY <1>6, SweepLeaves
<1>7. CASE \E m \in Lanes : GraceEnds(m)
  <2>1. PICK m \in Lanes : slot' = [slot EXCEPT ![m].fresh = FALSE]
    BY <1>7 DEF GraceEnds
  <2>2. slot \in [Lanes -> Slot]
    BY DEF TypeInv, Typed, TypeOK
  <2> QED
    BY <2>1, <2>2 DEF Slot
<1>8. CASE \/ \E w \in Webs : \/ orchestrate_ticket(w) \/ add_to_lane(w) \/ complete_orchestration(w)
                              \/ abandon_claim(w)
           \/ \E p \in Orchs : Drive(p)
           \/ reconcile_once \/ begin_drain \/ end_drain \/ Crash \/ Boot
  BY <1>3, <1>8 DEF orchestrate_ticket, add_to_lane, complete_orchestration, abandon_claim,
                    Drive, start_orchestration_run, _finish_orchestration_run,
                    reconcile_once, begin_drain, end_drain, Crash, Boot
<1> QED
  BY <1>4, <1>5, <1>6, <1>7, <1>8 DEF Next, Workers

(* A slot keeps the orchestration it names while that one's driver is       *)
(* alive: no claim, release, completion or grace that ran out takes it      *)
(* away, when the pass runs at boot only.                                   *)
THEOREM NobodyEvicted ==
    ASSUME Undisturbed
    PROVE  Spec => NoEviction
<1> DEFINE Keeps ==
      ~scene.timer =>
         \A n \in Lanes, o \in Orchs :
            slot[n].busy /\ slot[n].occ = o /\ th'[drv(o)].pc \in {"adopt", "drive"}
              => slot'[n].busy /\ slot'[n].occ = o
<1>1. PoolInv /\ [Next]_vars => [Keeps]_vars
  <2>1. SUFFICES ASSUME PoolInv, Next PROVE Keeps
    OBVIOUS
  <2> QED
    BY <2>1, Spared DEF PoolInv
<1>2. Spec => [][Keeps]_vars
  <2> HIDE DEF Keeps
  <2> QED
    BY <1>1, PoolInvariant, PTL DEF Spec
<1> QED
  BY <1>2 DEF NoEviction
=============================================================================
