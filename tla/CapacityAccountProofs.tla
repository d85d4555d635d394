----------------------- MODULE CapacityAccountProofs -----------------------
(***************************************************************************)
(* The totals of the capacity ledger for any number of processes, leases,   *)
(* resources and prices: that they are exact, that nothing is admitted past *)
(* a ceiling, that a parent lends its allotment once and outlives its       *)
(* children, and that no capacity is left beside a waiting head.  The       *)
(* argument has three parts: a release ends an estate of leases nobody else *)
(* is alive in, so no lease is settled twice; the ledger's sums are tallies *)
(* of weights, of which a step changes one row's and one process's; and     *)
(* whoever frees capacity or joins the line reads its head again.           *)
(***************************************************************************)
EXTENDS CapacityLedgerProofs

(* The ledger counts units one by one; a tally counts, for weights of the   *)
(* members of a set, the units below each weight. It is the sum of the      *)
(* weights, in a form whose size the library of finite sets can follow.     *)
Tally(S, w) == Cardinality({u \in S \X (1..MaxCost) : u[2] <= w[u[1]]})

(* A weight held by a single key counts as many units as it is.             *)
LEMMA TallyOne ==
    ASSUME NEW x, NEW n \in 0..MaxCost
    PROVE  /\ IsFiniteSet({x} \X (1..n))
           /\ Cardinality({x} \X (1..n)) = n
<1>1. MaxCost \in Nat /\ n \in Nat /\ 1 \in Int /\ n \in Int
  BY LedgerAssumption
<1>2. IsFiniteSet(1..n) /\ Cardinality(1..n) = n
  BY <1>1, FS_Interval
<1>3. IsFiniteSet({x}) /\ Cardinality({x}) = 1
  BY FS_Singleton
<1>4. IsFiniteSet({x} \X (1..n)) /\ Cardinality({x} \X (1..n)) = Cardinality({x}) * Cardinality(1..n)
  BY <1>2, <1>3, FS_Product
<1>5. 1 * n = n
  BY <1>1
<1> QED
  BY <1>2, <1>3, <1>4, <1>5

(* A sum of weights is finite and, when one weight changes, it changes by   *)
(* as much.                                                                 *)
LEMMA TallyShift ==
    ASSUME NEW S, IsFiniteSet(S), NEW w \in [S -> 0..MaxCost], NEW v \in [S -> 0..MaxCost],
           NEW x \in S, \A y \in S \ {x} : v[y] = w[y]
    PROVE  /\ Tally(S, w) \in Nat /\ Tally(S, v) \in Nat
           /\ w[x] <= Tally(S, w)
           /\ Tally(S, v) = (Tally(S, w) - w[x]) + v[x]
<1> DEFINE Rest == {u \in (S \ {x}) \X (1..MaxCost) : u[2] <= w[u[1]]}
           All(f) == {u \in S \X (1..MaxCost) : u[2] <= f[u[1]]}
<1>1. MaxCost \in Nat /\ w[x] \in 0..MaxCost /\ v[x] \in 0..MaxCost
  BY LedgerAssumption
<1>2. IsFiniteSet(Rest) /\ Cardinality(Rest) \in Nat
  <2>1. IsFiniteSet(1..MaxCost)
    BY <1>1, FS_Interval
  <2>2. IsFiniteSet(S \X (1..MaxCost))
    BY <2>1, FS_Product
  <2>3. Rest \in SUBSET (S \X (1..MaxCost))
    OBVIOUS
  <2>4. IsFiniteSet(Rest)
    BY <2>2, <2>3, FS_Subset
  <2> QED
    BY <2>4, FS_CardinalityType
<1>3. ASSUME NEW f \in [S -> 0..MaxCost], \A y \in S \ {x} : f[y] = w[y]
      PROVE  Cardinality(All(f)) = Cardinality(Rest) + f[x]
  <2>1. f[x] \in 0..MaxCost
    OBVIOUS
  <2>2. All(f) = Rest \cup ({x} \X (1..f[x]))
    <3>1. ASSUME NEW u \in All(f) PROVE u \in Rest \cup ({x} \X (1..f[x]))
      <4>1. u \in S \X (1..MaxCost) /\ u[2] <= f[u[1]]
        OBVIOUS
      <4>2. PICK y \in S, k \in 1..MaxCost : u = <<y, k>>
        BY <4>1
      <4>3. CASE y = x
        BY <1>1, <2>1, <4>1, <4>2, <4>3
      <4>4. CASE y # x
        BY <1>3, <4>1, <4>2, <4>4
      <4> QED
        BY <4>3, <4>4
    <3>2. ASSUME NEW u \in Rest PROVE u \in All(f)
      BY <1>3
    <3>3. ASSUME NEW u \in {x} \X (1..f[x]) PROVE u \in All(f)
      BY <1>1, <2>1
    <3> HIDE DEF All, Rest
    <3> QED
      BY <3>1, <3>2, <3>3
  <2>3. Rest \cap ({x} \X (1..f[x])) = {}
    OBVIOUS
  <2>4. IsFiniteSet({x} \X (1..f[x])) /\ Cardinality({x} \X (1..f[x])) = f[x]
    BY <2>1, TallyOne
  <2>5. Cardinality(All(f)) = Cardinality(Rest) + f[x] - Cardinality({})
    <3> HIDE DEF All, Rest
    <3> QED
      BY <1>2, <2>2, <2>3, <2>4, FS_Union
  <2>6. Cardinality({}) = 0
    BY FS_EmptySet
  <2> HIDE DEF All, Rest
  <2> QED
    BY <1>1, <1>2, <2>1, <2>5, <2>6
<1>4. Tally(S, w) = Cardinality(Rest) + w[x]
  BY <1>3 DEF Tally
<1>5. Tally(S, v) = Cardinality(Rest) + v[x]
  BY <1>3 DEF Tally
<1> HIDE DEF Rest, All
<1> QED
  BY <1>1, <1>2, <1>4, <1>5

-----------------------------------------------------------------------------

(* The processes this module speaks of ask, nest, hold, release, wait and   *)
(* are killed, and a holder waits for what runs beneath it. Nobody sweeps,  *)
(* reclaims, force-releases or leaves the line: release_lease looks neither *)
(* at the row nor at the total again before it writes, and two of those on  *)
(* one row hand its booking back twice.                                     *)
Orderly ==
    /\ ParentWaits
    /\ \A p \in Proc : Role[p] \cap {"sweep", "reclaim", "operate", "giveup"} = {}

(* No set of leases is closed under taking parents: every family has a      *)
(* root.                                                                    *)
Acyclic == \A T \in SUBSET Lease : T # {} => \E l \in T : row[l].parent \notin T

(* What a row may look like: only its price can be covered, only a child is *)
(* covered, and a parent has been granted before its child.                 *)
RowOK(l) ==
    /\ row[l].status # "orphaned"
    /\ \A d \in Dim : row[l].covered[d] <= row[l].cost[d]
    /\ row[l].parent = NoLease => row[l].covered = Zero
    /\ row[l].status \in {"none", "waiting"} => row[l].parent = NoLease /\ row[l].drawn = Zero
    /\ row[l].parent # NoLease => row[row[l].parent].status \in {"held", "released"}

(* p will come to rest beside the lease its reservation names.              *)
AskedFor(p) ==
    \/ proc[p].pc \in {"answer", "queued"}
    \/ proc[p].pc \in {"head", "book", "claim", "refund"} /\ proc[p].after # "idle"

(* The lease a process names is its own, and still granted or in line; the  *)
(* head a drain booked is a reservation.                                    *)
ProcOK(p) ==
    /\ proc[p].pc \notin {"renew", "reclaim", "judge", "probe", "drop", "repair"}
    /\ AskedFor(p) => /\ row[proc[p].mine].holder = p
                      /\ row[proc[p].mine].status \in {"waiting", "held"}
    /\ proc[p].pc \in {"holding", "unwind"} =>
           /\ proc[p].mine \in Lease
           /\ row[proc[p].mine].holder = p
           /\ row[proc[p].mine].status = "held"
    /\ proc[p].pc \in {"book", "claim", "refund"} =>
           /\ row[proc[p].head].status # "none"
           /\ row[proc[p].head].parent = NoLease

(* S is m with everything beneath it, and everybody who held something      *)
(* beneath m is dead.                                                       *)
Estate(m, S) ==
    /\ m \in S
    /\ \A k \in Lease : row[k].parent \in S => k \in S
    /\ \A k \in S \ {m} : row[k].parent \in S
    /\ \A k \in S \ {m} : k \in Occupying => HolderGone(k)

(* A call of the recursion works on an occupying lease of the estate that   *)
(* no other call works on; its caller is releasing the parent, and what it  *)
(* still has to end, with the call above it, are all its children. Only the *)
(* outermost call drains.                                                   *)
FrameOK(st, i, S) ==
    /\ st[i].lease \in S
    /\ st[i].lease \in Occupying
    /\ st[i].drain <=> i = Len(st)
    /\ st[i].step # "cancel"
    /\ i # 1 => st[i].step = "settle"
    /\ \A j \in 1..Len(st) : i # j => st[i].lease # st[j].lease
    /\ i # Len(st) => row[st[i].lease].parent = st[i + 1].lease
    /\ st[i].step = "settle" =>
          /\ st[i].kids \subseteq Children(st[i].lease)
          /\ i = 1 => Children(st[i].lease) \subseteq st[i].kids
          /\ i # 1 => /\ st[i - 1].lease \notin st[i].kids
                      /\ Children(st[i].lease) \subseteq st[i].kids \cup {st[i - 1].lease}

(* The stack of a release that began at m.                                  *)
Stacked(st, m, S) ==
    /\ st[Len(st)].lease = m
    /\ \A i \in 1..Len(st) : FrameOK(st, i, S)

(* Who releases does it in an estate of its own.                            *)
Unwinding(p) ==
    At(p, "unwind") =>
        /\ proc[p].resume = "idle"
        /\ \E S \in SUBSET Lease, st \in Seq(Frame), m \in Lease :
              /\ st = proc[p].stack /\ m = proc[p].mine
              /\ Estate(m, S) /\ Stacked(st, m, S)

(* The families of leases, and everybody who works on them, are in order.   *)
FamilyOK ==
    /\ Acyclic
    /\ \A l \in Lease : RowOK(l)
    /\ \A p \in Proc : ProcOK(p)
    /\ \A p \in Proc : Unwinding(p)

-----------------------------------------------------------------------------
(* When a holder releases, its lease and everything beneath it are an       *)
(* estate of which nobody else is alive.                                    *)
LEMMA ReleaseEstate ==
    ASSUME Typed, NEW m \in Lease, Nestlings(m) = {}
    PROVE  Estate(m, Beneath(m) \cup {m})
<1> DEFINE Closed(S) == \A k \in Lease : row[k].parent \in S \cup {m} => k \in S
           B == Beneath(m)
<1>1. B = {k \in Lease : \A S \in SUBSET Lease : Closed(S) => k \in S}
  BY DEF Beneath
<1>2. ASSUME NEW k \in Lease, row[k].parent \in B \cup {m} PROVE k \in B
  <2>1. ASSUME NEW S \in SUBSET Lease, Closed(S) PROVE k \in S
    <3>1. B \subseteq S
      BY <1>1, <2>1
    <3> QED
      BY <1>2, <2>1, <3>1
  <2> QED
    BY <1>1, <2>1
<1>3. ASSUME NEW k \in B, row[k].parent \notin B \cup {m} PROVE FALSE
  <2>1. B \ {k} \in SUBSET Lease /\ Closed(B \ {k})
    BY <1>1, <1>2, <1>3
  <2>2. k \in B \ {k}
    <3>1. \A S \in SUBSET Lease : Closed(S) => k \in S
      BY <1>1
    <3> HIDE DEF Closed
    <3> QED
      BY <2>1, <3>1
  <2> QED
    BY <2>2
<1>4. \A k \in B : k \in Occupying => HolderGone(k)
  BY DEF Nestlings
<1> QED
  BY <1>2, <1>3, <1>4 DEF Estate

(* The root of an estate is not its own descendant.                         *)
LEMMA RootOutside ==
    ASSUME Acyclic, NEW S \in SUBSET Lease, NEW m, Estate(m, S)
    PROVE  row[m].parent \notin S
BY DEF Acyclic, Estate

(* The estates of two holders that are alive have nothing in common.        *)
LEMMA EstatesApart ==
    ASSUME Acyclic, NEW S \in SUBSET Lease, NEW T \in SUBSET Lease, NEW m, NEW n,
           Estate(m, S), Estate(n, T), m # n,
           m \in Occupying, n \in Occupying, ~HolderGone(m), ~HolderGone(n)
    PROVE  S \cap T = {}
<1> SUFFICES ASSUME S \cap T # {} PROVE FALSE
  OBVIOUS
<1>1. PICK l \in S \cap T : row[l].parent \notin S \cap T
  BY DEF Acyclic
<1>2. m \notin T /\ n \notin S
  BY DEF Estate
<1> QED
  BY <1>1, <1>2 DEF Estate

(* Who unwinds a release holds the lease it started from.                   *)
LEMMA UnwinderHolds ==
    ASSUME Typed, FamilyOK, NEW p \in Proc, At(p, "unwind")
    PROVE  /\ proc[p].mine \in Lease /\ proc[p].mine \in Occupying
           /\ row[proc[p].mine].holder = p /\ ~HolderGone(proc[p].mine)
           /\ proc[p].stack \in Seq(Frame) /\ Len(proc[p].stack) \in Nat \ {0}
           /\ Top(p) = proc[p].stack[1]
<1>1. ProcOK(p)
  BY DEF FamilyOK
<1>2. proc[p].stack \in Seq(Frame) /\ proc[p].stack # <<>>
  BY DEF Typed, TypeOK, Local, LocalOK
<1> QED
  BY <1>1, <1>2 DEF ProcOK, At, HolderGone, Dead, Occupying, OCCUPYING, Top

(* What the innermost call of a release works on.                           *)
LEMMA TopFacts ==
    ASSUME NEW st \in Seq(Frame), st # <<>>, NEW m, NEW S \in SUBSET Lease, Stacked(st, m, S)
    PROVE  /\ Head(st) = st[1] /\ Len(st) \in Nat \ {0}
           /\ st[1].lease \in S /\ st[1].lease \in Occupying
           /\ st[1].step # "cancel"
           /\ st[1].drain <=> Len(st) = 1
           /\ Len(st) = 1 => st[1].lease = m
           /\ Len(st) # 1 => st[1].lease # m
           /\ st[1].step = "settle" => st[1].kids = Children(st[1].lease)
<1>1. Len(st) \in Nat \ {0} /\ Head(st) = st[1]
  OBVIOUS
<1>2. 1 \in 1..Len(st) /\ Len(st) \in 1..Len(st)
  BY <1>1
<1>3. FrameOK(st, 1, S) /\ st[Len(st)].lease = m
  BY <1>2 DEF Stacked
<1>4. st[1].lease \in S /\ st[1].lease \in Occupying /\ st[1].step # "cancel"
  BY <1>3 DEF FrameOK
<1>5. st[1].drain <=> Len(st) = 1
  BY <1>1, <1>3 DEF FrameOK
<1>6. Len(st) = 1 => st[1].lease = m
  BY <1>3
<1>7. Len(st) # 1 => st[1].lease # m
  BY <1>1, <1>2, <1>3 DEF FrameOK
<1>8. ASSUME st[1].step = "settle" PROVE st[1].kids = Children(st[1].lease)
  <2>1. st[1].kids \subseteq Children(st[1].lease) /\ Children(st[1].lease) \subseteq st[1].kids
    BY <1>3, <1>8 DEF FrameOK
  <2> QED
    BY <2>1
<1> QED
  BY <1>1, <1>4, <1>5, <1>6, <1>7, <1>8

(* A step that touches nothing of an estate leaves its release alone.       *)
LEMMA UnwindingStays ==
    ASSUME Typed, NEW p \in Proc, Unwinding(p), proc'[p] = proc[p],
           \A q \in Proc : Dead(q) => Dead(q)',
           \A S \in SUBSET Lease : At(p, "unwind") /\ Estate(proc[p].mine, S) =>
               \A k \in Lease :
                   /\ k \in S => /\ row'[k].status = row[k].status
                                 /\ row'[k].holder = row[k].holder
                                 /\ row'[k].parent = row[k].parent
                   /\ row'[k].parent \in S => k \in S
    PROVE  Unwinding(p)'
<1> SUFFICES ASSUME At(p, "unwind")
             PROVE  /\ proc'[p].resume = "idle"
                    /\ \E S \in SUBSET Lease, st \in Seq(Frame), m \in Lease :
                          /\ st = proc'[p].stack /\ m = proc'[p].mine
                          /\ Estate(m, S)' /\ Stacked(st, m, S)'
  BY DEF Unwinding, At
<1>1. PICK S \in SUBSET Lease, st \in Seq(Frame), m \in Lease :
          /\ st = proc[p].stack /\ m = proc[p].mine
          /\ Estate(m, S) /\ Stacked(st, m, S)
  BY DEF Unwinding
<1>2. \A k \in Lease :
          /\ k \in S => /\ row'[k].status = row[k].status
                        /\ row'[k].holder = row[k].holder
                        /\ row'[k].parent = row[k].parent
          /\ row'[k].parent \in S => k \in S
  BY <1>1
<1>3. \A k \in S : k \in Occupying' <=> k \in Occupying
  BY <1>2 DEF Occupying
<1>4. \A k \in S : HolderGone(k) => HolderGone(k)'
  <2>1. \A k \in S : row[k].holder \in Proc
    BY DEF Typed, TypeOK, Row
  <2> QED
    BY <1>2, <2>1 DEF HolderGone
<1>5. Estate(m, S)'
  BY <1>1, <1>2, <1>3, <1>4 DEF Estate
<1>6. ASSUME NEW x \in S PROVE Children(x)' = Children(x)
  <2>1. \A k \in Lease : row'[k].parent = x => k \in S
    BY <1>2
  <2>2. \A k \in Lease : row[k].parent = x => k \in S
    BY <1>1 DEF Estate
  <2> QED
    BY <1>2, <1>3, <2>1, <2>2 DEF Children, Occupying
<1>7. ASSUME NEW i \in 1..Len(st) PROVE FrameOK(st, i, S)'
  <2>1. FrameOK(st, i, S)
    BY <1>1 DEF Stacked
  <2>2. st[i].lease \in S
    BY <2>1 DEF FrameOK
  <2>3. st[i].lease \in Occupying' /\ row'[st[i].lease].parent = row[st[i].lease].parent
    BY <1>2, <1>3, <2>1, <2>2 DEF FrameOK
  <2>4. Children(st[i].lease)' = Children(st[i].lease)
    BY <1>6, <2>2
  <2> QED
    BY <2>1, <2>3, <2>4 DEF FrameOK
<1>8. Stacked(st, m, S)'
  BY <1>1, <1>7 DEF Stacked
<1>9. proc'[p].resume = "idle"
  BY DEF Unwinding
<1> QED
  BY <1>1, <1>5, <1>8, <1>9

-----------------------------------------------------------------------------
(* A holder that releases starts with one call, on its own lease.           *)
LEMMA ReleaseUnwinding ==
    ASSUME Orderly, Typed, FamilyOK, NEW p \in Proc, Release(p)
    PROVE  Unwinding(p)'
<1> DEFINE m == proc[p].mine
           S == Beneath(m) \cup {m}
           st == <<Invocation(m, TRUE)>>
<1>1. m \in Lease /\ m \in Occupying /\ proc[p] \in Local
  BY DEF Release, At, FamilyOK, ProcOK, Occupying, OCCUPYING, Typed, TypeOK
<1>2. Estate(m, S)
  BY <1>1, ReleaseEstate DEF Release, Orderly
<1>3. S \in SUBSET Lease
  BY <1>1 DEF Beneath
<1>4. st \in Seq(Frame) /\ Len(st) = 1 /\ st[1] = Invocation(m, TRUE)
  BY <1>1 DEF Invocation, Frame
<1>5. Stacked(st, m, S)
  BY <1>1, <1>4 DEF Stacked, FrameOK, Invocation
<1>6. UNCHANGED row /\ \A q \in Proc : Dead(q) => Dead(q)'
  BY DEF Release, Call, Ledger, Typed, TypeOK, Dead, At
<1>7. proc'[p].stack = st /\ proc'[p].mine = m /\ proc'[p].resume = "idle"
  BY <1>1 DEF Release, Call, Typed, TypeOK, Local
<1> HIDE DEF m, S, st
<1>8. PICK mm \in Lease, ss \in SUBSET Lease, ff \in Seq(Frame) : mm = m /\ ss = S /\ ff = st
  BY <1>1, <1>3, <1>4
<1>9. Estate(mm, ss)' /\ Stacked(ff, mm, ss)'
  <2>1. Estate(mm, ss) /\ Stacked(ff, mm, ss)
    BY <1>2, <1>5, <1>8
  <2>2. \A k \in Lease : row[k].holder \in Proc
    BY DEF Typed, TypeOK, Row
  <2>3. Stacked(ff, mm, ss)'
    BY <1>6, <2>1 DEF Stacked, FrameOK, Occupying, Children
  <2>4. Estate(mm, ss)'
    BY <1>6, <2>1, <2>2 DEF Estate, Occupying, HolderGone
  <2> QED
    BY <2>3, <2>4
<1> QED
  BY <1>7, <1>8, <1>9 DEF Unwinding

(* A release that goes on without a row being written.                      *)
LEMMA Restacked ==
    ASSUME Typed, NEW p \in Proc, UNCHANGED row, \A q \in Proc : Dead(q) => Dead(q)',
           NEW m \in Lease, NEW S \in SUBSET Lease, NEW st \in Seq(Frame),
           Estate(m, S), Stacked(st, m, S),
           proc'[p].resume = "idle", proc'[p].mine = m, proc'[p].stack = st
    PROVE  Unwinding(p)'
<1>1. \A k \in Lease : row[k].holder \in Proc
  BY DEF Typed, TypeOK, Row
<1>2. Stacked(st, m, S)'
  <2>1. Occupying' = Occupying /\ \A x : Children(x)' = Children(x)
    BY DEF Occupying, Children
  <2>2. ASSUME NEW i \in 1..Len(st) PROVE FrameOK(st, i, S)'
    <3>1. FrameOK(st, i, S)
      BY DEF Stacked
    <3> QED
      BY <2>1, <3>1 DEF FrameOK
  <2> QED
    BY <2>2 DEF Stacked
<1>3. Estate(m, S)'
  BY <1>1 DEF Estate, Occupying, HolderGone
<1> QED
  BY <1>2, <1>3 DEF Unwinding

(* release_lease reads the row and its children.                            *)
LEMMA LookUnwinding ==
    ASSUME Typed, FamilyOK, NEW p \in Proc, Look(p)
    PROVE  Unwinding(p)' /\ At(p, "unwind")' /\ proc'[p].mine = proc[p].mine
           /\ \A q \in Proc \ {p} : proc'[q] = proc[q]
<1>1. At(p, "unwind") /\ proc[p] \in Local /\ proc \in [Proc -> Local] /\ UNCHANGED row
  BY DEF Look, Releasing, Typed, TypeOK, Ledger
<1>2. PICK S \in SUBSET Lease, st \in Seq(Frame), m \in Lease :
          /\ st = proc[p].stack /\ m = proc[p].mine
          /\ Estate(m, S) /\ Stacked(st, m, S)
  BY <1>1 DEF FamilyOK, Unwinding
<1>3. st # <<>> /\ Top(p) = Head(st)
  BY <1>1, <1>2 DEF Typed, LocalOK, Top
<1>4. /\ Head(st) = st[1] /\ Len(st) \in Nat \ {0}
      /\ st[1].lease \in Occupying
  BY <1>2, <1>3, TopFacts
<1>5. st[1] \in Frame /\ Tail(st) \in Seq(Frame)
  BY <1>3, <1>4
<1>6. PICK f \in Frame : /\ f.lease = st[1].lease /\ f.step = "settle" /\ f.drain = st[1].drain
                         /\ f.kids = Children(st[1].lease)
                         /\ proc' = [proc EXCEPT ![p].stack = <<f>> \o Tail(@)]
  <2>1. [st[1] EXCEPT !.step = "settle", !.kids = Children(st[1].lease)] \in Frame
    BY <1>5 DEF Frame, Children, Occupying
  <2>2. st[1].lease \notin Waiting
    BY <1>4 DEF Waiting, Occupying, OCCUPYING
  <2>3. Replace(p, [st[1] EXCEPT !.step = "settle", !.kids = Children(st[1].lease)])
    BY <1>3, <1>4, <2>2 DEF Look
  <2> DEFINE f == [st[1] EXCEPT !.step = "settle", !.kids = Children(st[1].lease)]
  <2>4. /\ f.lease = st[1].lease /\ f.step = "settle" /\ f.drain = st[1].drain
        /\ f.kids = Children(st[1].lease)
    BY <1>5 DEF Frame
  <2>5. proc' = [proc EXCEPT ![p].stack = <<f>> \o Tail(@)]
    BY <2>3 DEF Replace
  <2> HIDE DEF f
  <2> QED
    BY <2>1, <2>4, <2>5 DEF f
<1>7. PICK nu \in Seq(Frame) : nu = <<f>> \o Tail(st)
  <2>1. <<f>> \in Seq(Frame)
    OBVIOUS
  <2>2. <<f>> \o Tail(st) \in Seq(Frame)
    BY <1>5, <2>1
  <2> QED
    BY <2>2
<1>8. /\ Len(nu) = Len(st) /\ nu[1] = f
      /\ \A i \in 1..Len(st) : i # 1 => nu[i] = st[i]
  BY <1>3, <1>5, <1>7
<1>9. Stacked(nu, m, S)
  <2>1. nu[Len(nu)].lease = m
    BY <1>2, <1>4, <1>6, <1>8 DEF Stacked
  <2>2. \A i \in 1..Len(st) : nu[i].lease = st[i].lease /\ nu[i].drain = st[i].drain
    BY <1>6, <1>8
  <2>3. ASSUME NEW i \in 1..Len(nu) PROVE FrameOK(nu, i, S)
    <3>1. FrameOK(st, i, S) /\ i \in 1..Len(st)
      BY <1>2, <1>8 DEF Stacked
    <3>2. CASE i = 1
      <4>1. 1 # Len(st) => 2 \in 1..Len(st)
        <5>1. \A n \in Nat \ {0} : 1 # n => 2 \in 1..n
          OBVIOUS
        <5> QED
          BY <1>4, <5>1
      <4> QED
        BY <1>6, <1>8, <2>2, <3>1, <3>2, <4>1 DEF FrameOK
    <3>3. CASE i # 1
      <4>1. nu[i] = st[i] /\ i - 1 \in 1..Len(st) /\ (i # Len(st) => i + 1 \in 1..Len(st))
        BY <1>4, <1>8, <3>1, <3>3
      <4> QED
        BY <1>8, <2>2, <3>1, <3>3, <4>1 DEF FrameOK
    <3> QED
      BY <3>2, <3>3
  <2> QED
    BY <2>1, <2>3 DEF Stacked
<1>10. /\ proc'[p].stack = nu /\ proc'[p].mine = m /\ proc'[p].resume = "idle" /\ At(p, "unwind")'
       /\ \A q \in Proc \ {p} : proc'[q] = proc[q]
  BY <1>1, <1>2, <1>6, <1>7 DEF Local, At, FamilyOK, Unwinding
<1>11. \A q \in Proc : Dead(q) => Dead(q)'
  BY <1>1, <1>10 DEF Dead, At
<1> QED
  BY <1>1, <1>2, <1>9, <1>10, <1>11, Restacked

(* release_lease goes on with a child it has read.                          *)
LEMMA KidUnwinding ==
    ASSUME Typed, FamilyOK, NEW p \in Proc, ReleaseKid(p)
    PROVE  Unwinding(p)' /\ At(p, "unwind")' /\ proc'[p].mine = proc[p].mine
           /\ \A q \in Proc \ {p} : proc'[q] = proc[q]
<1>1. At(p, "unwind") /\ proc[p] \in Local /\ proc \in [Proc -> Local] /\ UNCHANGED row
  BY DEF ReleaseKid, Releasing, Typed, TypeOK, Ledger
<1>2. PICK S \in SUBSET Lease, st \in Seq(Frame), m \in Lease :
          /\ st = proc[p].stack /\ m = proc[p].mine
          /\ Estate(m, S) /\ Stacked(st, m, S)
  BY <1>1 DEF FamilyOK, Unwinding
<1>3. st # <<>> /\ Top(p) = Head(st)
  BY <1>1, <1>2 DEF Typed, LocalOK, Top
<1>4. /\ Head(st) = st[1] /\ Len(st) \in Nat \ {0}
      /\ st[1].lease \in S /\ st[1].lease \in Occupying
      /\ st[1].step = "settle"
      /\ st[1].kids = Children(st[1].lease)
  BY <1>2, <1>3, TopFacts DEF ReleaseKid, Releasing
<1>5. st[1] \in Frame /\ Tail(st) \in Seq(Frame)
  BY <1>3, <1>4
<1>6. PICK k \in st[1].kids :
          proc' = [proc EXCEPT ![p].stack =
                      <<Invocation(k, FALSE), [st[1] EXCEPT !.kids = @ \ {k}]>> \o Tail(@)]
  BY <1>3, <1>4 DEF ReleaseKid
<1>7. k \in Lease /\ k \in Occupying /\ row[k].parent = st[1].lease /\ k \in S
  BY <1>2, <1>4, <1>6 DEF Children, Occupying, Estate
<1>8. ASSUME NEW j \in 1..Len(st) PROVE st[j].lease # k
  <2>1. FrameOK(st, j, S) /\ st[Len(st)].lease = m
    BY <1>2 DEF Stacked
  <2>2. row[m].parent \notin S
    BY <1>2, RootOutside DEF FamilyOK
  <2>3. CASE j = Len(st)
    BY <1>4, <1>7, <2>1, <2>2, <2>3
  <2>4. CASE j # Len(st)
    <3>1. j + 1 \in 1..Len(st) /\ 1 \in 1..Len(st) /\ j + 1 # 1
      BY <1>4, <2>4
    <3>2. st[1].lease # st[j + 1].lease
      <4>1. FrameOK(st, 1, S)
        BY <1>2, <3>1 DEF Stacked
      <4> QED
        BY <3>1, <4>1 DEF FrameOK
    <3>3. row[st[j].lease].parent = st[j + 1].lease
      BY <2>1, <2>4 DEF FrameOK
    <3> QED
      BY <1>7, <3>2, <3>3
  <2> QED
    BY <2>3, <2>4
<1>9. PICK f \in Frame, g \in Frame :
          /\ f.lease = k /\ f.step = "look" /\ f.drain = FALSE
          /\ g.lease = st[1].lease /\ g.step = "settle" /\ g.drain = st[1].drain
          /\ g.kids = st[1].kids \ {k}
          /\ proc' = [proc EXCEPT ![p].stack = <<f, g>> \o Tail(@)]
  <2> DEFINE f == Invocation(k, FALSE)
             g == [st[1] EXCEPT !.kids = @ \ {k}]
  <2>1. f \in Frame /\ f.lease = k /\ f.step = "look" /\ f.drain = FALSE
    BY <1>7 DEF Frame, Invocation
  <2>2. /\ g \in Frame /\ g.lease = st[1].lease /\ g.step = "settle" /\ g.drain = st[1].drain
        /\ g.kids = st[1].kids \ {k}
    BY <1>4, <1>5 DEF Frame
  <2>3. proc' = [proc EXCEPT ![p].stack = <<f, g>> \o Tail(@)]
    BY <1>6
  <2> HIDE DEF f, g
  <2> QED
    BY <2>1, <2>2, <2>3
<1>10. PICK nu \in Seq(Frame) : nu = <<f, g>> \o Tail(st)
  <2>1. <<f, g>> \in Seq(Frame)
    OBVIOUS
  <2>2. <<f, g>> \o Tail(st) \in Seq(Frame)
    BY <1>5, <2>1
  <2> QED
    BY <2>2
<1>11. /\ Len(nu) = Len(st) + 1 /\ nu[1] = f /\ nu[2] = g
       /\ \A i \in 2..Len(st) : nu[i + 1] = st[i]
  BY <1>3, <1>5, <1>10
<1>12. \A i \in 1..Len(st) : nu[i + 1].lease = st[i].lease /\ nu[i + 1].drain = st[i].drain
                             /\ (i # 1 => nu[i + 1] = st[i])
  BY <1>4, <1>9, <1>11
<1>13. ASSUME NEW i \in 1..Len(nu), NEW j \in 1..Len(nu), i # j
       PROVE  nu[i].lease # nu[j].lease
  <2>1. ASSUME NEW a \in 1..Len(st), NEW b \in 1..Len(st), a # b
        PROVE  st[a].lease # st[b].lease
    BY <1>2, <2>1 DEF Stacked, FrameOK
  <2>2. CASE i = 1
    <3>1. j - 1 \in 1..Len(st) /\ j = (j - 1) + 1
      BY <1>4, <1>11, <1>13, <2>2
    <3> QED
      BY <1>8, <1>9, <1>11, <1>12, <2>2, <3>1
  <2>3. CASE j = 1
    <3>1. i - 1 \in 1..Len(st) /\ i = (i - 1) + 1
      BY <1>4, <1>11, <1>13, <2>3
    <3> QED
      BY <1>8, <1>9, <1>11, <1>12, <2>3, <3>1
  <2>4. CASE i # 1 /\ j # 1
    <3>1. i - 1 \in 1..Len(st) /\ j - 1 \in 1..Len(st) /\ i - 1 # j - 1
          /\ i = (i - 1) + 1 /\ j = (j - 1) + 1
      BY <1>4, <1>11, <1>13, <2>4
    <3>2. nu[i].lease = st[i - 1].lease /\ nu[j].lease = st[j - 1].lease
      BY <1>12, <3>1
    <3> QED
      BY <2>1, <3>1, <3>2
  <2> QED
    BY <2>2, <2>3, <2>4
<1>14. ASSUME NEW i \in 1..Len(nu) PROVE FrameOK(nu, i, S)
  <2>0. \A j \in 1..Len(nu) : i # j => nu[i].lease # nu[j].lease
    BY <1>13
  <2>1. CASE i = 1
    <3>1. 1 # Len(nu)
      BY <1>4, <1>11
    <3> QED
      BY <1>7, <1>9, <1>11, <2>0, <2>1, <3>1 DEF FrameOK
  <2>2. CASE i = 2
    <3>1. /\ 1 \in 1..Len(st) /\ i - 1 = 1
          /\ (1 = Len(st) <=> i = Len(nu)) /\ i # 1
          /\ i # Len(nu) => 2 \in 1..Len(st) /\ i + 1 = 3
      <4>1. PICK n \in Nat \ {0} : n = Len(st) /\ Len(nu) = n + 1
        BY <1>4, <1>11
      <4>2. 2 # n + 1 => 2 \in 1..n
        OBVIOUS
      <4> QED
        BY <2>2, <4>1, <4>2
    <3>2. FrameOK(st, 1, S)
      BY <1>2, <3>1 DEF Stacked
    <3>3. i # Len(nu) => nu[i + 1].lease = st[2].lease
      BY <1>12, <2>2, <3>1
    <3>4. nu[i] = g /\ nu[i - 1].lease = k
      BY <1>9, <1>11, <2>2, <3>1
    <3>5. g.kids \subseteq Children(g.lease) /\ Children(g.lease) \subseteq g.kids \cup {k} /\ k \notin g.kids
      BY <1>4, <1>9
    <3>6. g.lease \in S /\ g.lease \in Occupying /\ g.step = "settle"
      BY <1>4, <1>9
    <3>7. i # Len(nu) => row[g.lease].parent = nu[i + 1].lease
      BY <1>9, <3>1, <3>2, <3>3 DEF FrameOK
    <3>8. g.drain <=> i = Len(nu)
      BY <1>9, <3>1, <3>2 DEF FrameOK
    <3> QED
      BY <2>0, <3>1, <3>4, <3>5, <3>6, <3>7, <3>8 DEF FrameOK
  <2>3. CASE i # 1 /\ i # 2
    <3>1. PICK h \in 2..Len(st) : i = h + 1
      <4>1. i - 1 \in 2..Len(st) /\ i = (i - 1) + 1
        BY <1>4, <1>11, <2>3
      <4> QED
        BY <4>1
    <3>2. /\ h \in 1..Len(st) /\ h - 1 \in 1..Len(st) /\ i - 1 = (h - 1) + 1 /\ h # 1
          /\ (h = Len(st) <=> i = Len(nu))
          /\ h # Len(st) => h + 1 \in 1..Len(st)
      BY <1>4, <1>11, <3>1
    <3>3. FrameOK(st, h, S)
      BY <1>2, <3>2 DEF Stacked
    <3>4. nu[i] = st[h] /\ nu[i - 1].lease = st[h - 1].lease
          /\ (h # Len(st) => nu[i + 1].lease = st[h + 1].lease)
      BY <1>12, <3>1, <3>2
    <3> QED
      BY <2>0, <2>3, <3>2, <3>3, <3>4 DEF FrameOK
  <2> QED
    BY <2>1, <2>2, <2>3
<1>15. nu[Len(nu)].lease = m
  <2>1. Len(st) \in 1..Len(st)
    BY <1>4
  <2> QED
    BY <1>2, <1>11, <1>12, <2>1 DEF Stacked
<1>16. Stacked(nu, m, S)
  BY <1>14, <1>15 DEF Stacked
<1>17. /\ proc'[p].stack = nu /\ proc'[p].mine = m /\ proc'[p].resume = "idle" /\ At(p, "unwind")'
       /\ \A q \in Proc \ {p} : proc'[q] = proc[q]
  BY <1>1, <1>2, <1>9, <1>10 DEF Local, At, FamilyOK, Unwinding
<1>18. \A q \in Proc : Dead(q) => Dead(q)'
  BY <1>1, <1>17 DEF Dead, At
<1> QED
  BY <1>1, <1>2, <1>16, <1>17, <1>18, Restacked

(* What a row says once and for all.                                        *)
Fixed(k) ==
    /\ row'[k].holder = row[k].holder /\ row'[k].parent = row[k].parent
    /\ row'[k].pool = row[k].pool /\ row'[k].cost = row[k].cost
    /\ row'[k].covered = row[k].covered

(* The rows after x has been settled.                                       *)
Settled(x) ==
    /\ row'[x].status = "released"
    /\ \A k \in Lease \ {x} : row'[k].status = row[k].status
    /\ \A k \in Lease : Fixed(k)
    /\ \A k \in Lease :
          row'[k].drawn = IF k = row[x].parent THEN Minus(row[k].drawn, row[x].covered)
                          ELSE row[k].drawn

(* The write of a settlement.                                               *)
SettleWrite(x) == row' = ReturnCover([row EXCEPT ![x].status = "released"], row[x])

(* What the write of a settled lease does to the rows.                      *)
LEMMA SettleRow ==
    ASSUME Typed, NEW x \in Lease, SettleWrite(x)
    PROVE  Settled(x)
<1> DEFINE mid == [row EXCEPT ![x].status = "released"]
<1>0. row \in [Lease -> Row]
  BY DEF Typed, TypeOK
<1>1. /\ mid \in [Lease -> Row] /\ mid[x].status = "released"
      /\ \A l \in Lease \ {x} : mid[l] = row[l]
  BY <1>0 DEF Row, Status
<1>2. row[x].parent \in Lease \cup {NoLease} /\ NoLease \notin Lease
  BY <1>0, LedgerAssumption DEF Row
<1>3. ASSUME NEW l \in Lease
      PROVE  /\ mid[l].holder = row[l].holder /\ mid[l].parent = row[l].parent
             /\ mid[l].pool = row[l].pool /\ mid[l].cost = row[l].cost
             /\ mid[l].covered = row[l].covered /\ mid[l].drawn = row[l].drawn
  BY <1>0 DEF Row
<1> HIDE DEF mid
<1>4. row' = ReturnCover(mid, row[x])
  BY DEF mid, SettleWrite
<1>5. ASSUME NEW l \in Lease
      PROVE  /\ row'[l].status = mid[l].status
             /\ row'[l].holder = mid[l].holder /\ row'[l].parent = mid[l].parent
             /\ row'[l].pool = mid[l].pool /\ row'[l].cost = mid[l].cost
             /\ row'[l].covered = mid[l].covered
             /\ row'[l].drawn = IF l = row[x].parent THEN Minus(mid[l].drawn, row[x].covered)
                                ELSE mid[l].drawn
  BY <1>1, <1>2, <1>4 DEF ReturnCover, Row
<1>6. \A l \in Lease : Fixed(l)
  BY <1>3, <1>5 DEF Fixed
<1>7. \A l \in Lease :
          row'[l].drawn = IF l = row[x].parent THEN Minus(row[l].drawn, row[x].covered)
                          ELSE row[l].drawn
  BY <1>3, <1>5
<1> QED
  BY <1>1, <1>5, <1>6, <1>7 DEF Settled

(* A release that ends a lease and returns to its caller: the lease leaves  *)
(* the estate, and the caller has one child less.                           *)
LEMMA SettleStack ==
    ASSUME NEW st \in Seq(Frame), st # <<>>, NEW m, NEW S \in SUBSET Lease, Len(st) # 1,
           Estate(m, S), Stacked(st, m, S), st[1].step = "settle", Settled(st[1].lease)
    PROVE  Stacked(Tail(st), m, S)'
<1> DEFINE nu == Tail(st)
           x == st[1].lease
<1>1. Len(st) \in Nat \ {0} /\ Len(st) # 1 /\ nu \in Seq(Frame) /\ Len(nu) = Len(st) - 1
      /\ \A i \in 1..Len(nu) : nu[i] = st[i + 1]
  OBVIOUS
<1>2. ASSUME NEW i \in 1..Len(st) PROVE FrameOK(st, i, S)
  BY DEF Stacked
<1>3. 1 \in 1..Len(st) /\ 2 \in 1..Len(st)
  <2>1. \A n \in Nat \ {0} : n # 1 => 1 \in 1..n /\ 2 \in 1..n
    OBVIOUS
  <2> QED
    BY <1>1, <2>1
<1>4. x \in Lease /\ x \in Occupying /\ x \in S /\ row[x].parent = st[2].lease
  BY <1>2, <1>3 DEF FrameOK, Occupying
<1>5. \A k \in Lease : /\ k \in Occupying' <=> k \in Occupying /\ k # x
                       /\ row'[k].parent = row[k].parent
  BY DEF Settled, Fixed, Occupying, OCCUPYING
<1>6. ASSUME NEW y PROVE Children(y)' = Children(y) \ {x}
  BY <1>5 DEF Children, Occupying
<1> HIDE DEF nu, x
<1>7. ASSUME NEW i \in 1..Len(nu) PROVE FrameOK(nu, i, S)'
  <2>1. /\ i + 1 \in 1..Len(st) /\ i + 1 # 1 /\ nu[i] = st[i + 1]
        /\ (i = Len(nu) <=> i + 1 = Len(st))
        /\ (i # Len(nu) => i + 1 \in 1..Len(nu) /\ nu[i + 1] = st[i + 2])
        /\ (i # 1 => i - 1 \in 1..Len(nu) /\ nu[i - 1] = st[i])
        /\ (i + 1) - 1 = i /\ (i + 1) + 1 = i + 2
    <3>1. PICK n \in Nat \ {0} : n = Len(st) /\ n # 1 /\ Len(nu) = n - 1
      BY <1>1
    <3>2. i \in 1..(n - 1)
      BY <3>1
    <3>3. /\ i \in Nat /\ i + 1 \in 1..n /\ i + 1 # 1
          /\ (i = n - 1 <=> i + 1 = n)
          /\ (i # n - 1 => i + 1 \in 1..(n - 1) /\ (i + 1) + 1 = i + 2)
          /\ (i # 1 => i - 1 \in 1..(n - 1) /\ (i - 1) + 1 = i)
          /\ (i + 1) - 1 = i /\ (i + 1) + 1 = i + 2
      BY <3>2
    <3> QED
      BY <1>1, <3>1, <3>3
  <2>2. FrameOK(st, i + 1, S)
    BY <1>2, <2>1
  <2>3. st[i + 1].lease # x
    BY <1>3, <2>1, <2>2 DEF FrameOK, x
  <2>4. nu[i].lease \in S /\ nu[i].lease \in Occupying' /\ nu[i].step = "settle"
    BY <1>5, <2>1, <2>2, <2>3 DEF FrameOK, Occupying
  <2>5. nu[i].drain <=> i = Len(nu)
    BY <2>1, <2>2 DEF FrameOK
  <2>6. ASSUME NEW j \in 1..Len(nu), i # j PROVE nu[i].lease # nu[j].lease
    <3>1. j + 1 \in 1..Len(st) /\ j + 1 # i + 1 /\ nu[j] = st[j + 1]
      BY <1>1, <2>6
    <3> QED
      BY <2>1, <2>2, <3>1 DEF FrameOK
  <2>7. i # Len(nu) => row'[nu[i].lease].parent = nu[i + 1].lease
    <3>1. st[i + 1].lease \in Lease
      BY <2>2 DEF FrameOK
    <3> QED
      BY <1>5, <2>1, <2>2, <3>1 DEF FrameOK
  <2>8. /\ st[i + 1].kids \subseteq Children(st[i + 1].lease)
        /\ st[i].lease \notin st[i + 1].kids
        /\ Children(st[i + 1].lease) \subseteq st[i + 1].kids \cup {st[i].lease}
    BY <2>1, <2>2 DEF FrameOK
  <2>9. x \notin st[i + 1].kids
    <3>1. CASE i = 1
      BY <2>8, <3>1 DEF x
    <3>2. CASE i # 1
      <4>1. st[i + 1].lease # st[2].lease
        BY <1>3, <2>1, <2>2, <3>2 DEF FrameOK
      <4> QED
        BY <1>4, <2>8, <4>1 DEF Children
    <3> QED
      BY <3>1, <3>2
  <2>10. nu[i].kids \subseteq Children(nu[i].lease)'
    <3>1. Children(st[i + 1].lease)' = Children(st[i + 1].lease) \ {x}
      BY <1>6
    <3> QED
      BY <2>1, <2>8, <2>9, <3>1
  <2>11. CASE i = 1
    <3>1. Children(st[i + 1].lease)' = Children(st[i + 1].lease) \ {x}
      BY <1>6
    <3>2. Children(nu[i].lease)' \subseteq nu[i].kids
      BY <2>1, <2>8, <2>11, <3>1 DEF x
    <3> QED
      BY <2>4, <2>5, <2>6, <2>7, <2>10, <2>11, <3>2 DEF FrameOK
  <2>12. CASE i # 1
    <3>1. Children(st[i + 1].lease)' = Children(st[i + 1].lease) \ {x}
      BY <1>6
    <3>2. Children(nu[i].lease)' \subseteq nu[i].kids \cup {nu[i - 1].lease} /\ nu[i - 1].lease \notin nu[i].kids
      BY <2>1, <2>8, <2>12, <3>1
    <3> QED
      BY <2>4, <2>5, <2>6, <2>7, <2>10, <2>12, <3>2 DEF FrameOK
  <2> QED
    BY <2>11, <2>12
<1>8. nu[Len(nu)].lease = m
  <2>1. Len(nu) \in 1..Len(nu) /\ Len(nu) + 1 = Len(st)
    <3>1. \A n \in Nat \ {0} : n # 1 => n - 1 \in 1..(n - 1) /\ (n - 1) + 1 = n
      OBVIOUS
    <3> QED
      BY <1>1, <3>1
  <2> QED
    BY <1>1, <2>1 DEF Stacked
<1>9. Stacked(nu, m, S)'
  BY <1>7, <1>8 DEF Stacked
<1> QED
  BY <1>9 DEF nu

(* A step of release_lease that writes: what it ends, on whose behalf, and  *)
(* where it goes on.                                                        *)
LEMMA SettleFacts ==
    ASSUME Typed, FamilyOK, NEW p \in Proc, Settle(p)
    PROVE  \E x \in Lease, m \in Lease, S \in SUBSET Lease :
              /\ m = proc[p].mine /\ m \in Occupying /\ ~HolderGone(m) /\ row[m].holder = p
              /\ x \in S /\ Estate(m, S) /\ x \in Occupying /\ Children(x) = {}
              /\ Settled(x) /\ held' = Return(row[x])
              /\ \A q \in Proc \ {p} : proc'[q] = proc[q]
              /\ \/ x = m /\ proc'[p].pc = "head" /\ proc'[p].after = "idle"
                 \/ x # m /\ At(p, "unwind")' /\ proc'[p].mine = m /\ Unwinding(p)'
<1>1. At(p, "unwind") /\ proc[p] \in Local /\ proc \in [Proc -> Local]
  BY DEF Settle, Releasing, Typed, TypeOK
<1>2. PICK S \in SUBSET Lease, st \in Seq(Frame), m \in Lease :
          /\ st = proc[p].stack /\ m = proc[p].mine
          /\ Estate(m, S) /\ Stacked(st, m, S)
  BY <1>1 DEF FamilyOK, Unwinding
<1>3. st # <<>> /\ Top(p) = Head(st)
  BY <1>1, <1>2 DEF Typed, LocalOK, Top
<1>4. /\ Head(st) = st[1] /\ Len(st) \in Nat \ {0}
      /\ st[1].lease \in S /\ st[1].lease \in Occupying
      /\ st[1].step = "settle"
      /\ st[1].kids = Children(st[1].lease)
      /\ st[1].drain <=> Len(st) = 1
      /\ Len(st) = 1 => st[1].lease = m
      /\ Len(st) # 1 => st[1].lease # m
  BY <1>2, <1>3, TopFacts DEF Settle, Releasing
<1>5. PICK x \in Lease : x = st[1].lease
  BY <1>4
<1>6. Children(x) = {} /\ held' = Return(row[x]) /\ SettleWrite(x)
  BY <1>3, <1>4, <1>5 DEF Settle, SettleWrite
<1>7. Settled(x)
  BY <1>6, SettleRow
<1>8. m \in Occupying /\ ~HolderGone(m) /\ row[m].holder = p
  BY <1>1, <1>2, UnwinderHolds
<1>9. CASE Len(st) = 1
  <2>1. Drain(p, "idle")
    BY <1>3, <1>4, <1>9 DEF Settle
  <2>2. /\ proc'[p].pc = "head" /\ proc'[p].after = "idle"
        /\ \A q \in Proc \ {p} : proc'[q] = proc[q]
    BY <1>1, <2>1 DEF Drain, Local
  <2> QED
    BY <1>2, <1>4, <1>5, <1>6, <1>7, <1>8, <1>9, <2>2
<1>10. CASE Len(st) # 1
  <2>1. Pop(p)
    BY <1>3, <1>4, <1>10 DEF Settle
  <2>2. Tail(st) # <<>> /\ Tail(st) \in Seq(Frame)
    <3>1. Tail(st) \in Seq(Frame) /\ Len(Tail(st)) = Len(st) - 1
      BY <1>3
    <3>2. Len(Tail(st)) # 0
      BY <1>4, <1>10, <3>1
    <3>3. Len(<<>>) = 0
      OBVIOUS
    <3>4. Tail(st) = <<>> => Len(Tail(st)) = 0
      BY ONLY <3>3
    <3> QED
      BY <3>1, <3>2, <3>4
  <2>3. proc' = [proc EXCEPT ![p].stack = Tail(@), ![p].pc = @]
    BY <1>2, <2>1, <2>2 DEF Pop
  <2>4. /\ proc'[p].pc = proc[p].pc /\ proc'[p].stack = Tail(st)
        /\ proc'[p].mine = m /\ proc'[p].resume = proc[p].resume
        /\ \A q \in Proc \ {p} : proc'[q] = proc[q]
    BY <1>1, <1>2, <2>3 DEF Local
  <2>5. PICK nu \in Seq(Frame) : nu = Tail(st)
    BY <2>2
  <2>6. Stacked(nu, m, S)'
    BY <1>2, <1>3, <1>4, <1>5, <1>7, <1>10, <2>5, SettleStack
  <2>7. Estate(m, S)'
    <3>1. \A k \in Lease : /\ row'[k].parent = row[k].parent /\ row'[k].holder = row[k].holder
                           /\ k \in Occupying' => k \in Occupying
      BY <1>7 DEF Settled, Fixed, Occupying, OCCUPYING
    <3>2. \A k \in Lease : row[k].holder \in Proc
      BY DEF Typed, TypeOK, Row
    <3>3. \A k \in Lease : HolderGone(k) => HolderGone(k)'
      BY <1>1, <2>4, <3>1, <3>2 DEF HolderGone, Dead, At
    <3> QED
      BY <1>2, <3>1, <3>3 DEF Estate
  <2>8. proc'[p].resume = "idle"
    BY <1>1, <2>4 DEF FamilyOK, Unwinding
  <2>9. Unwinding(p)' /\ At(p, "unwind")'
    BY <1>1, <2>4, <2>5, <2>6, <2>7, <2>8 DEF Unwinding, At
  <2> QED
    BY <1>2, <1>4, <1>5, <1>6, <1>7, <1>8, <1>10, <2>4, <2>9
<1> QED
  BY <1>9, <1>10

(* Whatever a live process reserved or holds stands outside the estates     *)
(* that others are unwinding.                                               *)
LEMMA NotMine ==
    ASSUME NEW p \in Proc, NEW q \in Proc, p # q, NEW m \in Lease, NEW S \in SUBSET Lease,
           Estate(m, S), row[m].holder = p, NEW x \in S, x \in Occupying,
           NEW y \in Lease, row[y].holder = q, ~Dead(q)
    PROVE  x # y
BY DEF Estate, HolderGone

(* Settling one lease after another keeps the families in order.            *)
LEMMA SettleFamily ==
    ASSUME Typed, FamilyOK, NEW p \in Proc, Settle(p)
    PROVE  FamilyOK'
<1>1. PICK x \in Lease, m \in Lease, S \in SUBSET Lease :
              /\ m = proc[p].mine /\ m \in Occupying /\ ~HolderGone(m) /\ row[m].holder = p
              /\ x \in S /\ Estate(m, S) /\ x \in Occupying /\ Children(x) = {}
              /\ Settled(x) /\ held' = Return(row[x])
              /\ \A q \in Proc \ {p} : proc'[q] = proc[q]
              /\ \/ x = m /\ proc'[p].pc = "head" /\ proc'[p].after = "idle"
                 \/ x # m /\ At(p, "unwind")' /\ proc'[p].mine = m /\ Unwinding(p)'
  BY SettleFacts
<1>2. /\ row'[x].status = "released"
      /\ \A k \in Lease \ {x} : row'[k].status = row[k].status
      /\ \A k \in Lease : Fixed(k)
      /\ \A k \in Lease : k # row[x].parent => row'[k].drawn = row[k].drawn
  BY <1>1 DEF Settled
<1>3. Acyclic'
  <2>1. \A k \in Lease : row'[k].parent = row[k].parent
    BY <1>2 DEF Fixed
  <2> QED
    BY <2>1 DEF FamilyOK, Acyclic
<1>4. ASSUME NEW l \in Lease PROVE RowOK(l)'
  <2>1. RowOK(l) /\ RowOK(x) /\ Fixed(l) /\ row[l].parent \in Lease \cup {NoLease}
    BY <1>2 DEF FamilyOK, Typed, TypeOK, Row
  <2>2. row'[l].status \in {"none", "waiting"} => row[l].status = row'[l].status /\ l # row[x].parent
    <3>1. row[x].parent = l => row[l].status \in {"held", "released"}
      BY <2>1, LedgerAssumption DEF RowOK
    <3>2. row'[l].status \in {"none", "waiting"} => row[l].status = row'[l].status
      BY <1>2
    <3> QED
      BY <3>1, <3>2
  <2>3. row[l].parent # NoLease => row'[row[l].parent].status \in {"held", "released"}
    BY <1>2, <2>1 DEF RowOK
  <2>4. row'[l].status # "orphaned"
    BY <1>2, <2>1 DEF RowOK
  <2> QED
    BY <1>2, <2>1, <2>2, <2>3, <2>4 DEF RowOK, Fixed
<1>5. ASSUME NEW q \in Proc PROVE ProcOK(q)'
  <2>1. CASE q = p
    <3>1. ProcOK(p) /\ At(p, "unwind")
      BY DEF FamilyOK, Settle, Releasing
    <3>2. CASE x = m
      BY <1>1, <2>1, <3>2 DEF ProcOK, AskedFor, At
    <3>3. CASE x # m
      BY <1>1, <1>2, <2>1, <3>1, <3>3 DEF ProcOK, AskedFor, At, Fixed
    <3> QED
      BY <3>2, <3>3
  <2>2. CASE q # p
    <3>1. ProcOK(q) /\ proc'[q] = proc[q]
      BY <1>1, <2>2 DEF FamilyOK
    <3>2. proc[q].mine \in Lease /\ row[proc[q].mine].holder = q /\ ~Dead(q) => proc[q].mine # x
      BY <1>1, <2>2, NotMine
    <3>3. AskedFor(q) \/ proc[q].pc \in {"holding", "unwind"} => proc[q].mine \in Lease /\ ~Dead(q)
      BY <3>1 DEF AskedFor, ProcOK, Typed, LocalOK, Dead, At
    <3>4. proc[q].pc \in {"book", "claim", "refund"} => proc[q].head \in Lease
      BY DEF Typed, LocalOK
    <3>5. ASSUME AskedFor(q)' PROVE row'[proc'[q].mine].holder = q /\ row'[proc'[q].mine].status \in {"waiting", "held"}
      <4>1. AskedFor(q)
        BY <3>1, <3>5 DEF AskedFor
      <4> QED
        BY <1>2, <3>1, <3>2, <3>3, <4>1 DEF ProcOK, Fixed
    <3>6. proc'[q].pc \in {"holding", "unwind"} =>
             proc'[q].mine \in Lease /\ row'[proc'[q].mine].holder = q /\ row'[proc'[q].mine].status = "held"
      BY <1>2, <3>1, <3>2, <3>3 DEF ProcOK, Fixed
    <3>7. proc'[q].pc \in {"book", "claim", "refund"} =>
             row'[proc'[q].head].status # "none" /\ row'[proc'[q].head].parent = NoLease
      BY <1>2, <3>1, <3>4 DEF ProcOK, Fixed
    <3> QED
      BY <3>1, <3>5, <3>6, <3>7 DEF ProcOK
  <2> QED
    BY <2>1, <2>2
<1>6. ASSUME NEW q \in Proc PROVE Unwinding(q)'
  <2>1. CASE q = p
    BY <1>1, <2>1 DEF Unwinding, At
  <2>2. CASE q # p
    <3>1. Unwinding(q) /\ proc'[q] = proc[q]
      BY <1>1, <2>2 DEF FamilyOK
    <3>2. \A r \in Proc : Dead(r) => Dead(r)'
      BY <1>1 DEF Dead, At, Settle, Releasing
    <3>3. ASSUME NEW T \in SUBSET Lease, At(q, "unwind"), Estate(proc[q].mine, T)
          PROVE  x \notin T
      <4>1. proc[q].mine \in Lease /\ proc[q].mine \in Occupying
            /\ row[proc[q].mine].holder = q /\ ~HolderGone(proc[q].mine)
        BY <3>3, UnwinderHolds
      <4>2. m # proc[q].mine
        BY <1>1, <2>2, <4>1
      <4> QED
        BY <1>1, <3>3, <4>1, <4>2, EstatesApart DEF FamilyOK
    <3>4. ASSUME NEW T \in SUBSET Lease, At(q, "unwind"), Estate(proc[q].mine, T), NEW k \in Lease
          PROVE  /\ k \in T => /\ row'[k].status = row[k].status
                               /\ row'[k].holder = row[k].holder
                               /\ row'[k].parent = row[k].parent
                 /\ row'[k].parent \in T => k \in T
      BY <1>2, <3>3, <3>4 DEF Fixed, Estate
    <3> QED
      BY <3>1, <3>2, <3>4, UnwindingStays
  <2> QED
    BY <2>1, <2>2
<1> QED
  BY <1>3, <1>4, <1>5, <1>6 DEF FamilyOK

-----------------------------------------------------------------------------
(* A step of one process that writes no row.                                *)
LEMMA QuietFamily ==
    ASSUME Typed, FamilyOK, NEW p \in Proc, UNCHANGED row, ~Dead(p),
           \A q \in Proc \ {p} : proc'[q] = proc[q],
           ProcOK(p)', Unwinding(p)'
    PROVE  FamilyOK'
<1>1. Acyclic' /\ \A l \in Lease : RowOK(l)'
  BY DEF FamilyOK, Acyclic, RowOK
<1>2. ASSUME NEW q \in Proc \ {p} PROVE ProcOK(q)' /\ Unwinding(q)'
  <2>1. ProcOK(q) /\ Unwinding(q) /\ proc'[q] = proc[q]
    BY DEF FamilyOK
  <2>2. ProcOK(q)'
    BY <2>1 DEF ProcOK, AskedFor
  <2>3. \A r \in Proc : Dead(r) => Dead(r)'
    BY DEF Dead, At
  <2>4. Unwinding(q)'
    BY <2>1, <2>3, UnwindingStays DEF Estate
  <2> QED
    BY <2>2, <2>4
<1> QED
  BY <1>1, <1>2 DEF FamilyOK

(* A process that goes to rest, or that takes up what it has asked for.     *)
LEMMA GotoFamily ==
    ASSUME Typed, FamilyOK, NEW p \in Proc, UNCHANGED row, ~Dead(p),
           NEW label \in {"idle", "queued", "holding", "answer", "refund", "claim"}, Goto(p, label),
           label \in {"queued", "answer"} => AskedFor(p),
           label = "holding" => /\ AskedFor(p) /\ proc[p].mine \in Lease
                                /\ row[proc[p].mine].status = "held",
           label \in {"claim", "refund"} => proc[p].pc \in {"book", "claim"}
    PROVE  FamilyOK'
<1>1. proc[p] \in Local /\ proc \in [Proc -> Local] /\ ProcOK(p)
  BY DEF Typed, TypeOK, FamilyOK
<1>2. \A q \in Proc \ {p} : proc'[q] = proc[q]
  BY <1>1 DEF Goto
<1>3. /\ proc'[p].pc = label
      /\ label # "idle" => proc'[p].mine = proc[p].mine
      /\ label \in {"claim", "refund"} => proc'[p].head = proc[p].head /\ proc'[p].after = proc[p].after
  BY <1>1 DEF Goto, Start, Local
<1>4. Unwinding(p)'
  BY <1>3 DEF Unwinding, At
<1>5. ProcOK(p)'
  BY <1>1, <1>3 DEF ProcOK, AskedFor
<1> QED
  BY <1>2, <1>4, <1>5, QuietFamily

(* The end of a drain.                                                      *)
LEMMA StopFamily ==
    ASSUME Typed, FamilyOK, NEW p \in Proc, UNCHANGED row, proc[p].pc \in {"head", "book"},
           StopDrain(p)
    PROVE  FamilyOK'
<1>1. proc[p].after \in {"idle", "answer", "queued"}
  BY DEF Typed, LocalOK
<1>2. Goto(p, proc[p].after) /\ ~Dead(p)
  BY DEF StopDrain, Dead, At
<1>3. proc[p].after \in {"queued", "answer"} => AskedFor(p)
  BY DEF AskedFor
<1>4. PICK label \in {"idle", "answer", "queued"} : label = proc[p].after
  BY <1>1
<1>5. Goto(p, label)
  BY <1>2, <1>4
<1> QED
  BY <1>2, <1>3, <1>4, <1>5, GotoFamily

(* The steps that write no row keep the families in order.                  *)
LEMMA ReserveFamily ==
    ASSUME Typed, FamilyOK, NEW p \in Proc, NEW c \in Claims, Reserve(p, c)
    PROVE  FamilyOK'
<1>1. proc[p] \in Local /\ proc \in [Proc -> Local] /\ proc[p].pc \in {"idle", "queued"} /\ UNCHANGED row
  BY DEF Reserve, Typed, TypeOK
<1>2. CASE TakePosition(p, c)
  <2>1. proc'[p].pc = "insert" /\ \A q \in Proc \ {p} : proc'[q] = proc[q]
    BY <1>1, <1>2 DEF TakePosition, Start
  <2>2. Unwinding(p)' /\ ProcOK(p)'
    BY <2>1 DEF Unwinding, At, ProcOK, AskedFor
  <2> QED
    BY <1>1, <2>1, <2>2, QuietFamily DEF Dead, At
<1>3. CASE \E l \in Mine(p, c.pool, {"waiting"}) :
              proc' = [proc EXCEPT ![p].pc = "queued", ![p].mine = l]
  <2>1. PICK l \in Mine(p, c.pool, {"waiting"}) :
              proc' = [proc EXCEPT ![p].pc = "queued", ![p].mine = l]
    BY <1>3
  <2>2. l \in Lease /\ row[l].holder = p /\ row[l].status = "waiting"
    BY DEF Mine
  <2>3. proc'[p].pc = "queued" /\ proc'[p].mine = l /\ \A q \in Proc \ {p} : proc'[q] = proc[q]
    BY <1>1, <2>1 DEF Local
  <2>4. Unwinding(p)' /\ ProcOK(p)'
    BY <1>1, <2>2, <2>3 DEF Unwinding, At, ProcOK, AskedFor
  <2> QED
    BY <1>1, <2>3, <2>4, QuietFamily DEF Dead, At
<1>4. CASE \E l \in Mine(p, c.pool, OCCUPYING) :
              proc' = [proc EXCEPT ![p].pc = "holding", ![p].mine = l]
  <2>1. PICK l \in Mine(p, c.pool, OCCUPYING) :
              proc' = [proc EXCEPT ![p].pc = "holding", ![p].mine = l]
    BY <1>4
  <2>2. l \in Lease /\ row[l].holder = p /\ row[l].status = "held"
    BY DEF Mine, OCCUPYING, FamilyOK, RowOK
  <2>3. proc'[p].pc = "holding" /\ proc'[p].mine = l /\ \A q \in Proc \ {p} : proc'[q] = proc[q]
    BY <1>1, <2>1 DEF Local
  <2>4. Unwinding(p)' /\ ProcOK(p)'
    BY <1>1, <2>2, <2>3 DEF Unwinding, At, ProcOK, AskedFor
  <2> QED
    BY <1>1, <2>3, <2>4, QuietFamily DEF Dead, At
<1> QED
  BY <1>2, <1>3, <1>4 DEF Reserve

(* The drain's reads, its booking and its refund.                           *)
LEMMA DrainFamily ==
    ASSUME Typed, FamilyOK, NEW p \in Proc,
           \/ HeadRead(p) \/ Book(p) \/ Refund(p) \/ (Claim(p) /\ UNCHANGED row)
    PROVE  FamilyOK'
<1>1. /\ proc[p] \in Local /\ proc \in [Proc -> Local] /\ UNCHANGED row /\ ~Dead(p)
      /\ ProcOK(p)
  BY DEF HeadRead, Book, Refund, Claim, Ledger, Dead, At, Typed, TypeOK, FamilyOK
<1>2. CASE StopDrain(p) /\ proc[p].pc \in {"head", "book"}
  BY <1>1, <1>2, StopFamily
<1>3. CASE At(p, "head") /\ \E l \in Lease : IsHead(l) /\ proc' = [proc EXCEPT ![p].pc = "book", ![p].head = l]
  <2>1. PICK l \in Lease : IsHead(l) /\ proc' = [proc EXCEPT ![p].pc = "book", ![p].head = l]
    BY <1>3
  <2>2. /\ proc'[p].pc = "book" /\ proc'[p].head = l /\ proc'[p].mine = proc[p].mine
        /\ proc'[p].after = proc[p].after
        /\ \A q \in Proc \ {p} : proc'[q] = proc[q]
    BY <1>1, <2>1 DEF Local
  <2>3. row[l].status # "none" /\ row[l].parent = NoLease
    BY <2>1 DEF IsHead, Waiting, FamilyOK, RowOK
  <2>4. Unwinding(p)' /\ ProcOK(p)'
    BY <1>1, <1>3, <2>2, <2>3 DEF Unwinding, At, ProcOK, AskedFor
  <2> QED
    BY <1>1, <2>2, <2>4, QuietFamily
<1>4. CASE At(p, "book") /\ Goto(p, "claim")
  BY <1>1, <1>4, GotoFamily DEF At
<1>5. CASE At(p, "claim") /\ Goto(p, "refund")
  BY <1>1, <1>5, GotoFamily DEF At
<1>6. CASE proc[p].pc \in {"claim", "refund"} /\ proc' = [proc EXCEPT ![p].pc = "head", ![p].head = NoLease]
  <2>1. /\ proc'[p].pc = "head" /\ proc'[p].mine = proc[p].mine
        /\ proc'[p].after = proc[p].after
        /\ \A q \in Proc \ {p} : proc'[q] = proc[q]
    BY <1>1, <1>6 DEF Local
  <2>2. Unwinding(p)' /\ ProcOK(p)'
    BY <1>1, <1>6, <2>1 DEF Unwinding, At, ProcOK, AskedFor
  <2> QED
    BY <1>1, <2>1, <2>2, QuietFamily
<1>7. CASE HeadRead(p)
  BY <1>2, <1>3, <1>7 DEF HeadRead, At
<1>8. CASE Book(p)
  BY <1>2, <1>4, <1>8 DEF Book, At
<1>9. CASE Refund(p)
  BY <1>6, <1>9 DEF Refund, At
<1>10. CASE Claim(p)
  BY <1>5, <1>6, <1>10 DEF Claim, At
<1> QED
  BY <1>7, <1>8, <1>9, <1>10

(* Waiters and holders that poll, answer, release or are killed.            *)
LEMMA HolderFamily ==
    ASSUME Orderly, Typed, FamilyOK, NEW p \in Proc,
           \/ Answer(p) \/ Poll(p) \/ Release(p) \/ Crash(p) \/ Look(p) \/ ReleaseKid(p)
    PROVE  FamilyOK'
<1>1. /\ proc[p] \in Local /\ proc \in [Proc -> Local] /\ UNCHANGED row /\ ~Dead(p)
      /\ ProcOK(p)
  BY DEF Answer, Poll, Release, Crash, Look, ReleaseKid, Releasing, Ledger, Dead, At, Typed, TypeOK, FamilyOK
<1>2. CASE Answer(p)
  <2>1. AskedFor(p) /\ proc[p].mine \in Lease
    BY <1>2 DEF Answer, AskedFor, At, Typed, LocalOK
  <2>2. PICK label \in {"holding", "queued"} :
          /\ label = IF row[proc[p].mine].status = "held" THEN "holding" ELSE "queued"
          /\ Goto(p, label)
    BY <1>2 DEF Answer
  <2> QED
    BY <1>1, <2>1, <2>2, GotoFamily
<1>3. CASE Poll(p)
  <2>1. AskedFor(p) /\ proc[p].mine \in Lease
    BY <1>3 DEF Poll, AskedFor, At, Typed, LocalOK
  <2>2. CASE proc[p].mine \in Occupying /\ Goto(p, "holding")
    <3>1. row[proc[p].mine].status = "held"
      BY <2>1, <2>2 DEF Occupying, OCCUPYING, FamilyOK, RowOK
    <3> QED
      BY <1>1, <2>1, <2>2, <3>1, GotoFamily
  <2>3. CASE Drain(p, "queued")
    <3>1. /\ proc'[p].pc = "head" /\ proc'[p].mine = proc[p].mine
          /\ \A q \in Proc \ {p} : proc'[q] = proc[q]
      BY <1>1, <2>3 DEF Drain, Local
    <3>2. Unwinding(p)' /\ ProcOK(p)'
      BY <1>1, <2>1, <3>1 DEF Unwinding, At, ProcOK, AskedFor
    <3> QED
      BY <1>1, <3>1, <3>2, QuietFamily
  <2>4. CASE Goto(p, "idle")
    BY <1>1, <2>4, GotoFamily
  <2> QED
    BY <1>3, <2>2, <2>3, <2>4 DEF Poll, Orderly
<1>4. CASE Release(p)
  <2>1. /\ proc'[p].pc = "unwind" /\ proc'[p].mine = proc[p].mine
        /\ \A q \in Proc \ {p} : proc'[q] = proc[q]
    BY <1>1, <1>4 DEF Release, Call, Local
  <2>2. Unwinding(p)'
    BY <1>4, ReleaseUnwinding
  <2>3. ProcOK(p)'
    BY <1>1, <1>4, <2>1 DEF ProcOK, AskedFor, Release, At
  <2> QED
    BY <1>1, <2>1, <2>2, <2>3, QuietFamily
<1>5. CASE Crash(p)
  <2>1. proc'[p].pc = "dead" /\ \A q \in Proc \ {p} : proc'[q] = proc[q]
    BY <1>1, <1>5 DEF Crash, Start
  <2>2. Unwinding(p)' /\ ProcOK(p)'
    BY <2>1 DEF Unwinding, At, ProcOK, AskedFor
  <2> QED
    BY <1>1, <2>1, <2>2, QuietFamily
<1>6. CASE Look(p) \/ ReleaseKid(p)
  <2>1. /\ Unwinding(p)' /\ At(p, "unwind")' /\ proc'[p].mine = proc[p].mine
        /\ \A q \in Proc \ {p} : proc'[q] = proc[q]
    BY <1>6, LookUnwinding, KidUnwinding
  <2>2. At(p, "unwind")
    BY <1>6 DEF Look, ReleaseKid, Releasing
  <2>3. ProcOK(p)'
    BY <1>1, <2>1, <2>2 DEF ProcOK, AskedFor, At
  <2> QED
    BY <1>1, <2>1, <2>3, QuietFamily
<1> QED
  BY <1>2, <1>3, <1>4, <1>5, <1>6

(* Rows that are in use keep what they say; none of them is ended.          *)
LEMMA GrowthFamily ==
    ASSUME Typed, FamilyOK, NEW p \in Proc, ~At(p, "unwind"), ~Dead(p), NEW x \in Lease,
           row[x].status \in {"none", "waiting"},
           row'[x].status \in {"waiting", "held"},
           row[x].status = "none" \/ Fixed(x),
           \A k \in Lease \ {x} : Fixed(k) /\ row'[k].status = row[k].status,
           \A q \in Proc \ {p} : proc'[q] = proc[q], proc'[p].pc \in {"head", "holding"},
           ProcOK(p)',
           \A q \in Proc \ {p} : At(q, "unwind") =>
               \A S \in SUBSET Lease : Estate(proc[q].mine, S) => row'[x].parent \notin S
    PROVE  (\A q \in Proc : ProcOK(q)') /\ (\A q \in Proc : Unwinding(q)')
<1>1. ASSUME NEW q \in Proc \ {p} PROVE ProcOK(q)'
  <2>1. ProcOK(q) /\ proc'[q] = proc[q]
    BY DEF FamilyOK
  <2>2. /\ AskedFor(q) \/ proc[q].pc \in {"holding", "unwind"} => proc[q].mine \in Lease
        /\ proc[q].pc \in {"book", "claim", "refund"} => proc[q].head \in Lease
        /\ AskedFor(q)' <=> AskedFor(q)
    BY <2>1 DEF Typed, LocalOK, AskedFor, ProcOK, At
  <2>3. ASSUME AskedFor(q)
        PROVE  row'[proc'[q].mine].holder = q /\ row'[proc'[q].mine].status \in {"waiting", "held"}
    <3>1. row[proc[q].mine].holder = q /\ row[proc[q].mine].status \in {"waiting", "held"}
      BY <2>1, <2>3 DEF ProcOK
    <3>2. CASE proc[q].mine = x
      BY <2>1, <3>1, <3>2 DEF Fixed
    <3>3. CASE proc[q].mine # x
      BY <2>1, <2>2, <2>3, <3>1, <3>3 DEF Fixed
    <3> QED
      BY <3>2, <3>3
  <2>4. ASSUME proc[q].pc \in {"holding", "unwind"}
        PROVE  proc'[q].mine \in Lease /\ row'[proc'[q].mine].holder = q
               /\ row'[proc'[q].mine].status = "held"
    <3>1. proc[q].mine \in Lease /\ row[proc[q].mine].holder = q /\ row[proc[q].mine].status = "held"
      BY <2>1, <2>4 DEF ProcOK
    <3> QED
      BY <2>1, <3>1 DEF Fixed
  <2>5. ASSUME proc[q].pc \in {"book", "claim", "refund"}
        PROVE  row'[proc'[q].head].status # "none" /\ row'[proc'[q].head].parent = NoLease
    <3>1. row[proc[q].head].status # "none" /\ row[proc[q].head].parent = NoLease /\ proc[q].head \in Lease
      BY <2>1, <2>2, <2>5 DEF ProcOK
    <3> QED
      BY <2>1, <3>1 DEF Fixed
  <2> QED
    BY <2>1, <2>2, <2>3, <2>4, <2>5 DEF ProcOK
<1>2. ASSUME NEW q \in Proc \ {p} PROVE Unwinding(q)'
  <2>1. Unwinding(q) /\ proc'[q] = proc[q]
    BY DEF FamilyOK
  <2>2. \A r \in Proc : Dead(r) => Dead(r)'
    BY DEF Dead, At
  <2>3. ASSUME NEW T \in SUBSET Lease, At(q, "unwind"), Estate(proc[q].mine, T)
        PROVE  x \notin T
    <3>1. RowOK(x) /\ row[x].parent \notin T
      BY LedgerAssumption DEF FamilyOK, RowOK
    <3>2. proc[q].mine # x
      <4>1. proc[q].mine \in Occupying
        BY <2>3, UnwinderHolds
      <4> QED
        BY <4>1 DEF Occupying, OCCUPYING
    <3> QED
      BY <2>3, <3>1, <3>2 DEF Estate
  <2>4. ASSUME NEW T \in SUBSET Lease, At(q, "unwind") /\ Estate(proc[q].mine, T), NEW k \in Lease
        PROVE  /\ k \in T => /\ row'[k].status = row[k].status
                             /\ row'[k].holder = row[k].holder
                             /\ row'[k].parent = row[k].parent
               /\ row'[k].parent \in T => k \in T
    <3>1. CASE k = x
      BY <2>3, <2>4, <3>1
    <3>2. CASE k # x
      BY <2>3, <2>4, <3>2 DEF Fixed, Estate
    <3> QED
      BY <3>1, <3>2
  <2> QED
    BY <2>1, <2>2, <2>4, UnwindingStays
<1>3. Unwinding(p)'
  BY DEF Unwinding, At
<1> QED
  BY <1>1, <1>2, <1>3

(* A claim that takes its row in the line.                                  *)
LEMMA InsertRow ==
    ASSUME Typed, NEW p \in Proc, Insert(p)
    PROVE  \E l \in Lease :
              /\ row[l].status = "none"
              /\ \A k \in Lease \ {l} : row'[k] = row[k]
              /\ row'[l].status = "waiting" /\ row'[l].holder = p /\ row'[l].parent = NoLease
              /\ row'[l].covered = Zero /\ row'[l].drawn = Zero
              /\ proc'[p].pc = "head" /\ proc'[p].mine = l
              /\ \A q \in Proc \ {p} : proc'[q] = proc[q]
<1>1. PICK l \in Unused :
          /\ row' = [row EXCEPT ![l] =
                        [status |-> "waiting", holder |-> p, pool |-> proc[p].want.pool,
                         cost |-> proc[p].want.price, covered |-> Zero, drawn |-> Zero,
                         parent |-> NoLease, position |-> proc[p].pos,
                         ahead |-> proc[p].ahead]]
          /\ proc' = [proc EXCEPT ![p] = [Start EXCEPT !.pc = "head", !.mine = l,
                                                       !.after = "answer"]]
  BY DEF Insert
<1>2. l \in Lease /\ row[l].status = "none" /\ row \in [Lease -> Row] /\ proc \in [Proc -> Local]
  BY DEF Unused, Typed, TypeOK
<1> QED
  BY <1>1, <1>2 DEF Start

(* An arrival in line leaves the families in order.                         *)
LEMMA InsertFamily ==
    ASSUME Typed, FamilyOK, NEW p \in Proc, Insert(p)
    PROVE  FamilyOK'
<1>1. PICK l \in Lease :
              /\ row[l].status = "none"
              /\ \A k \in Lease \ {l} : row'[k] = row[k]
              /\ row'[l].status = "waiting" /\ row'[l].holder = p /\ row'[l].parent = NoLease
              /\ row'[l].covered = Zero /\ row'[l].drawn = Zero
              /\ proc'[p].pc = "head" /\ proc'[p].mine = l
              /\ \A q \in Proc \ {p} : proc'[q] = proc[q]
  BY InsertRow
<1>2. RowOK(l) /\ row[l].parent = NoLease
  BY <1>1 DEF FamilyOK, RowOK
<1>3. \A k \in Lease : row'[k].parent = row[k].parent
  BY <1>1, <1>2
<1>4. Acyclic'
  BY <1>3 DEF FamilyOK, Acyclic
<1>5. ASSUME NEW k \in Lease PROVE RowOK(k)'
  <2>1. row'[k] \in Row /\ RowOK(k)
    BY InsertTyped DEF Typed, TypeOK, FamilyOK
  <2>2. row[k].parent \in Lease \cup {NoLease}
    BY DEF Typed, TypeOK, Row
  <2>3. row[k].parent # l
    BY <1>1, <2>1, LedgerAssumption DEF RowOK
  <2>4. row[k].parent # NoLease => row'[row[k].parent] = row[row[k].parent]
    BY <1>1, <2>2, <2>3
  <2>5. CASE k = l
    <3>1. \A d \in Dim : Zero[d] <= row'[k].cost[d]
      BY <2>1, LedgerAssumption DEF Zero, Row, Vector
    <3> QED
      BY <1>1, <2>5, <3>1 DEF RowOK
  <2>6. CASE k # l
    <3>1. row'[k] = row[k]
      BY <1>1, <2>6
    <3> QED
      BY <1>3, <2>1, <2>4, <3>1 DEF RowOK
  <2> QED
    BY <2>5, <2>6
<1>6. ProcOK(p)'
  BY <1>1 DEF ProcOK, AskedFor
<1>7. (\A q \in Proc : ProcOK(q)') /\ (\A q \in Proc : Unwinding(q)')
  <2>1. ~At(p, "unwind") /\ ~Dead(p)
    BY DEF Insert, At, Dead
  <2>2. row'[l].parent \notin Lease
    BY <1>1, LedgerAssumption
  <2>3. \A k \in Lease \ {l} : Fixed(k) /\ row'[k].status = row[k].status
    BY <1>1 DEF Fixed
  <2>4. \A q \in Proc \ {p} : At(q, "unwind") =>
               \A S \in SUBSET Lease : Estate(proc[q].mine, S) => row'[l].parent \notin S
    BY <2>2
  <2> QED
    BY <1>1, <1>6, <2>1, <2>3, <2>4, GrowthFamily
<1> QED
  BY <1>4, <1>5, <1>7 DEF FamilyOK

(* A claim that promotes its head.                                          *)
LEMMA ClaimRow ==
    ASSUME Typed, NEW p \in Proc, Claim(p), ~UNCHANGED row
    PROVE  \E l \in Lease :
              /\ l = proc[p].head /\ row[l].status = "waiting" /\ row'[l].status = "held"
              /\ \A k \in Lease \ {l} : row'[k] = row[k]
              /\ Fixed(l) /\ row'[l].drawn = row[l].drawn
              /\ proc'[p].pc = "head" /\ proc'[p].mine = proc[p].mine
              /\ proc'[p].after = proc[p].after
              /\ \A q \in Proc \ {p} : proc'[q] = proc[q]
              /\ UNCHANGED held
<1>1. PICK l \in Lease : l = proc[p].head
  BY DEF Typed, LocalOK, Claim, At
<1>2. /\ row[l].status = "waiting"
      /\ row' = [row EXCEPT ![l].status = "held", ![l].position = 0]
      /\ proc' = [proc EXCEPT ![p].pc = "head", ![p].head = NoLease]
      /\ UNCHANGED held
  BY <1>1 DEF Claim
<1>3. row \in [Lease -> Row] /\ proc \in [Proc -> Local]
  BY DEF Typed, TypeOK
<1>4. /\ row'[l].status = "held" /\ Fixed(l) /\ row'[l].drawn = row[l].drawn
      /\ \A k \in Lease \ {l} : row'[k] = row[k]
  BY <1>2, <1>3 DEF Row, Fixed
<1>5. /\ proc'[p].pc = "head" /\ proc'[p].mine = proc[p].mine
      /\ proc'[p].after = proc[p].after
      /\ \A q \in Proc \ {p} : proc'[q] = proc[q]
  BY <1>2, <1>3 DEF Local
<1> QED
  BY <1>1, <1>2, <1>4, <1>5

(* So does a promotion, won or lost.                                        *)
LEMMA ClaimFamily ==
    ASSUME Typed, FamilyOK, NEW p \in Proc, Claim(p)
    PROVE  FamilyOK'
<1>1. CASE UNCHANGED row
  BY <1>1, DrainFamily
<1>2. CASE ~UNCHANGED row
  <2>1. PICK l \in Lease :
              /\ l = proc[p].head /\ row[l].status = "waiting" /\ row'[l].status = "held"
              /\ \A k \in Lease \ {l} : row'[k] = row[k]
              /\ Fixed(l) /\ row'[l].drawn = row[l].drawn
              /\ proc'[p].pc = "head" /\ proc'[p].mine = proc[p].mine
              /\ proc'[p].after = proc[p].after
              /\ \A q \in Proc \ {p} : proc'[q] = proc[q]
              /\ UNCHANGED held
    BY <1>2, ClaimRow
  <2>2. \A k \in Lease : Fixed(k) /\ row'[k].drawn = row[k].drawn
    BY <2>1 DEF Fixed
  <2>3. \A k \in Lease \ {l} : row'[k].status = row[k].status
    BY <2>1
  <2>4. Acyclic'
    BY <2>2 DEF FamilyOK, Acyclic, Fixed
  <2>5. ASSUME NEW k \in Lease PROVE RowOK(k)'
    <3>1. RowOK(k) /\ Fixed(k) /\ row[k].parent \in Lease \cup {NoLease}
      BY <2>2 DEF FamilyOK, Typed, TypeOK, Row
    <3>2. row[k].parent # NoLease => row'[row[k].parent].status \in {"held", "released"}
      BY <2>1, <2>3, <3>1 DEF RowOK
    <3>3. row'[k].status # "orphaned"
      BY <2>1, <2>3, <3>1 DEF RowOK
    <3>4. row'[k].status \in {"none", "waiting"} => row[k].status \in {"none", "waiting"}
      BY <2>1, <2>3
    <3> QED
      BY <2>2, <3>1, <3>2, <3>3, <3>4 DEF RowOK, Fixed
  <2>6. ProcOK(p)'
    <3>1. ProcOK(p) /\ At(p, "claim") /\ (AskedFor(p) => proc[p].mine \in Lease)
      BY DEF FamilyOK, Claim, AskedFor, Typed, LocalOK, At
    <3> QED
      BY <2>1, <2>2, <2>3, <3>1 DEF ProcOK, AskedFor, At, Fixed
  <2>7. row[l].parent \notin Lease
    BY <2>1, LedgerAssumption DEF FamilyOK, RowOK
  <2>8. row'[l].parent \notin Lease
    BY <2>1, <2>7 DEF Fixed
  <2>9. (\A q \in Proc : ProcOK(q)') /\ (\A q \in Proc : Unwinding(q)')
    <3>1. ~At(p, "unwind") /\ ~Dead(p)
      BY DEF Claim, At, Dead
    <3>2. \A q \in Proc \ {p} : At(q, "unwind") =>
               \A S \in SUBSET Lease : Estate(proc[q].mine, S) => row'[l].parent \notin S
      BY <2>8
    <3> QED
      BY <2>1, <2>2, <2>3, <2>6, <3>1, <3>2, GrowthFamily
  <2> QED
    BY <2>4, <2>5, <2>9 DEF FamilyOK
<1> QED
  BY <1>1, <1>2

(* What a parent lends: no more than the price, nor than it has left.       *)
LEMMA CoverBounds ==
    ASSUME Typed, NEW l \in Lease, NEW v \in Vector, NEW draw \in BOOLEAN,
           \A d \in Dim : row[l].drawn[d] <= row[l].cost[d]
    PROVE  \A d \in Dim : /\ Cover(l, v, draw)[d] \in 0..MaxCost
                          /\ Cover(l, v, draw)[d] <= v[d]
                          /\ row[l].drawn[d] + Cover(l, v, draw)[d] <= row[l].cost[d]
                          /\ Minus(v, Cover(l, v, draw))[d] = v[d] - Cover(l, v, draw)[d]
<1> TAKE d \in Dim
<1>1. /\ row[l].cost[d] \in 0..MaxCost /\ row[l].drawn[d] \in Nat /\ v[d] \in 0..MaxCost
      /\ row[l].drawn[d] <= row[l].cost[d] /\ MaxCost \in Nat
  BY LedgerAssumption DEF Typed, TypeOK, Row, Vector
<1> DEFINE unlent == IF row[l].cost[d] >= row[l].drawn[d] THEN row[l].cost[d] - row[l].drawn[d] ELSE 0
<1>2. Cover(l, v, draw)[d] = IF ~draw \/ d = "slots" THEN 0
                             ELSE IF v[d] <= unlent THEN v[d] ELSE unlent
  BY DEF Cover
<1>3. unlent = row[l].cost[d] - row[l].drawn[d] /\ unlent \in 0..MaxCost
  BY <1>1
<1> HIDE DEF unlent
<1>4. /\ Cover(l, v, draw)[d] \in 0..MaxCost
      /\ Cover(l, v, draw)[d] <= v[d]
      /\ row[l].drawn[d] + Cover(l, v, draw)[d] <= row[l].cost[d]
  BY <1>1, <1>2, <1>3
<1>5. Minus(v, Cover(l, v, draw))[d] = v[d] - Cover(l, v, draw)[d]
  BY <1>1, <1>4 DEF Minus
<1> QED
  BY <1>4, <1>5

(* A child that is granted beneath its parent.                              *)
LEMMA ChildRow ==
    ASSUME Typed, NEW p \in Proc, NEW parent \in Lease, NEW c \in Nested, NEW draw \in BOOLEAN,
           ReserveChild(p, parent, c, draw)
    PROVE  \E l \in Lease :
              /\ row[l].status = "none" /\ l # parent
              /\ \A k \in Lease \ {l} :
                    /\ Fixed(k) /\ row'[k].status = row[k].status
                    /\ row'[k].drawn = IF k = parent
                                       THEN Plus(row[k].drawn, Cover(parent, c.price, draw))
                                       ELSE row[k].drawn
              /\ row'[l].status = "held" /\ row'[l].holder = p /\ row'[l].parent = parent
              /\ row'[l].pool = c.pool /\ row'[l].cost = c.price
              /\ row'[l].covered = Cover(parent, c.price, draw) /\ row'[l].drawn = Zero
              /\ proc'[p].pc = "holding" /\ proc'[p].mine = l
              /\ \A q \in Proc \ {p} : proc'[q] = proc[q]
<1> DEFINE cover == Cover(parent, c.price, draw)
           mid == [row EXCEPT ![parent].drawn = Plus(@, cover)]
           new(l) == [status |-> "held", holder |-> p, pool |-> c.pool,
                      cost |-> c.price, covered |-> cover, drawn |-> Zero,
                      parent |-> parent, position |-> 0, ahead |-> {}]
<1>1. PICK l \in Unused :
          /\ row' = [row EXCEPT ![parent].drawn = Plus(@, cover), ![l] = new(l)]
          /\ proc' = [proc EXCEPT ![p].pc = "holding", ![p].mine = l]
  BY DEF ReserveChild
<1>2. /\ l \in Lease /\ row[l].status = "none" /\ row \in [Lease -> Row] /\ proc \in [Proc -> Local]
      /\ l # parent
  BY DEF Unused, Typed, TypeOK, ReserveChild, Occupying, OCCUPYING
<1>3. row' = [mid EXCEPT ![l] = new(l)]
  BY <1>1
<1>4. \A k \in Lease :
          /\ mid[k].status = row[k].status /\ mid[k].holder = row[k].holder
          /\ mid[k].parent = row[k].parent /\ mid[k].pool = row[k].pool
          /\ mid[k].cost = row[k].cost /\ mid[k].covered = row[k].covered
          /\ mid[k].drawn = IF k = parent THEN Plus(row[k].drawn, cover) ELSE row[k].drawn
  BY <1>2 DEF Row
<1>5. DOMAIN mid = Lease
  BY <1>2
<1>6. /\ proc'[p].pc = "holding" /\ proc'[p].mine = l
      /\ \A q \in Proc \ {p} : proc'[q] = proc[q]
  BY <1>1, <1>2 DEF Local
<1> DEFINE Write == row' = [mid EXCEPT ![l] = new(l)]
<1>7. Write
  BY <1>3
<1>8. row'[l] = new(l) /\ \A k \in Lease \ {l} : row'[k] = mid[k]
  <2> HIDE DEF mid, new
  <2> QED
    BY <1>2, <1>5, <1>7
<1> HIDE DEF mid, Write
<1>9. ASSUME NEW k \in Lease \ {l}
      PROVE  /\ Fixed(k) /\ row'[k].status = row[k].status
             /\ row'[k].drawn = IF k = parent THEN Plus(row[k].drawn, cover) ELSE row[k].drawn
  <2>1. row'[k] = mid[k] /\ k \in Lease
    BY <1>8
  <2> QED
    BY <1>4, <2>1 DEF Fixed
<1> QED
  BY <1>2, <1>6, <1>8, <1>9

(* So does a child, which nobody can be releasing from above: its parent's  *)
(* holder is alive and holding.                                             *)
LEMMA ChildFamily ==
    ASSUME Orderly, Typed, FamilyOK, CoverExact, NEW p \in Proc, NEW parent \in Lease,
           NEW c \in Nested, NEW draw \in BOOLEAN, ReserveChild(p, parent, c, draw)
    PROVE  FamilyOK'
<1>1. PICK l \in Lease :
              /\ row[l].status = "none" /\ l # parent
              /\ \A k \in Lease \ {l} :
                    /\ Fixed(k) /\ row'[k].status = row[k].status
                    /\ row'[k].drawn = IF k = parent
                                       THEN Plus(row[k].drawn, Cover(parent, c.price, draw))
                                       ELSE row[k].drawn
              /\ row'[l].status = "held" /\ row'[l].holder = p /\ row'[l].parent = parent
              /\ row'[l].pool = c.pool /\ row'[l].cost = c.price
              /\ row'[l].covered = Cover(parent, c.price, draw) /\ row'[l].drawn = Zero
              /\ proc'[p].pc = "holding" /\ proc'[p].mine = l
              /\ \A q \in Proc \ {p} : proc'[q] = proc[q]
  BY ChildRow
<1>2. /\ parent \in Occupying /\ c.price \in Vector /\ At(p, "idle")
      /\ At(row[parent].holder, "holding") /\ row[parent].holder \in Proc
      /\ row[parent].status = "held"
  <2>1. parent \in Occupying /\ At(p, "idle") /\ At(row[parent].holder, "holding")
    BY DEF ReserveChild, Orderly
  <2>2. c.price \in Vector
    BY LedgerAssumption DEF Price
  <2>3. row[parent].holder \in Proc
    BY DEF Typed, TypeOK, Row
  <2>4. row[parent].status = "held"
    BY <2>1 DEF Occupying, OCCUPYING, FamilyOK, RowOK
  <2> QED
    BY <2>1, <2>2, <2>3, <2>4
<1>3. \A k \in Lease : row[k].parent # l
  BY <1>1, LedgerAssumption DEF FamilyOK, RowOK
<1>4. \A k \in Lease \ {l} : row'[k].parent = row[k].parent
  BY <1>1 DEF Fixed
<1>5. Acyclic'
  <2>1. ASSUME NEW T \in SUBSET Lease, T # {} PROVE \E k \in T : row'[k].parent \notin T
    <3>1. CASE T \ {l} = {}
      BY <1>1, <2>1, <3>1
    <3>2. CASE T \ {l} # {}
      <4>1. PICK k \in T \ {l} : row[k].parent \notin T \ {l}
        BY <3>2 DEF FamilyOK, Acyclic
      <4> QED
        BY <1>3, <1>4, <4>1
    <3> QED
      BY <3>1, <3>2
  <2> QED
    BY <2>1 DEF Acyclic
<1>6. ASSUME NEW k \in Lease PROVE RowOK(k)'
  <2>1. RowOK(k) /\ row[k].parent \in Lease \cup {NoLease}
    BY DEF FamilyOK, Typed, TypeOK, Row
  <2>2. CASE k = l
    <3>1. \A d \in Dim : Cover(parent, c.price, draw)[d] <= c.price[d]
      BY <1>2, CoverBounds DEF CoverExact
    <3>2. row'[parent].status = "held"
      BY <1>1, <1>2
    <3>3. parent # NoLease
      BY LedgerAssumption
    <3> QED
      BY <1>1, <2>2, <3>1, <3>2, <3>3 DEF RowOK
  <2>3. CASE k # l
    <3>1. Fixed(k) /\ row'[k].status = row[k].status
      BY <1>1, <2>3
    <3>2. row[k].parent # NoLease => row'[row[k].parent].status = row[row[k].parent].status
      BY <1>1, <1>3, <2>1
    <3>3. row'[k].status \in {"none", "waiting"} => row'[k].drawn = row[k].drawn
      BY <1>1, <1>2, <2>3
    <3> QED
      BY <2>1, <3>1, <3>2, <3>3 DEF RowOK, Fixed
  <2> QED
    BY <2>2, <2>3
<1>7. ProcOK(p)'
  BY <1>1 DEF ProcOK, AskedFor
<1>8. ASSUME NEW q \in Proc \ {p}, At(q, "unwind"), NEW S \in SUBSET Lease,
             Estate(proc[q].mine, S), parent \in S
      PROVE  FALSE
  <2>1. proc[q].mine \in Occupying /\ row[proc[q].mine].holder = q
    BY <1>8, UnwinderHolds
  <2>2. parent # proc[q].mine
    BY <1>2, <1>8, <2>1 DEF At
  <2>3. HolderGone(parent)
    BY <1>2, <1>8, <2>2 DEF Estate
  <2> QED
    BY <1>2, <2>3 DEF HolderGone, Dead, At
<1>9. (\A q \in Proc : ProcOK(q)') /\ (\A q \in Proc : Unwinding(q)')
  <2>1. ~At(p, "unwind") /\ ~Dead(p)
    BY <1>2 DEF At, Dead
  <2>2. \A k \in Lease \ {l} : Fixed(k) /\ row'[k].status = row[k].status
    BY <1>1
  <2>3. \A q \in Proc \ {p} : At(q, "unwind") =>
               \A S \in SUBSET Lease : Estate(proc[q].mine, S) => row'[l].parent \notin S
    BY <1>1, <1>8
  <2> QED
    BY <1>1, <1>7, <2>1, <2>2, <2>3, GrowthFamily
<1> QED
  BY <1>5, <1>6, <1>9 DEF FamilyOK

(* Orderly processes do nothing but ask, nest, hold, release and drain.     *)
LEMMA OrderlySteps ==
    ASSUME Orderly, Typed, FamilyOK, NEW p \in Proc, Step(p) \/ Choice(p)
    PROVE  \/ Insert(p) \/ Claim(p) \/ Settle(p)
           \/ \E parent \in Lease, c \in Nested, draw \in BOOLEAN : ReserveChild(p, parent, c, draw)
           \/ \E c \in Claims : Reserve(p, c)
           \/ HeadRead(p) \/ Book(p) \/ Refund(p)
           \/ Answer(p) \/ Poll(p) \/ Release(p) \/ Crash(p) \/ Look(p) \/ ReleaseKid(p)
<1>1. ProcOK(p)
  BY DEF FamilyOK
<1>2. ~Reclaim(p) /\ ~Judge(p) /\ ~Probe(p) /\ ~DropWaiter(p) /\ ~Repair(p)
  BY <1>1 DEF ProcOK, Reclaim, Judge, Probe, DropWaiter, Repair, At
<1>3. ~GiveUp(p) /\ ~Sweep(p) /\ \A l \in Lease : ~ForceRelease(p, l)
  BY DEF Orderly, GiveUp, Sweep, ForceRelease
<1>4. ~Renew(p)
  BY <1>1 DEF ProcOK, Renew, At, FamilyOK, RowOK
<1>5. ~Cancel(p)
  <2> SUFFICES ASSUME Cancel(p) PROVE FALSE
    OBVIOUS
  <2>1. At(p, "unwind") /\ Top(p).step = "cancel"
    BY DEF Cancel, Releasing
  <2>2. PICK S \in SUBSET Lease, st \in Seq(Frame), m \in Lease :
          /\ st = proc[p].stack /\ m = proc[p].mine
          /\ Estate(m, S) /\ Stacked(st, m, S)
    BY <2>1 DEF FamilyOK, Unwinding
  <2>3. st # <<>> /\ Top(p) = Head(st)
    BY <2>1, <2>2 DEF Typed, LocalOK, Top
  <2> QED
    BY <2>1, <2>2, <2>3, TopFacts
<1> QED
  BY <1>2, <1>3, <1>4, <1>5 DEF Step, Choice

(* Every step of orderly processes leaves the families in order.            *)
LEMMA StepFamily ==
    ASSUME Orderly, Typed, FamilyOK, CoverExact, NEW p \in Proc, Step(p) \/ Choice(p)
    PROVE  FamilyOK'
BY OrderlySteps, InsertFamily, ClaimFamily, SettleFamily, ChildFamily, ReserveFamily, DrainFamily,
   HolderFamily

-----------------------------------------------------------------------------
(* What a row weighs in a pool it is charged to.                            *)
LoadWeight(q, d) == [l \in Lease |-> IF l \in ChargedTo(q) THEN row[l].cost[d] - row[l].covered[d] ELSE 0]

(* p has a booking under way that is charged to q.                          *)
Books(p, q) == proc[p].pc \in {"claim", "refund"} /\ q \in CHARGED_POOLS[row[proc[p].head].pool]

(* What a process with a booking under way weighs.                          *)
FlightWeight(q, d) == [p \in Proc |-> IF Books(p, q) THEN row[proc[p].head].cost[d] ELSE 0]

(* What a child weighs in its parent's allotment.                           *)
CoverWeight(l, d) == [k \in Lease |-> IF k \in Children(l) THEN row[k].covered[d] ELSE 0]

(* What the live children of l were covered for.                            *)
CoverSum(l, d) == Cardinality(CoverUnits(Children(l), d))

(* The ledger's sums are tallies of these weights.                          *)
LoadCounts ==
    Typed /\ FamilyOK => \A q \in Pool, d \in Dim :
        /\ LoadWeight(q, d) \in [Lease -> 0..MaxCost]
        /\ Load(q, d) = Tally(Lease, LoadWeight(q, d))

FlightCounts ==
    Typed => \A q \in Pool, d \in Dim :
        /\ FlightWeight(q, d) \in [Proc -> 0..MaxCost]
        /\ InFlight(q, d) = Tally(Proc, FlightWeight(q, d))

CoverCounts ==
    Typed => \A l \in Lease, d \in Dim :
        /\ CoverWeight(l, d) \in [Lease -> 0..MaxCost]
        /\ CoverSum(l, d) = Tally(Lease, CoverWeight(l, d))

(* Units counted one by one are units counted by weight.                    *)
LEMMA UnitsByWeight ==
    ASSUME NEW S, NEW T \in SUBSET S, NEW w \in [S -> 0..MaxCost],
           NEW U, U = {u \in T \X (1..MaxCost) : u[2] <= w[u[1]]},
           \A y \in S \ T : w[y] = 0
    PROVE  Cardinality(U) = Tally(S, w)
<1>1. MaxCost \in Nat
  BY LedgerAssumption
<1>2. U = {u \in S \X (1..MaxCost) : u[2] <= w[u[1]]}
  <2>1. ASSUME NEW u \in S \X (1..MaxCost), u[2] <= w[u[1]] PROVE u \in T \X (1..MaxCost)
    <3>1. u[1] \in S /\ u[2] \in 1..MaxCost /\ u = <<u[1], u[2]>>
      OBVIOUS
    <3>2. u[1] \in T
      BY <1>1, <2>1, <3>1
    <3> QED
      BY <3>1, <3>2
  <2> QED
    BY <2>1
<1> QED
  BY <1>2 DEF Tally

(* What is charged to a pool is the tally over the rows.                    *)
LEMMA LoadTally == LoadCounts
<1> SUFFICES ASSUME Typed, FamilyOK, NEW q \in Pool, NEW d \in Dim
             PROVE  /\ LoadWeight(q, d) \in [Lease -> 0..MaxCost]
                    /\ Load(q, d) = Tally(Lease, LoadWeight(q, d))
  BY DEF LoadCounts
<1>1. ASSUME NEW l \in Lease
      PROVE  /\ booked(row[l])[d] = row[l].cost[d] - row[l].covered[d]
             /\ row[l].cost[d] - row[l].covered[d] \in 0..MaxCost
  <2>1. RowOK(l) /\ row[l].cost[d] \in 0..MaxCost /\ row[l].covered[d] \in 0..MaxCost
    BY DEF FamilyOK, Typed, TypeOK, Row, Vector
  <2>2. MaxCost \in Nat
    BY LedgerAssumption
  <2>3. row[l].covered[d] <= row[l].cost[d]
    BY <2>1 DEF RowOK
  <2> QED
    BY <2>1, <2>2, <2>3 DEF booked
<1>2. PICK w \in [Lease -> 0..MaxCost] : w = LoadWeight(q, d)
  <2>1. 0 \in 0..MaxCost
    BY LedgerAssumption
  <2> QED
    BY <1>1, <2>1 DEF LoadWeight
<1>3. ChargedTo(q) \in SUBSET Lease
  BY DEF ChargedTo, Occupying
<1>4. \A l \in ChargedTo(q) : w[l] = booked(row[l])[d]
  BY <1>1, <1>2, <1>3 DEF LoadWeight
<1>5. Units(ChargedTo(q), d) = {u \in ChargedTo(q) \X (1..MaxCost) : u[2] <= w[u[1]]}
  BY <1>4 DEF Units
<1>6. \A l \in Lease \ ChargedTo(q) : w[l] = 0
  BY <1>2 DEF LoadWeight
<1>7. Cardinality(Units(ChargedTo(q), d)) = Tally(Lease, w)
  BY <1>3, <1>5, <1>6, UnitsByWeight
<1> QED
  BY <1>2, <1>7 DEF Load

(* What is in flight is the tally over the processes.                       *)
LEMMA FlightTally == FlightCounts
<1> SUFFICES ASSUME Typed, NEW q \in Pool, NEW d \in Dim
             PROVE  /\ FlightWeight(q, d) \in [Proc -> 0..MaxCost]
                    /\ InFlight(q, d) = Tally(Proc, FlightWeight(q, d))
  BY DEF FlightCounts
<1>1. ASSUME NEW p \in Proc, Books(p, q) PROVE row[proc[p].head].cost[d] \in 0..MaxCost
  BY <1>1 DEF Books, Typed, TypeOK, LocalOK, Row, Vector
<1>2. PICK w \in [Proc -> 0..MaxCost] : w = FlightWeight(q, d)
  <2>1. 0 \in 0..MaxCost
    BY LedgerAssumption
  <2> QED
    BY <1>1, <2>1 DEF FlightWeight
<1> DEFINE T == {p \in Proc : Books(p, q)}
           U == {u \in Proc \X (1..MaxCost) : Books(u[1], q) /\ u[2] <= row[proc[u[1]].head].cost[d]}
<1>3. T \in SUBSET Proc /\ (\A p \in Proc \ T : w[p] = 0)
      /\ (\A p \in T : w[p] = row[proc[p].head].cost[d])
  BY <1>2 DEF FlightWeight
<1>4. U = {u \in T \X (1..MaxCost) : u[2] <= w[u[1]]}
  <2>1. ASSUME NEW u \in U PROVE u \in {v \in T \X (1..MaxCost) : v[2] <= w[v[1]]}
    <3>1. u[1] \in T /\ u[2] \in 1..MaxCost /\ u = <<u[1], u[2]>>
      OBVIOUS
    <3> QED
      BY <1>3, <3>1
  <2>2. ASSUME NEW u \in {v \in T \X (1..MaxCost) : v[2] <= w[v[1]]} PROVE u \in U
    <3>1. u[1] \in T /\ u[2] \in 1..MaxCost /\ u = <<u[1], u[2]>> /\ u[2] <= w[u[1]]
      OBVIOUS
    <3> QED
      BY <1>3, <3>1
  <2> HIDE DEF U, T
  <2> QED
    BY <2>1, <2>2
<1>5. InFlight(q, d) = Cardinality(U)
  BY DEF InFlight, Books
<1> HIDE DEF U, T
<1>6. Cardinality(U) = Tally(Proc, w)
  BY <1>3, <1>4, UnitsByWeight
<1> QED
  BY <1>2, <1>5, <1>6

(* What a parent's children were covered for is the tally over the rows.    *)
LEMMA CoverTally == CoverCounts
<1> SUFFICES ASSUME Typed, NEW l \in Lease, NEW d \in Dim
             PROVE  /\ CoverWeight(l, d) \in [Lease -> 0..MaxCost]
                    /\ CoverSum(l, d) = Tally(Lease, CoverWeight(l, d))
  BY DEF CoverCounts
<1>1. \A k \in Lease : row[k].covered[d] \in 0..MaxCost
  BY DEF Typed, TypeOK, Row, Vector
<1>2. PICK w \in [Lease -> 0..MaxCost] : w = CoverWeight(l, d)
  <2>1. 0 \in 0..MaxCost
    BY LedgerAssumption
  <2> QED
    BY <1>1, <2>1 DEF CoverWeight
<1>3. Children(l) \in SUBSET Lease
  BY DEF Children, Occupying
<1>4. /\ \A k \in Children(l) : w[k] = row[k].covered[d]
      /\ \A k \in Lease \ Children(l) : w[k] = 0
  BY <1>2, <1>3 DEF CoverWeight
<1>5. CoverUnits(Children(l), d) = {u \in Children(l) \X (1..MaxCost) : u[2] <= w[u[1]]}
  BY <1>4 DEF CoverUnits
<1>6. Cardinality(CoverUnits(Children(l), d)) = Tally(Lease, w)
  <2>1. PICK T \in SUBSET Lease : T = Children(l)
    BY <1>3
  <2>2. \A k \in Lease \ T : w[k] = 0
    BY <1>4, <2>1
  <2>3. CoverUnits(Children(l), d) = {u \in T \X (1..MaxCost) : u[2] <= w[u[1]]}
    BY <1>5, <2>1
  <2> QED
    BY <2>2, <2>3, UnitsByWeight
<1> QED
  BY <1>2, <1>6 DEF CoverSum

(* The same counts after a step.                                            *)
LEMMA CountsAfter == LoadCounts' /\ FlightCounts' /\ CoverCounts'
<1>1. LoadCounts /\ FlightCounts /\ CoverCounts
  BY LoadTally, FlightTally, CoverTally
<1> QED
  BY <1>1, PTL

(* One process moves and at most one row changes what it is charged.        *)
Moves(p, x) ==
    /\ \A q \in Proc \ {p} : proc'[q] = proc[q]
    /\ \A k \in Lease \ {x} : Fixed(k) /\ row'[k].status = row[k].status
    /\ row[x].status = "none" \/ Fixed(x)

(* The totals change by as much as that process and that row do.            *)
LEMMA TotalsMove ==
    ASSUME Typed, FamilyOK, Typed', FamilyOK', NEW p \in Proc, NEW x \in Lease, Moves(p, x),
           NEW q \in Pool, NEW d \in Dim
    PROVE  /\ Load(q, d) \in Nat /\ InFlight(q, d) \in Nat
           /\ LoadWeight(q, d)[x] \in 0..MaxCost /\ FlightWeight(q, d)[p] \in 0..MaxCost
           /\ LoadWeight(q, d)'[x] \in 0..MaxCost /\ FlightWeight(q, d)'[p] \in 0..MaxCost
           /\ LoadWeight(q, d)[x] <= Load(q, d) /\ FlightWeight(q, d)[p] <= InFlight(q, d)
           /\ Load(q, d)' = (Load(q, d) - LoadWeight(q, d)[x]) + LoadWeight(q, d)'[x]
           /\ InFlight(q, d)' = (InFlight(q, d) - FlightWeight(q, d)[p]) + FlightWeight(q, d)'[p]
<1>1. /\ LoadWeight(q, d) \in [Lease -> 0..MaxCost]
      /\ Load(q, d) = Tally(Lease, LoadWeight(q, d))
      /\ FlightWeight(q, d) \in [Proc -> 0..MaxCost]
      /\ InFlight(q, d) = Tally(Proc, FlightWeight(q, d))
  BY LoadTally, FlightTally DEF LoadCounts, FlightCounts
<1>2. /\ LoadWeight(q, d)' \in [Lease -> 0..MaxCost]
      /\ Load(q, d)' = Tally(Lease, LoadWeight(q, d)')
      /\ FlightWeight(q, d)' \in [Proc -> 0..MaxCost]
      /\ InFlight(q, d)' = Tally(Proc, FlightWeight(q, d)')
  <2>1. LoadCounts' /\ FlightCounts'
    BY CountsAfter
  <2>2. /\ LoadWeight(q, d)' \in [Lease -> 0..MaxCost]
        /\ Load(q, d)' = Tally(Lease, LoadWeight(q, d))'
        /\ FlightWeight(q, d)' \in [Proc -> 0..MaxCost]
        /\ InFlight(q, d)' = Tally(Proc, FlightWeight(q, d))'
    BY <2>1 DEF LoadCounts, FlightCounts
  <2> QED
    BY <2>2 DEF Tally
<1>3. \A k \in Lease \ {x} : LoadWeight(q, d)'[k] = LoadWeight(q, d)[k]
  BY DEF Moves, Fixed, LoadWeight, ChargedTo, Occupying
<1>4. ASSUME NEW r \in Proc \ {p} PROVE FlightWeight(q, d)'[r] = FlightWeight(q, d)[r]
  <2>1. proc'[r] = proc[r]
    BY DEF Moves
  <2>2. CASE proc[r].pc \notin {"claim", "refund"}
    BY <2>1, <2>2 DEF FlightWeight, Books
  <2>3. CASE proc[r].pc \in {"claim", "refund"}
    <3>1. proc[r].head \in Lease /\ row[proc[r].head].status # "none"
      BY <2>3 DEF Typed, LocalOK, FamilyOK, ProcOK
    <3>2. Fixed(proc[r].head)
      BY <3>1 DEF Moves
    <3> QED
      BY <2>1, <3>2 DEF FlightWeight, Books, Fixed
  <2> QED
    BY <2>2, <2>3
<1>5. IsFiniteSet(Lease) /\ IsFiniteSet(Proc) /\ MaxCost \in Nat
  BY LedgerAssumption
<1>6. PICK w \in [Lease -> 0..MaxCost], v \in [Lease -> 0..MaxCost] :
         w = LoadWeight(q, d) /\ v = LoadWeight(q, d)'
  BY <1>1, <1>2
<1>7. PICK f \in [Proc -> 0..MaxCost], g \in [Proc -> 0..MaxCost] :
         f = FlightWeight(q, d) /\ g = FlightWeight(q, d)'
  BY <1>1, <1>2
<1>8. /\ Tally(Lease, w) \in Nat /\ w[x] <= Tally(Lease, w)
      /\ Tally(Lease, v) = (Tally(Lease, w) - w[x]) + v[x]
  BY <1>3, <1>5, <1>6, TallyShift
<1>9. /\ Tally(Proc, f) \in Nat /\ f[p] <= Tally(Proc, f)
      /\ Tally(Proc, g) = (Tally(Proc, f) - f[p]) + g[p]
  BY <1>4, <1>5, <1>7, TallyShift
<1> QED
  BY <1>1, <1>2, <1>6, <1>7, <1>8, <1>9

(* What is lent changes by as much as that row does.                        *)
LEMMA CoverMove ==
    ASSUME Typed, Typed', NEW p \in Proc, NEW x \in Lease, Moves(p, x),
           NEW l \in Lease, NEW d \in Dim
    PROVE  /\ CoverSum(l, d) \in Nat
           /\ CoverWeight(l, d)[x] \in 0..MaxCost /\ CoverWeight(l, d)'[x] \in 0..MaxCost
           /\ CoverWeight(l, d)[x] <= CoverSum(l, d)
           /\ CoverSum(l, d)' = (CoverSum(l, d) - CoverWeight(l, d)[x]) + CoverWeight(l, d)'[x]
<1>1. /\ CoverWeight(l, d) \in [Lease -> 0..MaxCost]
      /\ CoverSum(l, d) = Tally(Lease, CoverWeight(l, d))
  BY CoverTally DEF CoverCounts
<1>2. /\ CoverWeight(l, d)' \in [Lease -> 0..MaxCost]
      /\ CoverSum(l, d)' = Tally(Lease, CoverWeight(l, d)')
  <2>1. CoverCounts'
    BY CountsAfter
  <2>2. /\ CoverWeight(l, d)' \in [Lease -> 0..MaxCost]
        /\ CoverSum(l, d)' = Tally(Lease, CoverWeight(l, d))'
    BY <2>1 DEF CoverCounts
  <2> QED
    BY <2>2 DEF Tally
<1>3. \A k \in Lease \ {x} : CoverWeight(l, d)'[k] = CoverWeight(l, d)[k]
  BY DEF Moves, Fixed, CoverWeight, Children, Occupying
<1>4. IsFiniteSet(Lease) /\ MaxCost \in Nat
  BY LedgerAssumption
<1>5. PICK w \in [Lease -> 0..MaxCost], v \in [Lease -> 0..MaxCost] :
         w = CoverWeight(l, d) /\ v = CoverWeight(l, d)'
  BY <1>1, <1>2
<1>6. /\ Tally(Lease, w) \in Nat /\ w[x] <= Tally(Lease, w)
      /\ Tally(Lease, v) = (Tally(Lease, w) - w[x]) + v[x]
  BY <1>3, <1>4, <1>5, TallyShift
<1> QED
  BY <1>1, <1>2, <1>5, <1>6

(* A step whose total follows the rows and the bookings keeps it exact.     *)
LEMMA ExactMove ==
    ASSUME Typed, FamilyOK, Typed', FamilyOK', Exact, NEW p \in Proc, ~Dead(p), NEW x \in Lease,
           Moves(p, x),
           \A q \in Pool, d \in Dim :
              held'[q][d] = (((held[q][d] - LoadWeight(q, d)[x]) - FlightWeight(q, d)[p])
                               + LoadWeight(q, d)'[x]) + FlightWeight(q, d)'[p]
    PROVE  Exact'
<1>1. NobodyKilled' => NobodyKilled
  BY DEF NobodyKilled, Moves, Dead, At
<1>2. ASSUME NEW q \in Pool, NEW d \in Dim
      PROVE  /\ (Load(q, d) + InFlight(q, d) <= held[q][d])'
             /\ NobodyKilled' => (held[q][d] = Load(q, d) + InFlight(q, d))'
  <2>1. /\ Load(q, d) \in Nat /\ InFlight(q, d) \in Nat
        /\ LoadWeight(q, d)[x] \in 0..MaxCost /\ FlightWeight(q, d)[p] \in 0..MaxCost
        /\ LoadWeight(q, d)'[x] \in 0..MaxCost /\ FlightWeight(q, d)'[p] \in 0..MaxCost
        /\ Load(q, d)' = (Load(q, d) - LoadWeight(q, d)[x]) + LoadWeight(q, d)'[x]
        /\ InFlight(q, d)' = (InFlight(q, d) - FlightWeight(q, d)[p]) + FlightWeight(q, d)'[p]
    BY TotalsMove
  <2>2. /\ Load(q, d) + InFlight(q, d) <= held[q][d]
        /\ NobodyKilled => held[q][d] = Load(q, d) + InFlight(q, d)
        /\ held[q][d] \in Nat /\ MaxCost \in Nat
    BY LedgerAssumption DEF Exact, Typed, TypeOK
  <2>3. PICK h \in Int, a \in 0..MaxCost, b \in 0..MaxCost, e \in 0..MaxCost, g \in 0..MaxCost :
          /\ h = held[q][d] /\ a = LoadWeight(q, d)[x] /\ b = FlightWeight(q, d)[p]
          /\ e = LoadWeight(q, d)'[x] /\ g = FlightWeight(q, d)'[p]
    BY <2>1, <2>2
  <2>4. held'[q][d] = (((h - a) - b) + e) + g
    BY <2>3
  <2> QED
    BY <1>1, <2>1, <2>2, <2>3, <2>4
<1> QED
  BY <1>2 DEF Exact

-----------------------------------------------------------------------------
(* The running totals stay within the ceiling.                              *)
HeldFits == \A q \in Pool, d \in Dim : held[q][d] <= ceiling[q][d]

(* The inductive invariant: the families are in order, the totals fit and   *)
(* add up, and so does what each parent has lent.                           *)
AccountInv == FamilyOK /\ HeldFits /\ Exact /\ CoverExact /\ NoOrphanChild

(* A step that writes neither rows nor totals keeps the accounts.           *)
LEMMA QuietAccount ==
    ASSUME AccountInv, NEW p \in Proc, ~Dead(p), UNCHANGED <<row, held, ceiling>>,
           \A q \in Proc \ {p} : proc'[q] = proc[q],
           proc'[p].pc = "dead"
             \/ (proc[p].pc \in {"claim", "refund"} <=> proc'[p].pc \in {"claim", "refund"}),
           proc[p].pc \in {"claim", "refund"} /\ proc'[p].pc # "dead" => proc'[p].head = proc[p].head,
           Typed
    PROVE  HeldFits' /\ Exact' /\ CoverExact' /\ NoOrphanChild'
<1>1. HeldFits' /\ NoOrphanChild'
  BY DEF AccountInv, HeldFits, NoOrphanChild, Occupying
<1>2. CoverExact'
  BY DEF AccountInv, CoverExact, Occupying, CoverUnits, Children
<1>3. ASSUME NEW q \in Pool, NEW d \in Dim PROVE Load(q, d)' = Load(q, d)
  BY DEF Load, Units, ChargedTo, Occupying
<1> DEFINE B(q, d) == {u \in Proc \X (1..MaxCost) :
                          /\ proc[u[1]].pc \in {"claim", "refund"}
                          /\ q \in CHARGED_POOLS[row[proc[u[1]].head].pool]
                          /\ u[2] <= row[proc[u[1]].head].cost[d]}
<1>4. ASSUME NEW q \in Pool, NEW d \in Dim, NEW u \in Proc \X (1..MaxCost)
      PROVE  /\ u \in B(q, d)' => u \in B(q, d)
             /\ proc'[p].pc # "dead" /\ u \in B(q, d) => u \in B(q, d)'
  <2>1. u[1] \in Proc
    OBVIOUS
  <2>2. CASE u[1] = p
    BY <2>2
  <2>3. CASE u[1] # p
    <3>1. proc'[u[1]] = proc[u[1]]
      BY <2>1, <2>3
    <3> QED
      BY <3>1
  <2> QED
    BY <2>2, <2>3
<1>5. ASSUME NEW q \in Pool, NEW d \in Dim
      PROVE  /\ IsFiniteSet(B(q, d)) /\ InFlight(q, d) = Cardinality(B(q, d))
             /\ InFlight(q, d)' = Cardinality(B(q, d)')
             /\ B(q, d)' \in SUBSET B(q, d)
             /\ proc'[p].pc # "dead" => B(q, d)' = B(q, d)
  <2>1. IsFiniteSet(Proc \X (1..MaxCost))
    <3>1. MaxCost \in Int /\ 1 \in Int /\ IsFiniteSet(Proc)
      BY LedgerAssumption
    <3> QED
      BY <3>1, FS_Interval, FS_Product
  <2>2. B(q, d) \in SUBSET (Proc \X (1..MaxCost)) /\ B(q, d)' \in SUBSET (Proc \X (1..MaxCost))
    OBVIOUS
  <2>3. InFlight(q, d) = Cardinality(B(q, d)) /\ InFlight(q, d)' = Cardinality(B(q, d)')
    BY DEF InFlight
  <2>4. \A u \in Proc \X (1..MaxCost) :
             /\ u \in B(q, d)' => u \in B(q, d)
             /\ proc'[p].pc # "dead" /\ u \in B(q, d) => u \in B(q, d)'
    BY <1>4
  <2> HIDE DEF B
  <2> QED
    BY <2>1, <2>2, <2>3, <2>4, FS_Subset
<1> HIDE DEF B
<1>6. ASSUME NEW q \in Pool, NEW d \in Dim
      PROVE  /\ (Load(q, d) + InFlight(q, d) <= held[q][d])'
             /\ NobodyKilled' => (held[q][d] = Load(q, d) + InFlight(q, d))'
  <2>1. InFlight(q, d)' <= InFlight(q, d) /\ InFlight(q, d)' \in Nat /\ InFlight(q, d) \in Nat
    BY <1>5, FS_Subset, FS_CardinalityType
  <2>2. NobodyKilled' => NobodyKilled /\ InFlight(q, d)' = InFlight(q, d)
    <3>1. NobodyKilled' => NobodyKilled /\ proc'[p].pc # "dead"
      BY DEF NobodyKilled, Dead, At
    <3> QED
      BY <1>5, <3>1
  <2>3. Load(q, d) \in Nat /\ held[q][d] \in Nat /\ held'[q][d] = held[q][d]
    BY LoadNat DEF Typed, TypeOK
  <2>4. /\ Load(q, d) + InFlight(q, d) <= held[q][d]
        /\ NobodyKilled => held[q][d] = Load(q, d) + InFlight(q, d)
    BY DEF AccountInv, Exact
  <2> QED
    BY <1>3, <2>1, <2>2, <2>3, <2>4
<1> QED
  BY <1>1, <1>2, <1>6 DEF Exact

(* Handing back a booking the totals hold lowers them by just that.         *)
LEMMA HandBack ==
    ASSUME Typed, FamilyOK, HeldFits, NEW x \in Lease, held' = Return(row[x]), UNCHANGED ceiling,
           \A q \in CHARGED_POOLS[row[x].pool] \cap Pool, d \in Dim :
               row[x].cost[d] - row[x].covered[d] <= held[q][d]
    PROVE  /\ HeldFits'
           /\ \A q \in Pool, d \in Dim :
                held'[q][d] = held[q][d] - (IF q \in CHARGED_POOLS[row[x].pool]
                                            THEN row[x].cost[d] - row[x].covered[d] ELSE 0)
<1>1. ASSUME NEW q \in Pool, NEW d \in Dim
      PROVE  /\ held'[q][d] = held[q][d] - (IF q \in CHARGED_POOLS[row[x].pool]
                                            THEN row[x].cost[d] - row[x].covered[d] ELSE 0)
             /\ held'[q][d] <= held[q][d]
  <2>1. held[q][d] \in Nat /\ row[x].cost[d] \in 0..MaxCost /\ row[x].covered[d] \in 0..MaxCost
        /\ MaxCost \in Nat /\ row[x].covered[d] <= row[x].cost[d]
    BY LedgerAssumption DEF Typed, TypeOK, Row, Vector, FamilyOK, RowOK
  <2>2. booked(row[x])[d] = row[x].cost[d] - row[x].covered[d]
    BY DEF booked
  <2>3. CASE q \in CHARGED_POOLS[row[x].pool]
    <3>1. held'[q] = Minus(held[q], booked(row[x]))
      BY <2>3 DEF Return
    <3>2. held'[q][d] = IF held[q][d] >= booked(row[x])[d] THEN held[q][d] - booked(row[x])[d] ELSE 0
      BY <3>1 DEF Minus
    <3>3. row[x].cost[d] - row[x].covered[d] <= held[q][d]
      BY <2>3
    <3>4. PICK h \in Nat, c \in Nat, v \in Nat : h = held[q][d] /\ c = row[x].cost[d] /\ v = row[x].covered[d]
      BY <2>1
    <3>5. held'[q][d] = h - (c - v) /\ v <= c /\ c - v <= h
      BY <2>1, <2>2, <3>2, <3>3, <3>4
    <3> QED
      BY <2>3, <3>4, <3>5
  <2>4. CASE q \notin CHARGED_POOLS[row[x].pool]
    <3>1. held'[q] = held[q]
      BY <2>4 DEF Return
    <3> QED
      BY <2>1, <2>4, <3>1
  <2> QED
    BY <2>3, <2>4
<1>2. HeldFits'
  <2>1. ASSUME NEW q \in Pool, NEW d \in Dim PROVE held'[q][d] <= ceiling[q][d]
    <3>1. held[q][d] \in Nat /\ ceiling[q][d] \in Nat /\ held[q][d] <= ceiling[q][d] /\ held'[q][d] <= held[q][d]
      BY <1>1 DEF HeldFits, Typed, TypeOK
    <3>2. held'[q][d] \in Int
      BY <1>1 DEF Typed, TypeOK, Row, Vector
    <3> QED
      BY <3>1, <3>2
  <2> QED
    BY <2>1 DEF HeldFits
<1> QED
  BY <1>1, <1>2

(* What a head of the line is booked for is its whole price.                *)
LEMMA HeadPrice ==
    ASSUME Typed, FamilyOK, NEW l \in Lease, row[l].parent = NoLease, NEW d \in Dim
    PROVE  row[l].covered[d] = 0 /\ row[l].cost[d] \in 0..MaxCost
                /\ row[l].cost[d] - row[l].covered[d] = row[l].cost[d]
<1>1. RowOK(l) /\ row[l].cost[d] \in 0..MaxCost /\ MaxCost \in Nat
  BY LedgerAssumption DEF FamilyOK, Typed, TypeOK, Row, Vector
<1>2. row[l].covered[d] = 0
  BY <1>1 DEF RowOK, Zero
<1> QED
  BY <1>1, <1>2

(* Booking the head and refunding a booking.                                *)
LEMMA BookingAccount ==
    ASSUME Typed, AccountInv, Typed', FamilyOK', NEW p \in Proc, Book(p) \/ Refund(p)
    PROVE  HeldFits' /\ Exact' /\ CoverExact' /\ NoOrphanChild'
<1>1. /\ proc[p] \in Local /\ proc \in [Proc -> Local] /\ ~Dead(p)
      /\ UNCHANGED <<row, ceiling>> /\ ProcOK(p)
  BY DEF Typed, TypeOK, Book, Refund, At, Dead, AccountInv, FamilyOK
<1>2. PICK l \in Lease : l = proc[p].head
  BY DEF Book, Refund, At, Typed, LocalOK
<1>3. row[l].parent = NoLease
  BY <1>1, <1>2 DEF Book, Refund, At, ProcOK
<1>4. CoverExact' /\ NoOrphanChild'
  BY <1>1 DEF AccountInv, CoverExact, Occupying, CoverUnits, Children, NoOrphanChild
<1>5. CASE proc[p].pc = "book" /\ StopDrain(p) /\ UNCHANGED held
  <2>1. /\ proc'[p].pc = proc[p].after
        /\ \A q \in Proc \ {p} : proc'[q] = proc[q]
    BY <1>1, <1>5 DEF StopDrain, Goto, Start, Local
  <2>2. proc[p].after \notin {"claim", "refund"}
    BY DEF Typed, LocalOK
  <2> QED
    BY <1>1, <1>5, <2>1, <2>2, QuietAccount
<1>6. \A q \in Pool, d \in Dim : LoadWeight(q, d)' = LoadWeight(q, d)
  BY <1>1 DEF LoadWeight, ChargedTo, Occupying
<1>7. ASSUME \A q \in Proc \ {p} : proc'[q] = proc[q] PROVE Moves(p, l)
  BY <1>1, <1>7 DEF Moves, Fixed
<1>8. \A q \in Pool, d \in Dim : /\ LoadWeight(q, d)[l] \in 0..MaxCost
                                 /\ held[q][d] \in Nat /\ ceiling[q][d] \in Nat
  BY LoadTally DEF LoadCounts, AccountInv, Typed, TypeOK
<1>9. CASE proc[p].pc = "book" /\ BookingFits(l) /\ Goto(p, "claim")
           /\ held' = Charge(CHARGED_POOLS[row[l].pool], row[l].cost)
  <2>1. /\ proc'[p].pc = "claim" /\ proc'[p].head = l
        /\ \A q \in Proc \ {p} : proc'[q] = proc[q]
    BY <1>1, <1>2, <1>9 DEF Goto, Local
  <2>2. ASSUME NEW q \in Pool, NEW d \in Dim
        PROVE  /\ FlightWeight(q, d)[p] = 0
               /\ FlightWeight(q, d)'[p] = IF q \in CHARGED_POOLS[row[l].pool] THEN row[l].cost[d] ELSE 0
    BY <1>1, <1>9, <2>1 DEF FlightWeight, Books
  <2>3. ASSUME NEW q \in Pool, NEW d \in Dim
        PROVE  held'[q][d] = held[q][d] + (IF q \in CHARGED_POOLS[row[l].pool] THEN row[l].cost[d] ELSE 0)
    <3>1. CASE q \in CHARGED_POOLS[row[l].pool]
      BY <1>9, <3>1 DEF Charge, Plus
    <3>2. CASE q \notin CHARGED_POOLS[row[l].pool]
      BY <1>8, <1>9, <3>2 DEF Charge
    <3> QED
      BY <3>1, <3>2
  <2>4. ASSUME NEW q \in Pool, NEW d \in Dim
        PROVE  held'[q][d] = (((held[q][d] - LoadWeight(q, d)[l]) - FlightWeight(q, d)[p])
                               + LoadWeight(q, d)'[l]) + FlightWeight(q, d)'[p]
    <3>1. FlightWeight(q, d)'[p] \in 0..MaxCost /\ MaxCost \in Nat
      BY <1>3, <2>2, HeadPrice, LedgerAssumption DEF AccountInv
    <3>2. PICK h \in Nat, a \in Nat, g \in Nat :
             h = held[q][d] /\ a = LoadWeight(q, d)[l] /\ g = FlightWeight(q, d)'[p]
      BY <1>8, <3>1
    <3>3. held'[q][d] = h + g
      BY <2>2, <2>3, <3>2
    <3>4. LoadWeight(q, d)'[l] = a
      BY <1>6, <3>2
    <3> QED
      BY <2>2, <3>2, <3>3, <3>4
  <2>5. Exact'
    BY <1>1, <1>7, <2>1, <2>4, ExactMove DEF AccountInv
  <2>6. ASSUME NEW q \in Pool, NEW d \in Dim PROVE held'[q][d] <= ceiling'[q][d]
    <3>1. held[q][d] <= ceiling[q][d]
      BY DEF AccountInv, HeldFits
    <3>2. q \in CHARGED_POOLS[row[l].pool] => held[q][d] + row[l].cost[d] <= ceiling[q][d]
      BY <1>9 DEF BookingFits, Fits
    <3> QED
      BY <1>1, <1>8, <2>3, <3>1, <3>2
  <2> QED
    BY <1>4, <2>5, <2>6 DEF HeldFits
<1>10. CASE Refund(p)
  <2>1. /\ proc'[p].pc = "head" /\ proc[p].pc = "refund"
        /\ \A q \in Proc \ {p} : proc'[q] = proc[q]
        /\ held' = Return(row[l])
    BY <1>1, <1>2, <1>10 DEF Refund, At, Local
  <2>2. ASSUME NEW q \in Pool, NEW d \in Dim
        PROVE  /\ FlightWeight(q, d)[p] = IF q \in CHARGED_POOLS[row[l].pool] THEN row[l].cost[d] ELSE 0
               /\ FlightWeight(q, d)'[p] = 0
    BY <1>1, <1>2, <2>1 DEF FlightWeight, Books
  <2>3. ASSUME NEW q \in CHARGED_POOLS[row[l].pool] \cap Pool, NEW d \in Dim
        PROVE  row[l].cost[d] - row[l].covered[d] <= held[q][d]
    <3>1. /\ Load(q, d) \in Nat /\ InFlight(q, d) \in Nat
          /\ FlightWeight(q, d)[p] <= InFlight(q, d)
      BY <1>7, <2>1, TotalsMove DEF AccountInv
    <3>2. FlightWeight(q, d)[p] = row[l].cost[d] /\ row[l].cost[d] \in 0..MaxCost
          /\ row[l].cost[d] - row[l].covered[d] = row[l].cost[d]
      BY <1>3, <2>2, HeadPrice DEF AccountInv
    <3>3. Load(q, d) + InFlight(q, d) <= held[q][d] /\ held[q][d] \in Nat /\ MaxCost \in Nat
      BY <1>8, LedgerAssumption DEF AccountInv, Exact
    <3>4. PICK c \in Nat : c = row[l].cost[d]
      BY <3>2, <3>3
    <3> QED
      BY <3>1, <3>2, <3>3, <3>4
  <2>4. /\ HeldFits'
        /\ \A q \in Pool, d \in Dim :
                held'[q][d] = held[q][d] - (IF q \in CHARGED_POOLS[row[l].pool]
                                            THEN row[l].cost[d] - row[l].covered[d] ELSE 0)
    BY <1>1, <2>1, <2>3, HandBack DEF AccountInv
  <2>5. ASSUME NEW q \in Pool, NEW d \in Dim
        PROVE  held'[q][d] = (((held[q][d] - LoadWeight(q, d)[l]) - FlightWeight(q, d)[p])
                               + LoadWeight(q, d)'[l]) + FlightWeight(q, d)'[p]
    <3>1. held'[q][d] = held[q][d] - FlightWeight(q, d)[p] /\ FlightWeight(q, d)[p] \in 0..MaxCost
          /\ MaxCost \in Nat
      BY <1>3, <2>2, <2>4, HeadPrice, LedgerAssumption DEF AccountInv
    <3>2. PICK h \in Nat, a \in Nat, g \in Nat :
             h = held[q][d] /\ a = LoadWeight(q, d)[l] /\ g = FlightWeight(q, d)[p]
      BY <1>8, <3>1
    <3>3. LoadWeight(q, d)'[l] = a
      BY <1>6, <3>2
    <3> QED
      BY <2>2, <3>1, <3>2, <3>3
  <2>6. Exact'
    BY <1>1, <1>7, <2>1, <2>5, ExactMove DEF AccountInv
  <2> QED
    BY <1>4, <2>4, <2>6
<1> QED
  BY <1>2, <1>5, <1>9, <1>10 DEF Book, At

(* An arrival in line changes no account.                                   *)
LEMMA InsertAccount ==
    ASSUME Typed, AccountInv, Typed', FamilyOK', NEW p \in Proc, Insert(p)
    PROVE  HeldFits' /\ Exact' /\ CoverExact' /\ NoOrphanChild'
<1>1. PICK l \in Lease :
              /\ row[l].status = "none"
              /\ \A k \in Lease \ {l} : row'[k] = row[k]
              /\ row'[l].status = "waiting" /\ row'[l].holder = p /\ row'[l].parent = NoLease
              /\ row'[l].covered = Zero /\ row'[l].drawn = Zero
              /\ proc'[p].pc = "head" /\ proc'[p].mine = l
              /\ \A q \in Proc \ {p} : proc'[q] = proc[q]
  BY InsertRow
<1>2. Moves(p, l) /\ ~Dead(p) /\ UNCHANGED <<held, ceiling>> /\ At(p, "insert")
  BY <1>1 DEF Moves, Fixed, Dead, At, Insert
<1>3. l \notin Occupying /\ ~(l \in Occupying)'
  BY <1>1 DEF Occupying, OCCUPYING
<1>4. ASSUME NEW d \in Dim
      PROVE  /\ \A q \in Pool : /\ LoadWeight(q, d)[l] = 0 /\ LoadWeight(q, d)'[l] = 0
                                /\ FlightWeight(q, d)[p] = 0 /\ FlightWeight(q, d)'[p] = 0
             /\ \A k \in Lease : CoverWeight(k, d)[l] = 0 /\ CoverWeight(k, d)'[l] = 0
  BY <1>1, <1>2, <1>3 DEF LoadWeight, ChargedTo, CoverWeight, Children, FlightWeight, Books, At
<1>5. ASSUME NEW q \in Pool, NEW d \in Dim
      PROVE  held'[q][d] = (((held[q][d] - LoadWeight(q, d)[l]) - FlightWeight(q, d)[p])
                               + LoadWeight(q, d)'[l]) + FlightWeight(q, d)'[p]
  <2>1. held[q][d] \in Nat /\ held'[q][d] = held[q][d]
    BY <1>2 DEF Typed, TypeOK
  <2> QED
    BY <1>4, <2>1
<1>6. Exact'
  BY <1>2, <1>5, ExactMove DEF AccountInv
<1>7. ASSUME NEW k \in Occupying' PROVE k \in Occupying /\ k # l /\ row'[k] = row[k]
  BY <1>1, <1>3, <1>7 DEF Occupying
<1>8. ASSUME NEW k \in Occupying', NEW d \in Dim
      PROVE  /\ row'[k].drawn[d] = CoverSum(k, d)'
             /\ row'[k].drawn[d] <= row'[k].cost[d]
  <2>1. /\ CoverSum(k, d) \in Nat
        /\ CoverSum(k, d)' = (CoverSum(k, d) - CoverWeight(k, d)[l]) + CoverWeight(k, d)'[l]
    BY <1>2, <1>7, CoverMove DEF Occupying
  <2>2. row[k].drawn[d] = CoverSum(k, d) /\ row[k].drawn[d] <= row[k].cost[d] /\ k \in Lease
    BY <1>7 DEF AccountInv, CoverExact, CoverSum, Occupying
  <2>3. CoverSum(k, d)' = CoverSum(k, d)
    BY <1>4, <2>1, <2>2
  <2> QED
    BY <1>7, <2>2, <2>3
<1>9. CoverExact'
  BY <1>8 DEF CoverExact, CoverSum
<1>10. NoOrphanChild'
  <2>1. ASSUME NEW k \in Occupying', row'[k].parent # NoLease PROVE row'[k].parent \in Occupying'
    <3>1. row[k].parent \in Occupying /\ row'[k].parent = row[k].parent
      BY <1>7, <2>1 DEF AccountInv, NoOrphanChild
    <3> QED
      BY <1>1, <1>3, <3>1 DEF Occupying
  <2> QED
    BY <2>1 DEF NoOrphanChild
<1> QED
  BY <1>2, <1>6, <1>9, <1>10 DEF AccountInv, HeldFits

(* A promotion turns a booking into a charge.                               *)
LEMMA ClaimAccount ==
    ASSUME Typed, AccountInv, Typed', FamilyOK', NEW p \in Proc, Claim(p)
    PROVE  HeldFits' /\ Exact' /\ CoverExact' /\ NoOrphanChild'
<1>0. /\ proc[p] \in Local /\ proc \in [Proc -> Local] /\ ~Dead(p) /\ At(p, "claim")
      /\ UNCHANGED ceiling /\ ProcOK(p)
  BY DEF Typed, TypeOK, Claim, At, Dead, AccountInv, FamilyOK
<1>1. CASE UNCHANGED <<row, held>> /\ Goto(p, "refund")
  <2>1. /\ proc'[p].pc = "refund" /\ proc'[p].head = proc[p].head
        /\ \A q \in Proc \ {p} : proc'[q] = proc[q]
    BY <1>0, <1>1 DEF Goto, Local
  <2> QED
    BY <1>0, <1>1, <2>1, QuietAccount DEF At
<1>2. CASE ~UNCHANGED row
  <2>1. PICK l \in Lease :
              /\ l = proc[p].head /\ row[l].status = "waiting" /\ row'[l].status = "held"
              /\ \A k \in Lease \ {l} : row'[k] = row[k]
              /\ Fixed(l) /\ row'[l].drawn = row[l].drawn
              /\ proc'[p].pc = "head" /\ proc'[p].mine = proc[p].mine
              /\ proc'[p].after = proc[p].after
              /\ \A q \in Proc \ {p} : proc'[q] = proc[q]
              /\ UNCHANGED held
    BY <1>2, ClaimRow
  <2>2. Moves(p, l) /\ \A k \in Lease : Fixed(k)
    BY <2>1 DEF Moves, Fixed
  <2>3. l \notin Occupying /\ (l \in Occupying)'
    BY <2>1 DEF Occupying, OCCUPYING
  <2>4. row[l].parent = NoLease /\ row'[l].parent = NoLease
    BY <1>0, <2>1 DEF ProcOK, At, Fixed
  <2>5. ASSUME NEW q \in Pool, NEW d \in Dim
        PROVE  /\ LoadWeight(q, d)[l] = 0 /\ FlightWeight(q, d)'[p] = 0
               /\ LoadWeight(q, d)'[l] = FlightWeight(q, d)[p] /\ FlightWeight(q, d)[p] \in Nat
    <3>1. LoadWeight(q, d)[l] = 0 /\ FlightWeight(q, d)'[p] = 0
      BY <2>1, <2>3 DEF LoadWeight, ChargedTo, FlightWeight, Books
    <3>2. FlightWeight(q, d)[p] = IF q \in CHARGED_POOLS[row[l].pool] THEN row[l].cost[d] ELSE 0
      BY <1>0, <2>1 DEF FlightWeight, Books, At
    <3>3. LoadWeight(q, d)'[l] = IF q \in CHARGED_POOLS[row'[l].pool] THEN row'[l].cost[d] - row'[l].covered[d] ELSE 0
      BY <2>3 DEF LoadWeight, ChargedTo
    <3>4. row[l].cost[d] - row[l].covered[d] = row[l].cost[d] /\ row[l].cost[d] \in 0..MaxCost
      BY <2>4, HeadPrice DEF AccountInv
    <3>5. MaxCost \in Nat
      BY LedgerAssumption
    <3> QED
      BY <2>1, <3>1, <3>2, <3>3, <3>4, <3>5 DEF Fixed
  <2>6. ASSUME NEW q \in Pool, NEW d \in Dim
        PROVE  held'[q][d] = (((held[q][d] - LoadWeight(q, d)[l]) - FlightWeight(q, d)[p])
                               + LoadWeight(q, d)'[l]) + FlightWeight(q, d)'[p]
    <3>1. held[q][d] \in Nat /\ held'[q][d] = held[q][d]
      BY <2>1 DEF Typed, TypeOK
    <3> QED
      BY <2>5, <3>1
  <2>7. Exact'
    BY <1>0, <2>2, <2>6, ExactMove DEF AccountInv
  <2>8. ASSUME NEW k \in Occupying' PROVE k \in Lease /\ (k = l \/ (k \in Occupying /\ row'[k] = row[k]))
    BY <2>1, <2>8 DEF Occupying
  <2>9. ASSUME NEW k \in Occupying', NEW d \in Dim
        PROVE  /\ row'[k].drawn[d] = CoverSum(k, d)'
               /\ row'[k].drawn[d] <= row'[k].cost[d]
    <3>1. /\ CoverSum(k, d) \in Nat
          /\ CoverSum(k, d)' = (CoverSum(k, d) - CoverWeight(k, d)[l]) + CoverWeight(k, d)'[l]
      BY <2>2, <2>8, CoverMove
    <3>2. CoverWeight(k, d)[l] = 0 /\ CoverWeight(k, d)'[l] = 0
      <4>1. k \in Lease /\ k # NoLease
        BY <2>8, LedgerAssumption
      <4> QED
        BY <2>4, <4>1 DEF CoverWeight, Children
    <3>3. CoverSum(k, d)' = CoverSum(k, d)
      BY <3>1, <3>2
    <3>4. CASE k = l
      <4>1. RowOK(l) /\ \A j \in Lease : RowOK(j)
        BY DEF AccountInv, FamilyOK
      <4>2. Children(l) = {}
        BY <2>1, <4>1, LedgerAssumption DEF Children, Occupying, RowOK
      <4>3. CoverUnits({}, d) = {}
        BY DEF CoverUnits
      <4>4. CoverSum(l, d) = 0
        BY <4>2, <4>3, FS_EmptySet DEF CoverSum
      <4>5. row'[l].drawn[d] = 0
        BY <2>1, <4>1 DEF RowOK, Zero
      <4>6. row'[l].cost[d] \in 0..MaxCost /\ MaxCost \in Nat
        BY LedgerAssumption DEF Typed, TypeOK, Row, Vector
      <4> QED
        BY <3>3, <3>4, <4>4, <4>5, <4>6
    <3>5. CASE k # l
      <4>1. row[k].drawn[d] = CoverSum(k, d) /\ row[k].drawn[d] <= row[k].cost[d] /\ row'[k] = row[k]
        BY <2>8, <3>5 DEF AccountInv, CoverExact, CoverSum
      <4> QED
        BY <3>3, <4>1
    <3> QED
      BY <3>4, <3>5
  <2>10. CoverExact'
    BY <2>9 DEF CoverExact, CoverSum
  <2>11. NoOrphanChild'
    <3>1. ASSUME NEW k \in Occupying', row'[k].parent # NoLease PROVE row'[k].parent \in Occupying'
      <4>1. k \in Occupying /\ row'[k] = row[k]
        BY <2>4, <2>8, <3>1
      <4>2. row[k].parent \in Occupying
        BY <3>1, <4>1 DEF AccountInv, NoOrphanChild
      <4> QED
        BY <2>1, <2>3, <4>1, <4>2 DEF Occupying
    <3> QED
      BY <3>1 DEF NoOrphanChild
  <2> QED
    BY <1>0, <2>1, <2>7, <2>10, <2>11 DEF AccountInv, HeldFits
<1> QED
  <2>1. UNCHANGED row => UNCHANGED held /\ Goto(p, "refund")
    <3>1. PICK l \in Lease : l = proc[p].head
      BY <1>0 DEF Typed, LocalOK, At
    <3>2. row[l].status = "waiting" => row' # row
      <4>1. row \in [Lease -> Row]
        BY DEF Typed, TypeOK
      <4>2. row[l].status = "waiting" => (row' = [row EXCEPT ![l].status = "held", ![l].position = 0] \/ row[l].status # "waiting")
        BY <3>1 DEF Claim
      <4>3. [row EXCEPT ![l].status = "held", ![l].position = 0][l].status = "held"
        BY <4>1 DEF Row
      <4> QED
        BY <4>2, <4>3
    <3> QED
      BY <3>1, <3>2 DEF Claim
  <2> QED
    BY <1>1, <1>2, <2>1

(* A child books what its parent's grant does not cover.                    *)
LEMMA ChildAccount ==
    ASSUME Typed, AccountInv, Typed', FamilyOK', NEW p \in Proc, NEW parent \in Lease,
           NEW c \in Nested, NEW draw \in BOOLEAN, ReserveChild(p, parent, c, draw)
    PROVE  HeldFits' /\ Exact' /\ CoverExact' /\ NoOrphanChild'
<1> DEFINE cover == Cover(parent, c.price, draw)
           excess == Minus(c.price, cover)
<1>1. PICK l \in Lease :
              /\ row[l].status = "none" /\ l # parent
              /\ \A k \in Lease \ {l} :
                    /\ Fixed(k) /\ row'[k].status = row[k].status
                    /\ row'[k].drawn = IF k = parent THEN Plus(row[k].drawn, cover)
                                       ELSE row[k].drawn
              /\ row'[l].status = "held" /\ row'[l].holder = p /\ row'[l].parent = parent
              /\ row'[l].pool = c.pool /\ row'[l].cost = c.price
              /\ row'[l].covered = cover /\ row'[l].drawn = Zero
              /\ proc'[p].pc = "holding" /\ proc'[p].mine = l
              /\ \A q \in Proc \ {p} : proc'[q] = proc[q]
  BY ChildRow
<1>2. /\ parent \in Occupying /\ c.price \in Vector /\ At(p, "idle") /\ ~Dead(p) /\ UNCHANGED ceiling
      /\ excess # Zero => \A q \in CHARGED_POOLS[c.pool] : Fits(q, excess)
      /\ held' = Charge(CHARGED_POOLS[c.pool], excess)
  BY LedgerAssumption DEF ReserveChild, Price, At, Dead
<1>3. \A d \in Dim : /\ row[parent].drawn[d] = CoverSum(parent, d)
                     /\ row[parent].drawn[d] <= row[parent].cost[d]
  BY <1>2 DEF AccountInv, CoverExact, CoverSum
<1>4. \A d \in Dim : /\ cover[d] \in 0..MaxCost
                     /\ cover[d] <= c.price[d]
                     /\ row[parent].drawn[d] + cover[d] <= row[parent].cost[d]
                     /\ excess[d] = c.price[d] - cover[d]
  BY <1>2, <1>3, CoverBounds
<1>5. \A d \in Dim : excess[d] \in Nat /\ c.price[d] \in Nat /\ cover[d] \in Nat
  BY <1>2, <1>4, LedgerAssumption DEF Vector
<1> HIDE DEF cover, excess
<1>6. Moves(p, l) /\ \A k \in Lease : row[k].parent # l
  BY <1>1, LedgerAssumption DEF Moves, AccountInv, FamilyOK, RowOK
<1>7. l \notin Occupying /\ (l \in Occupying)'
  BY <1>1 DEF Occupying, OCCUPYING
<1>8. ASSUME NEW q \in Pool, NEW d \in Dim
      PROVE  held'[q][d] = held[q][d] + (IF q \in CHARGED_POOLS[c.pool] THEN excess[d] ELSE 0)
  <2>1. held[q][d] \in Nat
    BY DEF Typed, TypeOK
  <2> QED
    BY <1>2, <2>1 DEF Charge, Plus
<1>9. ASSUME NEW q \in Pool, NEW d \in Dim
      PROVE  held'[q][d] = (((held[q][d] - LoadWeight(q, d)[l]) - FlightWeight(q, d)[p])
                               + LoadWeight(q, d)'[l]) + FlightWeight(q, d)'[p]
  <2>1. held[q][d] \in Nat
    BY DEF Typed, TypeOK
  <2>2. LoadWeight(q, d)[l] = 0 /\ FlightWeight(q, d)[p] = 0 /\ FlightWeight(q, d)'[p] = 0
    BY <1>1, <1>2, <1>7 DEF LoadWeight, ChargedTo, FlightWeight, Books, At
  <2>3. LoadWeight(q, d)'[l] = IF q \in CHARGED_POOLS[c.pool] THEN c.price[d] - cover[d] ELSE 0
    BY <1>1, <1>7 DEF LoadWeight, ChargedTo
  <2> QED
    BY <1>4, <1>5, <1>8, <2>1, <2>2, <2>3
<1>10. Exact'
  BY <1>2, <1>6, <1>9, ExactMove DEF AccountInv
<1>11. HeldFits'
  <2>1. ASSUME NEW q \in Pool, NEW d \in Dim PROVE held'[q][d] <= ceiling'[q][d]
    <3>1. held[q][d] <= ceiling[q][d] /\ held[q][d] \in Nat /\ ceiling[q][d] \in Nat
      BY DEF AccountInv, HeldFits, Typed, TypeOK
    <3>2. CASE excess = Zero
      <4>1. excess[d] = 0
        BY <3>2 DEF Zero
      <4> QED
        BY <1>2, <1>8, <3>1, <4>1
    <3>3. CASE excess # Zero
      <4>1. q \in CHARGED_POOLS[c.pool] => held[q][d] + excess[d] <= ceiling[q][d]
        BY <1>2, <3>3 DEF Fits
      <4> QED
        BY <1>2, <1>8, <3>1, <4>1
    <3> QED
      BY <3>2, <3>3
  <2> QED
    BY <2>1 DEF HeldFits
<1>12. ASSUME NEW k \in Occupying'
       PROVE  k \in Lease /\ (k # l => k \in Occupying /\ Fixed(k))
  BY <1>1, <1>12 DEF Occupying
<1>13. ASSUME NEW k \in Occupying', NEW d \in Dim
       PROVE  /\ row'[k].drawn[d] = CoverSum(k, d)'
              /\ row'[k].drawn[d] <= row'[k].cost[d]
  <2>1. /\ CoverSum(k, d) \in Nat
        /\ CoverSum(k, d)' = (CoverSum(k, d) - CoverWeight(k, d)[l]) + CoverWeight(k, d)'[l]
    BY <1>6, <1>12, CoverMove
  <2>2. CoverWeight(k, d)[l] = 0
    BY <1>7 DEF CoverWeight, Children
  <2>3. CoverWeight(k, d)'[l] = IF k = parent THEN cover[d] ELSE 0
    BY <1>1, <1>7 DEF CoverWeight, Children
  <2>4. CASE k = l
    <3>1. Children(l) = {}
      BY <1>6 DEF Children, Occupying
    <3>2. CoverUnits({}, d) = {}
      BY DEF CoverUnits
    <3>3. CoverSum(l, d) = 0
      BY <3>1, <3>2, FS_EmptySet DEF CoverSum
    <3>4. row'[l].drawn[d] = 0 /\ row'[l].cost[d] \in Nat
      BY <1>1, <1>5 DEF Zero
    <3> QED
      BY <1>1, <2>1, <2>2, <2>3, <2>4, <3>3, <3>4
  <2>5. CASE k # l /\ k # parent
    <3>1. row'[k].drawn = row[k].drawn /\ row'[k].cost = row[k].cost /\ k \in Occupying
      BY <1>1, <1>12, <2>5 DEF Fixed
    <3>2. row[k].drawn[d] = CoverSum(k, d) /\ row[k].drawn[d] <= row[k].cost[d]
      BY <3>1 DEF AccountInv, CoverExact, CoverSum
    <3> QED
      BY <2>1, <2>2, <2>3, <2>5, <3>1, <3>2
  <2>6. CASE k = parent
    <3>1. row'[parent].drawn = Plus(row[parent].drawn, cover) /\ row'[parent].cost = row[parent].cost
      BY <1>1, <1>12 DEF Fixed
    <3>2. row'[parent].drawn[d] = row[parent].drawn[d] + cover[d]
      BY <3>1 DEF Plus
    <3>3. CoverSum(parent, d) \in Nat
      BY <2>1, <2>6
    <3> QED
      BY <1>3, <1>4, <1>5, <2>1, <2>2, <2>3, <2>6, <3>1, <3>2, <3>3
  <2> QED
    BY <2>4, <2>5, <2>6
<1>14. CoverExact'
  BY <1>13 DEF CoverExact, CoverSum
<1>15. NoOrphanChild'
  <2>1. ASSUME NEW k \in Lease, k \in Occupying PROVE k \in Occupying'
    BY <1>1, <1>7, <2>1 DEF Occupying
  <2>2. ASSUME NEW k \in Occupying', row'[k].parent # NoLease PROVE row'[k].parent \in Occupying'
    <3>1. CASE k = l
      BY <1>1, <1>2, <2>1, <3>1
    <3>2. CASE k # l
      <4>1. row'[k].parent = row[k].parent /\ row[k].parent \in Occupying
        BY <1>12, <2>2, <3>2 DEF Fixed, AccountInv, NoOrphanChild
      <4> QED
        BY <2>1, <4>1 DEF Occupying
    <3> QED
      BY <3>1, <3>2
  <2> QED
    BY <2>2 DEF NoOrphanChild
<1> QED
  BY <1>10, <1>11, <1>14, <1>15

(* Ending a lease hands back its booking and its cover.                     *)
LEMMA SettleAccount ==
    ASSUME Typed, AccountInv, Typed', FamilyOK', NEW p \in Proc, Settle(p)
    PROVE  HeldFits' /\ Exact' /\ CoverExact' /\ NoOrphanChild'
<1>1. PICK x \in Lease, m \in Lease, S \in SUBSET Lease :
              /\ m = proc[p].mine /\ m \in Occupying /\ ~HolderGone(m) /\ row[m].holder = p
              /\ x \in S /\ Estate(m, S) /\ x \in Occupying /\ Children(x) = {}
              /\ Settled(x) /\ held' = Return(row[x])
              /\ \A q \in Proc \ {p} : proc'[q] = proc[q]
              /\ \/ x = m /\ proc'[p].pc = "head" /\ proc'[p].after = "idle"
                 \/ x # m /\ At(p, "unwind")' /\ proc'[p].mine = m /\ Unwinding(p)'
  BY SettleFacts DEF AccountInv
<1>2. /\ row'[x].status = "released"
      /\ \A k \in Lease \ {x} : row'[k].status = row[k].status
      /\ \A k \in Lease : Fixed(k)
      /\ \A k \in Lease :
          row'[k].drawn = IF k = row[x].parent THEN Minus(row[k].drawn, row[x].covered)
                          ELSE row[k].drawn
  BY <1>1 DEF Settled
<1>3. Moves(p, x) /\ UNCHANGED ceiling /\ ~Dead(p) /\ At(p, "unwind")
  BY <1>1, <1>2 DEF Moves, Settle, Releasing, At, Dead
<1>4. ~(x \in Occupying)'
  BY <1>2 DEF Occupying, OCCUPYING
<1>5. ASSUME NEW q \in Pool, NEW d \in Dim
      PROVE  /\ LoadWeight(q, d)[x] = IF q \in CHARGED_POOLS[row[x].pool]
                                      THEN row[x].cost[d] - row[x].covered[d] ELSE 0
             /\ LoadWeight(q, d)'[x] = 0
             /\ FlightWeight(q, d)[p] = 0 /\ FlightWeight(q, d)'[p] = 0
  BY <1>1, <1>3, <1>4 DEF LoadWeight, ChargedTo, FlightWeight, Books, At
<1>6. ASSUME NEW q \in Pool, NEW d \in Dim
      PROVE  /\ LoadWeight(q, d)[x] <= held[q][d]
             /\ LoadWeight(q, d)[x] \in Nat /\ held[q][d] \in Nat
  <2>1. /\ LoadWeight(q, d)[x] <= Load(q, d) /\ Load(q, d) \in Nat /\ InFlight(q, d) \in Nat
        /\ LoadWeight(q, d)[x] \in 0..MaxCost
    BY <1>3, TotalsMove DEF AccountInv
  <2>2. Load(q, d) + InFlight(q, d) <= held[q][d] /\ held[q][d] \in Nat /\ MaxCost \in Nat
    BY LedgerAssumption DEF AccountInv, Exact, Typed, TypeOK
  <2>3. PICK a \in Nat : a = LoadWeight(q, d)[x]
    BY <2>1, <2>2
  <2> QED
    BY <2>1, <2>2, <2>3
<1>7. /\ HeldFits'
      /\ \A q \in Pool, d \in Dim :
                held'[q][d] = held[q][d] - (IF q \in CHARGED_POOLS[row[x].pool]
                                            THEN row[x].cost[d] - row[x].covered[d] ELSE 0)
  <2>1. ASSUME NEW q \in CHARGED_POOLS[row[x].pool] \cap Pool, NEW d \in Dim
        PROVE  row[x].cost[d] - row[x].covered[d] <= held[q][d]
    <3>1. q \in Pool /\ q \in CHARGED_POOLS[row[x].pool]
      BY <2>1
    <3>2. LoadWeight(q, d)[x] = row[x].cost[d] - row[x].covered[d]
      BY <1>5, <3>1
    <3> QED
      BY <1>6, <3>1, <3>2
  <2> QED
    BY <1>1, <1>3, <2>1, HandBack DEF AccountInv
<1>8. ASSUME NEW q \in Pool, NEW d \in Dim
      PROVE  held'[q][d] = (((held[q][d] - LoadWeight(q, d)[x]) - FlightWeight(q, d)[p])
                               + LoadWeight(q, d)'[x]) + FlightWeight(q, d)'[p]
  <2>1. held'[q][d] = held[q][d] - LoadWeight(q, d)[x]
    BY <1>5, <1>7
  <2>2. PICK h \in Nat, a \in Nat : h = held[q][d] /\ a = LoadWeight(q, d)[x]
    BY <1>6
  <2> QED
    BY <1>5, <2>1, <2>2
<1>9. Exact'
  BY <1>3, <1>8, ExactMove DEF AccountInv
<1>10. ASSUME NEW k \in Occupying' PROVE k \in Lease /\ k \in Occupying /\ k # x /\ Fixed(k)
  BY <1>2, <1>4, <1>10 DEF Occupying
<1>11. ASSUME NEW k \in Occupying', NEW d \in Dim
       PROVE  /\ row'[k].drawn[d] = CoverSum(k, d)'
              /\ row'[k].drawn[d] <= row'[k].cost[d]
  <2>1. /\ CoverSum(k, d) \in Nat
        /\ CoverWeight(k, d)[x] \in 0..MaxCost
        /\ CoverWeight(k, d)[x] <= CoverSum(k, d)
        /\ CoverSum(k, d)' = (CoverSum(k, d) - CoverWeight(k, d)[x]) + CoverWeight(k, d)'[x]
    BY <1>3, <1>10, CoverMove
  <2>2. CoverWeight(k, d)'[x] = 0 /\ CoverWeight(k, d)[x] = IF k = row[x].parent THEN row[x].covered[d] ELSE 0
    BY <1>1, <1>4 DEF CoverWeight, Children
  <2>3. row[k].drawn[d] = CoverSum(k, d) /\ row[k].drawn[d] <= row[k].cost[d]
        /\ row'[k].cost = row[k].cost /\ row[k].cost[d] \in 0..MaxCost /\ MaxCost \in Nat
    BY <1>10, LedgerAssumption DEF AccountInv, CoverExact, CoverSum, Fixed, Typed, TypeOK, Row, Vector
  <2>4. CASE k # row[x].parent
    <3>1. row'[k].drawn = row[k].drawn
      BY <1>2, <1>10, <2>4
    <3> QED
      BY <2>1, <2>2, <2>3, <2>4, <3>1
  <2>5. CASE k = row[x].parent
    <3>1. row'[k].drawn = Minus(row[k].drawn, row[x].covered)
      BY <1>2, <1>10, <2>5
    <3>2. row'[k].drawn[d] = IF row[k].drawn[d] >= row[x].covered[d]
                             THEN row[k].drawn[d] - row[x].covered[d] ELSE 0
      BY <3>1 DEF Minus
    <3>3. PICK u \in Nat, v \in Nat : u = row[k].drawn[d] /\ v = row[x].covered[d]
      BY <2>1, <2>2, <2>3, <2>5
    <3>4. v <= u /\ row'[k].drawn[d] = u - v
      BY <2>1, <2>2, <2>3, <2>5, <3>2, <3>3
    <3> QED
      BY <2>1, <2>2, <2>3, <2>5, <3>3, <3>4
  <2> QED
    BY <2>4, <2>5
<1>12. CoverExact'
  BY <1>11 DEF CoverExact, CoverSum
<1>13. NoOrphanChild'
  <2>1. ASSUME NEW k \in Occupying', row'[k].parent # NoLease PROVE row'[k].parent \in Occupying'
    <3>1. row'[k].parent = row[k].parent /\ row[k].parent \in Occupying /\ k \in Occupying
      BY <1>10, <2>1 DEF Fixed, AccountInv, NoOrphanChild
    <3>2. row[k].parent # x
      BY <1>1, <3>1 DEF Children
    <3> QED
      BY <1>2, <3>1, <3>2 DEF Occupying
  <2> QED
    BY <2>1 DEF NoOrphanChild
<1> QED
  BY <1>7, <1>9, <1>12, <1>13

(* Asking, reading, waiting, beginning a release and dying are quiet.       *)
LEMMA RestAccount ==
    ASSUME Typed, AccountInv, NEW p \in Proc,
           \/ \E c \in Claims : Reserve(p, c)
           \/ HeadRead(p) \/ Answer(p) \/ Poll(p) \/ Release(p) \/ Crash(p)
           \/ Look(p) \/ ReleaseKid(p)
    PROVE  HeldFits' /\ Exact' /\ CoverExact' /\ NoOrphanChild'
<1>1. /\ proc[p] \in Local /\ proc \in [Proc -> Local]
      /\ UNCHANGED <<row, held, ceiling>> /\ ~Dead(p)
      /\ proc[p].after \in {"idle", "answer", "queued"}
  BY DEF Typed, TypeOK, LocalOK, Reserve, HeadRead, Answer, Poll, Release, Crash, Look, ReleaseKid,
         Releasing, Ledger, Dead, At
<1>2. CASE Crash(p)
  <2>1. proc'[p].pc = "dead" /\ \A q \in Proc \ {p} : proc'[q] = proc[q]
    BY <1>1, <1>2 DEF Crash, Start
  <2> QED
    BY <1>1, <2>1, QuietAccount
<1>3. CASE Look(p) \/ ReleaseKid(p)
  <2>1. At(p, "unwind") /\ At(p, "unwind")' /\ \A q \in Proc \ {p} : proc'[q] = proc[q]
    <3>1. At(p, "unwind")
      BY <1>3 DEF Look, ReleaseKid, Releasing
    <3>2. CASE Look(p)
      BY <3>1, <3>2, LookUnwinding DEF AccountInv
    <3>3. CASE ReleaseKid(p)
      BY <3>1, <3>3, KidUnwinding DEF AccountInv
    <3> QED
      BY <1>3, <3>2, <3>3
  <2> QED
    BY <1>1, <2>1, QuietAccount DEF At
<1>4. CASE HeadRead(p) \/ Answer(p) \/ Poll(p) \/ Release(p)
  <2>1. proc[p].pc \in {"head", "answer", "queued", "holding"}
    BY <1>4 DEF HeadRead, Answer, Poll, Release, At
  <2>2. \A q \in Proc \ {p} : proc'[q] = proc[q]
    BY <1>1, <1>4 DEF HeadRead, Answer, Poll, Release, StopDrain, Goto, Drain, Call
  <2>3. proc'[p].pc \notin {"claim", "refund"}
    <3>1. ASSUME NEW label \in {"idle", "answer", "queued", "holding"}, Goto(p, label)
          PROVE  proc'[p].pc \notin {"claim", "refund"}
      BY <1>1, <3>1 DEF Goto, Start, Local
    <3>2. CASE HeadRead(p)
      BY <1>1, <3>1, <3>2 DEF HeadRead, StopDrain, Local
    <3>3. CASE Answer(p)
      BY <3>1, <3>3 DEF Answer
    <3>4. CASE Poll(p)
      BY <1>1, <3>1, <3>4 DEF Poll, Drain, Local
    <3>5. CASE Release(p)
      BY <1>1, <3>5 DEF Release, Call, Local
    <3> QED
      BY <1>4, <3>2, <3>3, <3>4, <3>5
  <2> QED
    BY <1>1, <2>1, <2>2, <2>3, QuietAccount
<1>5. CASE \E c \in Claims : Reserve(p, c)
  <2>1. proc[p].pc \in {"idle", "queued"}
    BY <1>5 DEF Reserve
  <2>2. /\ proc'[p].pc \notin {"claim", "refund"}
        /\ \A q \in Proc \ {p} : proc'[q] = proc[q]
    <3>1. PICK c \in Claims : Reserve(p, c)
      BY <1>5
    <3>2. CASE TakePosition(p, c)
      BY <1>1, <3>2 DEF TakePosition, Start
    <3>3. CASE \E l \in Lease, label \in {"queued", "holding"} :
                  proc' = [proc EXCEPT ![p].pc = label, ![p].mine = l]
      BY <1>1, <3>3 DEF Local
    <3> QED
      BY <3>1, <3>2, <3>3 DEF Reserve, Mine
  <2> QED
    BY <1>1, <2>1, <2>2, QuietAccount
<1> QED
  BY <1>2, <1>3, <1>4, <1>5

(* Every step of orderly processes keeps the accounts.                      *)
LEMMA StepAccount ==
    ASSUME Orderly, Typed, AccountInv, NEW p \in Proc, Step(p) \/ Choice(p)
    PROVE  AccountInv'
<1>1. Typed'
  BY NextTyped DEF Next
<1>2. FamilyOK'
  BY StepFamily DEF AccountInv
<1>3. HeldFits' /\ Exact' /\ CoverExact' /\ NoOrphanChild'
  <2>1. \/ Insert(p) \/ Claim(p) \/ Settle(p)
        \/ \E parent \in Lease, c \in Nested, draw \in BOOLEAN : ReserveChild(p, parent, c, draw)
        \/ \E c \in Claims : Reserve(p, c)
        \/ HeadRead(p) \/ Book(p) \/ Refund(p)
        \/ Answer(p) \/ Poll(p) \/ Release(p) \/ Crash(p) \/ Look(p) \/ ReleaseKid(p)
    BY OrderlySteps DEF AccountInv
  <2> QED
    BY <1>1, <1>2, <2>1, InsertAccount, ClaimAccount, SettleAccount, ChildAccount, BookingAccount,
       RestAccount
<1> QED
  BY <1>2, <1>3 DEF AccountInv

(* The empty ledger is in order, and adds up.                               *)
LEMMA InitAccount == Init => AccountInv
<1> SUFFICES ASSUME Init PROVE AccountInv
  OBVIOUS
<1>1. \A l \in Lease : /\ row[l].status = "none" /\ row[l].parent = NoLease
                       /\ row[l].cost = Zero /\ row[l].covered = Zero /\ row[l].drawn = Zero
  BY DEF Init, NoRow
<1>2. \A p \in Proc : proc[p] = Start
  BY DEF Init
<1>3. Occupying = {}
  BY <1>1 DEF Occupying, OCCUPYING
<1>4. FamilyOK
  <2>1. Acyclic
    BY <1>1, LedgerAssumption DEF Acyclic
  <2>2. \A l \in Lease : RowOK(l)
    <3>1. \A d \in Dim : Zero[d] <= Zero[d]
      BY DEF Zero
    <3> QED
      BY <1>1, <3>1 DEF RowOK
  <2>3. \A p \in Proc : ProcOK(p) /\ Unwinding(p)
    BY <1>2 DEF ProcOK, AskedFor, Unwinding, At, Start
  <2> QED
    BY <2>1, <2>2, <2>3 DEF FamilyOK
<1>5. ASSUME NEW q \in Pool, NEW d \in Dim
      PROVE  Load(q, d) = 0 /\ InFlight(q, d) = 0 /\ held[q][d] = 0
  <2>1. Units(ChargedTo(q), d) = {}
    BY <1>3 DEF Units, ChargedTo
  <2>2. {u \in Proc \X (1..MaxCost) :
            /\ proc[u[1]].pc \in {"claim", "refund"}
            /\ q \in CHARGED_POOLS[row[proc[u[1]].head].pool]
            /\ u[2] <= row[proc[u[1]].head].cost[d]} = {}
    <3>1. \A u \in Proc \X (1..MaxCost) : proc[u[1]].pc \notin {"claim", "refund"}
      BY <1>2 DEF Start
    <3> QED
      BY <3>1
  <2>3. held[q][d] = 0
    BY DEF Init, Zero
  <2> QED
    BY <2>1, <2>2, <2>3, FS_EmptySet DEF Load, InFlight
<1>6. HeldFits
  <2>1. \A q \in Pool, d \in Dim : ceiling[q][d] \in Nat
    BY LedgerAssumption DEF Init
  <2> QED
    BY <1>5, <2>1 DEF HeldFits
<1>7. Exact
  BY <1>5 DEF Exact
<1>8. CoverExact /\ NoOrphanChild
  BY <1>3 DEF CoverExact, NoOrphanChild
<1> QED
  BY <1>4, <1>6, <1>7, <1>8 DEF AccountInv

(* Doing nothing keeps the accounts.                                        *)
LEMMA StutterAccount == AccountInv /\ UNCHANGED vars => AccountInv'
<1> SUFFICES ASSUME AccountInv, UNCHANGED vars PROVE AccountInv'
  OBVIOUS
<1>1. UNCHANGED row /\ UNCHANGED held /\ UNCHANGED ceiling /\ UNCHANGED proc
  BY DEF vars
<1>2. UNCHANGED Occupying /\ \A l \in Lease : Children(l)' = Children(l)
  BY <1>1 DEF Occupying, Children
<1>3. FamilyOK'
  <2>1. Acyclic' /\ \A l \in Lease : RowOK(l)'
    BY <1>1 DEF AccountInv, FamilyOK, Acyclic, RowOK
  <2>2. \A p \in Proc : ProcOK(p)'
    BY <1>1 DEF AccountInv, FamilyOK, ProcOK, AskedFor
  <2>3. ASSUME NEW p \in Proc PROVE Unwinding(p)'
    <3>1. Unwinding(p)
      BY DEF AccountInv, FamilyOK
    <3>2. \A S \in SUBSET Lease, m \in Lease : Estate(m, S) => Estate(m, S)'
      BY <1>1, <1>2 DEF Estate, HolderGone, Dead, At
    <3>3. \A S \in SUBSET Lease, m \in Lease, st \in Seq(Frame) :
              Stacked(st, m, S) => Stacked(st, m, S)'
      BY <1>1 DEF Stacked, FrameOK, Occupying, Children
    <3> QED
      BY <1>1, <3>1, <3>2, <3>3 DEF Unwinding, At
  <2> QED
    BY <2>1, <2>2, <2>3 DEF FamilyOK
<1>4. HeldFits' /\ CoverExact' /\ NoOrphanChild'
  BY <1>1, <1>2 DEF AccountInv, HeldFits, CoverExact, CoverUnits, NoOrphanChild, Children
<1>5. Exact'
  BY <1>1 DEF AccountInv, Exact, Load, Units, ChargedTo, Occupying, InFlight, NobodyKilled, Dead, At
<1> QED
  BY <1>3, <1>4, <1>5 DEF AccountInv

-----------------------------------------------------------------------------
(* The accounts of orderly processes stay in order and add up, in every     *)
(* behaviour (claim_pool_capacity, drain_waiters, reserve_child,            *)
(* release_lease).                                                          *)
THEOREM AccountInvariant == ASSUME Orderly PROVE Spec => [](Typed /\ AccountInv)
<1>1. Init => Typed /\ AccountInv
  BY InitTyped, InitAccount
<1>2. Typed /\ AccountInv /\ [Next]_vars => (Typed /\ AccountInv)'
  <2> SUFFICES ASSUME Typed, AccountInv, [Next]_vars PROVE (Typed /\ AccountInv)'
    OBVIOUS
  <2>1. Typed'
    BY NextTyped
  <2>2. CASE UNCHANGED vars
    BY <2>1, <2>2, StutterAccount
  <2>3. CASE Next
    BY <2>1, <2>3, StepAccount DEF Next
  <2> QED
    BY <2>2, <2>3
<1> QED
  BY <1>1, <1>2, PTL DEF Spec

(* For any number of processes, leases, resources and prices: while nobody  *)
(* was killed, each running total is what the occupying rows add up to plus *)
(* the bookings in flight, and a killed drain only leaves it higher         *)
(* (claim_pool_capacity, drain_waiters, release_lease).                     *)
THEOREM TotalsExact == ASSUME Orderly PROVE Spec => []Exact
<1>1. Typed /\ AccountInv => Exact
  BY DEF AccountInv
<1> QED
  BY <1>1, AccountInvariant, PTL

(* The leases that occupy a pool never add up to more than its ceiling, in  *)
(* any dimension (claim_pool_capacity, release_lease).                      *)
THEOREM NeverPastCeiling == ASSUME Orderly PROVE Spec => []WithinCeiling
<1>1. Typed /\ AccountInv => WithinCeiling
  <2> SUFFICES ASSUME Typed, AccountInv, NEW q \in Pool, NEW d \in Dim
               PROVE  Load(q, d) <= ceiling[q][d]
    BY DEF WithinCeiling
  <2>1. Load(q, d) \in Nat /\ held[q][d] \in Nat /\ ceiling[q][d] \in Nat
    BY LoadNat DEF Typed, TypeOK
  <2>2. InFlight(q, d) \in Nat
    <3>1. IsFiniteSet(Proc \X (1..MaxCost))
      <4>1. MaxCost \in Int /\ 1 \in Int /\ IsFiniteSet(Proc)
        BY LedgerAssumption
      <4> QED
        BY <4>1, FS_Interval, FS_Product
    <3>2. PICK B : B \subseteq Proc \X (1..MaxCost) /\ InFlight(q, d) = Cardinality(B)
      BY DEF InFlight
    <3> QED
      BY <3>1, <3>2, FS_Subset, FS_CardinalityType
  <2>3. Load(q, d) + InFlight(q, d) <= held[q][d] /\ held[q][d] <= ceiling[q][d]
    BY DEF AccountInv, Exact, HeldFits
  <2> QED
    BY <2>1, <2>2, <2>3
<1> QED
  BY <1>1, AccountInvariant, PTL

(* A parent's allotment is lent at most once (capacity_children._cover,     *)
(* docker_leases._return_cover).                                            *)
THEOREM CoverLentOnce == ASSUME Orderly PROVE Spec => []CoverExact
<1>1. Typed /\ AccountInv => CoverExact
  BY DEF AccountInv
<1> QED
  BY <1>1, AccountInvariant, PTL

(* A child never outlives the lease it runs inside (release_lease).         *)
THEOREM NoChildOutlives == ASSUME Orderly PROVE Spec => []NoOrphanChild
<1>1. Typed /\ AccountInv => NoOrphanChild
  BY DEF AccountInv
<1> QED
  BY <1>1, AccountInvariant, PTL

-----------------------------------------------------------------------------
(* Who goes on to look at the line before it comes to rest: it has read the *)
(* head that is the head still, or it will read the head again.             *)
Committed(p) ==
    \/ proc[p].pc \in {"insert", "head", "claim", "refund", "unwind"}
    \/ At(p, "book") /\ IsHead(proc[p].head)

(* Somebody attends to the line, or there is nothing to be done for it.     *)
Attended ==
    NobodyKilled =>
        \/ \E p \in Proc : Committed(p)
        \/ \A l \in Lease : IsHead(l) => ~BookingFits(l)

(* A step that leaves the line alone, and no capacity free, leaves it       *)
(* attended if whoever took it attended to nothing.                         *)
LEMMA AttendedStays ==
    ASSUME Typed, Typed', Attended, NEW p \in Proc, ~Committed(p),
           UNCHANGED ceiling, \A q \in Proc \ {p} : proc'[q] = proc[q],
           Waiting' = Waiting,
           \A k \in Waiting : /\ row'[k].position = row[k].position
                              /\ row'[k].pool = row[k].pool
                              /\ row'[k].cost = row[k].cost,
           \A q \in Pool, d \in Dim : held[q][d] <= held'[q][d],
           NobodyKilled' => NobodyKilled
    PROVE  Attended'
<1> SUFFICES ASSUME NobodyKilled'
             PROVE  \/ \E q \in Proc : Committed(q)'
                    \/ \A l \in Lease : IsHead(l)' => ~BookingFits(l)'
  BY DEF Attended
<1>1. \A l : IsHead(l)' <=> IsHead(l)
  BY DEF IsHead
<1>2. CASE \E q \in Proc : Committed(q)
  <2>1. PICK q \in Proc \ {p} : Committed(q)
    BY <1>2
  <2>2. proc'[q] = proc[q]
    BY <2>1
  <2>3. Committed(q)'
    BY <1>1, <2>1, <2>2 DEF Committed, At
  <2> QED
    BY <2>3
<1>3. CASE \A l \in Lease : IsHead(l) => ~BookingFits(l)
  <2> SUFFICES ASSUME NEW l \in Lease, IsHead(l)', BookingFits(l)' PROVE FALSE
    OBVIOUS
  <2>1. IsHead(l) /\ l \in Waiting
    BY <1>1 DEF IsHead
  <2>2. row'[l].pool = row[l].pool /\ row'[l].cost = row[l].cost
    BY <2>1
  <2>3. row[l].pool \in Pool /\ row[l].cost \in Vector
    BY DEF Typed, TypeOK, Row
  <2>4. ASSUME NEW q \in CHARGED_POOLS[row[l].pool], NEW d \in Dim
        PROVE  held[q][d] + row[l].cost[d] <= ceiling[q][d]
    <3>1. q \in Pool
      BY <2>3 DEF CHARGED_POOLS, Pool
    <3>2. /\ held[q][d] \in Nat /\ held'[q][d] \in Nat /\ ceiling[q][d] \in Nat
          /\ row[l].cost[d] \in Nat /\ held[q][d] <= held'[q][d]
      BY <2>3, <3>1, LedgerAssumption DEF Typed, TypeOK, Vector
    <3>3. held'[q][d] + row[l].cost[d] <= ceiling[q][d]
      BY <2>2 DEF BookingFits, Fits
    <3> QED
      BY <3>2, <3>3
  <2>5. BookingFits(l)
    BY <2>4 DEF BookingFits, Fits
  <2> QED
    BY <1>3, <2>1, <2>5
<1>4. NobodyKilled
  OBVIOUS
<1> QED
  BY <1>2, <1>3, <1>4 DEF Attended

(* A child takes no place in line and frees nothing.                        *)
LEMMA ChildLine ==
    ASSUME Typed, NEW p \in Proc, NEW parent \in Lease, NEW c \in Nested, NEW draw \in BOOLEAN,
           ReserveChild(p, parent, c, draw)
    PROVE  /\ Waiting' = Waiting
           /\ \A k \in Waiting : /\ row'[k].position = row[k].position
                                 /\ row'[k].pool = row[k].pool
                                 /\ row'[k].cost = row[k].cost
           /\ \A q \in Pool, d \in Dim : held[q][d] <= held'[q][d]
           /\ \A q \in Proc \ {p} : proc'[q] = proc[q]
           /\ proc'[p].pc = "holding"
<1> DEFINE cover == Cover(parent, c.price, draw)
           excess == Minus(c.price, cover)
           edit == [row EXCEPT ![parent].drawn = Plus(@, cover)]
<1>1. PICK l \in Unused :
          /\ row' = [edit EXCEPT ![l] = [status |-> "held", holder |-> p, pool |-> c.pool,
                         cost |-> c.price, covered |-> cover, drawn |-> Zero,
                         parent |-> parent, position |-> 0, ahead |-> {}]]
          /\ proc' = [proc EXCEPT ![p].pc = "holding", ![p].mine = l]
  BY DEF ReserveChild
<1>2. /\ l \in Lease /\ row[l].status = "none" /\ row \in [Lease -> Row] /\ proc \in [Proc -> Local]
  BY DEF Unused, Typed, TypeOK
<1>3. \A k \in Lease : /\ edit[k].status = row[k].status
                        /\ edit[k].position = row[k].position
                        /\ edit[k].pool = row[k].pool
                        /\ edit[k].cost = row[k].cost
  BY <1>2 DEF Row
<1>4. DOMAIN edit = Lease
  BY <1>2
<1> HIDE DEF edit, cover
<1>5. row'[l].status = "held" /\ \A k \in Lease \ {l} : row'[k] = edit[k]
  BY <1>1, <1>2, <1>4
<1>6. Waiting' = Waiting
  BY <1>2, <1>3, <1>5 DEF Waiting
<1>7. \A k \in Waiting : k \in Lease \ {l}
  BY <1>2 DEF Waiting
<1>8. ASSUME NEW q \in Pool, NEW d \in Dim PROVE held[q][d] <= held'[q][d]
  <2>1. held' = Charge(CHARGED_POOLS[c.pool], excess)
    BY DEF ReserveChild, cover
  <2>2. held[q][d] \in Nat
    BY DEF Typed, TypeOK
  <2>3. excess[d] \in Nat
    <3>1. cover[d] \in 0..MaxCost /\ c.price[d] \in 0..MaxCost /\ MaxCost \in Nat
      BY LedgerAssumption, CoverType DEF Price, Vector, Typed, cover
    <3> QED
      BY <3>1 DEF Minus
  <2>4. held'[q][d] = held[q][d] \/ held'[q][d] = held[q][d] + excess[d]
    BY <2>1 DEF Charge, Plus
  <2> QED
    BY <2>2, <2>3, <2>4
<1>9. \A k \in Waiting : /\ row'[k].position = row[k].position
                         /\ row'[k].pool = row[k].pool
                         /\ row'[k].cost = row[k].cost
  BY <1>3, <1>5, <1>7
<1> QED
  BY <1>1, <1>2, <1>6, <1>8, <1>9 DEF Local

(* Whoever goes on towards the head of the line attends to it.              *)
LEMMA CommittedAttends ==
    ASSUME NEW p \in Proc, proc'[p].pc \in {"insert", "head", "claim", "refund", "unwind"}
    PROVE  Attended'
BY DEF Attended, Committed

(* A step at rest that writes neither rows nor totals leaves it attended.   *)
LEMMA RestAttended ==
    ASSUME Typed, Typed', Attended, NEW p \in Proc, ~Committed(p), ~Dead(p),
           UNCHANGED <<row, held, ceiling>>, \A q \in Proc \ {p} : proc'[q] = proc[q]
    PROVE  Attended'
<1>1. Waiting' = Waiting
  BY DEF Waiting
<1>2. \A q \in Pool, d \in Dim : held[q][d] <= held'[q][d]
  BY DEF Typed, TypeOK
<1>3. NobodyKilled' => NobodyKilled
  BY DEF NobodyKilled, Dead, At
<1> QED
  BY <1>1, <1>2, <1>3, AttendedStays

(* A drain that finds its head too dear has found the head of the line, or  *)
(* somebody else is on the way to it.                                       *)
LEMMA BookAttended ==
    ASSUME ~Contention, Typed, Typed', LineOK, Attended, NEW p \in Proc, Book(p)
    PROVE  Attended'
<1>1. /\ proc[p] \in Local /\ proc \in [Proc -> Local] /\ UNCHANGED <<row, ceiling>>
      /\ At(p, "book") /\ ~Dead(p) /\ proc[p].head \in Lease
  BY DEF Typed, TypeOK, LocalOK, Book, At, Dead
<1>2. CASE BookingFits(proc[p].head)
  <2>1. Goto(p, "claim")
    BY <1>2 DEF Book
  <2>2. proc'[p].pc = "claim"
    BY <1>1, <2>1 DEF Goto, Local
  <2> QED
    BY <2>2, CommittedAttends
<1>3. CASE ~BookingFits(proc[p].head)
  <2>1. StopDrain(p) /\ UNCHANGED held
    BY <1>3 DEF Book
  <2>2. \A q \in Proc \ {p} : proc'[q] = proc[q]
    BY <1>1, <2>1 DEF StopDrain, Goto
  <2>3. CASE IsHead(proc[p].head)
    <3>1. ASSUME NEW l \in Lease, IsHead(l) PROVE l = proc[p].head
      <4>1. /\ l \in Waiting /\ proc[p].head \in Waiting
            /\ row[l].position \in Nat /\ row[proc[p].head].position \in Nat
        BY <2>3, <3>1, <1>1 DEF IsHead, Typed, TypeOK, Row
      <4>2. row[l].position = row[proc[p].head].position
        BY <2>3, <3>1, <4>1 DEF IsHead
      <4> QED
        BY <4>1, <4>2 DEF LineOK, PositionsDistinct
    <3>2. \A l \in Lease : IsHead(l) => ~BookingFits(l)
      BY <1>3, <3>1
    <3>3. \A l \in Lease : (IsHead(l)' <=> IsHead(l)) /\ (BookingFits(l)' <=> BookingFits(l))
      BY <1>1, <2>1 DEF IsHead, Waiting, BookingFits, Fits
    <3> QED
      BY <3>2, <3>3 DEF Attended
  <2>4. CASE ~IsHead(proc[p].head)
    <3>1. ~Committed(p)
      BY <1>1, <2>4 DEF Committed, At
    <3> QED
      BY <1>1, <2>1, <2>2, <3>1, RestAttended
  <2> QED
    BY <2>3, <2>4
<1> QED
  BY <1>2, <1>3

(* A drain reads the head of the line, or sees that nobody waits.           *)
LEMMA HeadAttended ==
    ASSUME Typed, NEW p \in Proc, HeadRead(p)
    PROVE  Attended'
<1>1. proc \in [Proc -> Local] /\ UNCHANGED row
  BY DEF Typed, TypeOK, HeadRead, Ledger
<1>2. \A l : IsHead(l)' <=> IsHead(l)
  BY <1>1 DEF IsHead, Waiting
<1>3. CASE \E l \in Lease : IsHead(l) /\ proc' = [proc EXCEPT ![p].pc = "book", ![p].head = l]
  <2>1. PICK l \in Lease : IsHead(l) /\ proc' = [proc EXCEPT ![p].pc = "book", ![p].head = l]
    BY <1>3
  <2>2. proc'[p].pc = "book" /\ proc'[p].head = l
    BY <1>1, <2>1 DEF Local
  <2>3. Committed(p)'
    BY <1>2, <2>1, <2>2 DEF Committed, At
  <2> QED
    BY <2>3 DEF Attended
<1>4. CASE Waiting = {}
  BY <1>2, <1>4 DEF Attended, IsHead
<1> QED
  BY <1>3, <1>4 DEF HeadRead

(* Every step of orderly processes leaves the line attended.                *)
LEMMA StepAttended ==
    ASSUME Orderly, ~Contention, Typed, LineOK, AccountInv, Attended, NEW p \in Proc,
           Step(p) \/ Choice(p)
    PROVE  Attended'
<1>1. Typed' /\ FamilyOK
  BY NextTyped DEF Next, AccountInv
<1>2. proc \in [Proc -> Local] /\ proc[p] \in Local
  BY DEF Typed, TypeOK
<1>3. CASE Insert(p) \/ Claim(p) \/ Settle(p) \/ Refund(p) \/ Release(p) \/ Look(p) \/ ReleaseKid(p)
  <2>1. proc'[p].pc \in {"insert", "head", "claim", "refund", "unwind"}
    <3>1. CASE Insert(p)
      BY <1>1, <3>1, InsertRow
    <3>7. CASE Refund(p)
      BY <1>2, <3>7 DEF Refund, Local
    <3>2. CASE Claim(p)
      BY <1>2, <3>2 DEF Claim, Goto, Local
    <3>3. CASE Settle(p)
      BY <1>1, <3>3, SettleFacts DEF At
    <3>4. CASE Release(p)
      BY <1>2, <3>4 DEF Release, Call
    <3>5. CASE Look(p)
      BY <1>1, <3>5, LookUnwinding DEF At
    <3>6. CASE ReleaseKid(p)
      BY <1>1, <3>6, KidUnwinding DEF At
    <3> QED
      BY <1>3, <3>1, <3>2, <3>3, <3>4, <3>5, <3>6, <3>7
  <2> QED
    BY <2>1, CommittedAttends
<1>4. CASE \E parent \in Lease, c \in Nested, draw \in BOOLEAN : ReserveChild(p, parent, c, draw)
  <2>1. /\ Waiting' = Waiting
        /\ \A k \in Waiting : /\ row'[k].position = row[k].position
                              /\ row'[k].pool = row[k].pool
                              /\ row'[k].cost = row[k].cost
        /\ \A q \in Pool, d \in Dim : held[q][d] <= held'[q][d]
        /\ \A q \in Proc \ {p} : proc'[q] = proc[q]
        /\ At(p, "idle") /\ UNCHANGED ceiling
    <3>1. PICK parent \in Lease, c \in Nested, draw \in BOOLEAN : ReserveChild(p, parent, c, draw)
      BY <1>4
    <3>2. At(p, "idle") /\ UNCHANGED ceiling
      BY <3>1 DEF ReserveChild
    <3> QED
      BY <3>1, <3>2, ChildLine
  <2>2. ~Committed(p) /\ (NobodyKilled' => NobodyKilled)
    BY <2>1 DEF Committed, At, NobodyKilled, Dead
  <2> QED
    BY <1>1, <2>1, <2>2, AttendedStays
<1>5. CASE \E c \in Claims : Reserve(p, c)
  <2>1. PICK c \in Claims : Reserve(p, c)
    BY <1>5
  <2>2. CASE TakePosition(p, c)
    <3>1. proc'[p].pc = "insert"
      BY <1>2, <2>2 DEF TakePosition, Start
    <3> QED
      BY <3>1, CommittedAttends
  <2>3. CASE \E l \in Lease, label \in {"queued", "holding"} :
                proc' = [proc EXCEPT ![p].pc = label, ![p].mine = l]
    <3>1. /\ \A q \in Proc \ {p} : proc'[q] = proc[q]
          /\ UNCHANGED <<row, held, ceiling>> /\ proc[p].pc \in {"idle", "queued"}
      BY <1>2, <2>1, <2>3 DEF Reserve
    <3>2. ~Committed(p) /\ ~Dead(p)
      BY <3>1 DEF Committed, Dead, At
    <3> QED
      BY <1>1, <3>1, <3>2, RestAttended
  <2> QED
    BY <2>1, <2>2, <2>3 DEF Reserve, Mine
<1>6. CASE Answer(p) \/ Poll(p)
  <2>1. proc[p].pc \in {"answer", "queued"} /\ UNCHANGED <<row, held, ceiling>>
    BY <1>6 DEF Answer, Poll, At, Ledger
  <2>2. \A q \in Proc \ {p} : proc'[q] = proc[q]
    BY <1>2, <1>6 DEF Answer, Poll, Goto, Drain
  <2>3. ~Committed(p) /\ ~Dead(p)
    BY <2>1 DEF Committed, Dead, At
  <2> QED
    BY <1>1, <2>1, <2>2, <2>3, RestAttended
<1>7. CASE Crash(p)
  <2>1. ~NobodyKilled'
    BY <1>2, <1>7 DEF Crash, NobodyKilled, Dead, At, Start
  <2> QED
    BY <2>1 DEF Attended
<1>8. CASE HeadRead(p)
  BY <1>8, HeadAttended
<1>9. CASE Book(p)
  BY <1>1, <1>9, BookAttended
<1> QED
  BY <1>1, <1>3, <1>4, <1>5, <1>6, <1>7, <1>8, <1>9, OrderlySteps

(* No capacity lies free beside the head of the line once all are at rest,  *)
(* if no booking gives up under contention: whoever frees capacity or joins *)
(* the line goes on to read the head again (drain_waiters).                 *)
THEOREM HeadNeverStranded == ASSUME Orderly, ~Contention PROVE Spec => []NoStrandedHead
<1> DEFINE Inv == Typed /\ LineOK /\ AccountInv /\ Attended
<1>1. Init => Inv
  <2> SUFFICES ASSUME Init PROVE Inv
    OBVIOUS
  <2>1. Attended
    BY DEF Init, NoRow, Attended, IsHead, Waiting
  <2> QED
    BY <2>1, InitTyped, InitLine, InitAccount
<1>2. Inv /\ [Next]_vars => Inv'
  <2> SUFFICES ASSUME Typed, LineOK, AccountInv, Attended, [Next]_vars PROVE Inv'
    OBVIOUS
  <2>1. Typed' /\ LineOK'
    BY NextTyped, NextLine
  <2>2. CASE UNCHANGED vars
    <3>1. Attended'
      BY <2>2 DEF vars, Attended, NobodyKilled, Dead, At, Committed, IsHead, Waiting, BookingFits, Fits
    <3> QED
      BY <2>1, <2>2, <3>1, StutterAccount
  <2>3. CASE Next
    BY <2>1, <2>3, StepAccount, StepAttended DEF Next
  <2> QED
    BY <2>2, <2>3
<1>3. Inv => NoStrandedHead
  <2> SUFFICES ASSUME Attended, NobodyKilled, \A p \in Proc : ~Busy(p), NEW l \in Lease, IsHead(l)
               PROVE  ~BookingFits(l)
    BY DEF NoStrandedHead
  <2>1. \A p \in Proc : ~Committed(p)
    BY DEF Busy, Committed, At
  <2> QED
    BY <2>1 DEF Attended
<1> QED
  BY <1>1, <1>2, <1>3, PTL DEF Spec

=============================================================================
