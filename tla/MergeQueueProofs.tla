-------------------------- MODULE MergeQueueProofs --------------------------
(***************************************************************************)
(* What holds of MergeQueue for every set of branches, admitters and rows,  *)
(* and every scenario: its types; that one candidate is active at a time;   *)
(* that the loop asks GitHub to land only what is green; that an entry that *)
(* reads merged landed the tree that was staged; and, unless a retry on the *)
(* board lost its position and read its row again, that the queue lands     *)
(* only what the row says.                                                  *)
(*                                                                         *)
(* What the loop knows of its entry depends on where it is.  Everybody else *)
(* may take the entry out of the loop's hands, which the swap that ends the *)
(* loop's step finds out, but nobody else moves an entry forward.           *)
(***************************************************************************)
EXTENDS MergeQueue, FiniteSetTheorems, WellFoundedInduction, TLAPS

-----------------------------------------------------------------------------
(* A bounded set of numbers has a greatest element: next_position is one.   *)
LEMMA LeastNumber ==
    ASSUME NEW T \in SUBSET Nat, T # {}
    PROVE  \E m \in T : \A n \in T : m <= n
<1> DEFINE R == OpToRel(<, Nat)
<1>1. PICK m \in T : \A n \in T : ~(<<n, m>> \in R)
  BY NatLessThanWellFounded, WFMin
<1>2. \A n \in T : ~(n < m)
  BY <1>1 DEF OpToRel
<1> QED BY <1>2

LEMMA Bounded ==
    ASSUME NEW S, IsFiniteSet(S), NEW f \in [S -> Nat]
    PROVE  \E b \in Nat : \A s \in S : f[s] <= b
<1>1. PICK n \in Nat : ExistsSurjection(1..n, S)
  BY FS_NatSurjection
<1>2. PICK g \in [1..n -> S] : \A s \in S : \E i \in 1..n : g[i] = s
  BY <1>1 DEF ExistsSurjection, Surjection
<1> DEFINE Below(k) == \E b \in Nat : \A i \in 1..k : f[g[i]] <= b
           T == {k \in 0..n : ~Below(k)}
<1>3. Below(0)
  BY 0 \in Nat
<1>4. ASSUME NEW k \in 1..n, Below(k - 1) PROVE Below(k)
  <2>1. PICK b \in Nat : \A i \in 1..(k - 1) : f[g[i]] <= b
    BY <1>4
  <2>2. \A i \in 1..k : f[g[i]] \in Nat /\ (i \in 1..(k - 1) \/ i = k)
    BY <1>2
  <2>3. b + f[g[k]] \in Nat /\ \A i \in 1..k : f[g[i]] <= b + f[g[k]]
    BY <2>1, <2>2
  <2> QED BY <2>3
<1> HIDE DEF Below
<1>5. T = {}
  <2> SUFFICES ASSUME T # {} PROVE FALSE
    OBVIOUS
  <2>1. PICK k \in T : \A j \in T : k <= j
    <3>1. T \in SUBSET Nat
      OBVIOUS
    <3> HIDE DEF T
    <3> QED BY <3>1, LeastNumber
  <2>2. k \in 1..n /\ ~Below(k)
    BY <2>1, <1>3
  <2>3. Below(k - 1)
    BY <2>1, <2>2
  <2> QED BY <2>2, <2>3, <1>4
<1>6. Below(n)
  BY <1>5
<1> QED BY <1>2, <1>6 DEF Below

LEMMA GreatestExists ==
    ASSUME NEW U \in SUBSET Nat, U # {}, NEW b \in Nat, \A u \in U : u <= b
    PROVE  \E p \in U : \A q \in U : q <= p
<1> DEFINE T == {m \in Nat : \A u \in U : u <= m}
<1>1. PICK m \in T : \A k \in T : m <= k
  <2>1. T \in SUBSET Nat /\ b \in T
    OBVIOUS
  <2> HIDE DEF T
  <2> QED BY <2>1, LeastNumber
<1>2. m \in Nat /\ \A u \in U : u <= m
  BY <1>1
<1>3. CASE m \in U
  BY <1>2, <1>3
<1>4. CASE m \notin U
  <2>1. \A u \in U : u <= m - 1 /\ u \in Nat
    BY <1>2, <1>4
  <2>2. m - 1 \in Nat
    <3>1. PICK u \in U : u <= m - 1 /\ u \in Nat
      BY <2>1
    <3> QED BY <1>2, <3>1
  <2>3. m - 1 \in T
    BY <2>1, <2>2
  <2> QED BY <1>1, <1>2, <2>3
<1> QED BY <1>3, <1>4
-----------------------------------------------------------------------------
(* The loop has no entry in hand; or has a staged commit for it.            *)
Resting == {"idle", "remind", "pick"}
Cutting == {"push", "staged"}
Staged  == {"wait", "failing", "moved", "closed", "adopt", "land", "claim", "merge", "refused",
            "resume", "confirm", "mismatch", "cleanup", "finish"}
Landing == {"land", "claim", "merge"}
Settled == {"cleanup", "finish"}

(* A commit of the queue on a commit the base really has.                   *)
IsCut(c) == c.queue /\ c.base \in 1..Tip

Landed(b, tree) == \E n \in 1..Tip : main[n].branch = b /\ main[n].tree = tree

-----------------------------------------------------------------------------
IsPr(b, n) == b \in Branches /\ n \in 1..Len(prs[b])

IsRow(e) == e \in Ids /\ entry[e].state # "none"

(* The rows name pull requests that exist; a staged row names a cut of its  *)
(* own work, a merged one what landed; one is active.                       *)
Rows ==
    /\ Tip >= 1
    /\ \A e \in Ids :
          /\ entry[e].state # "none" => IsPr(entry[e].branch, entry[e].pr)
          /\ entry[e].state \in {"testing", "merging"} =>
                IsCut(entry[e].staged) /\ entry[e].staged.work = entry[e].work
          /\ entry[e].state = "merged" =>
                IsCut(entry[e].staged)
                /\ Landed(entry[e].branch, TreeOf(entry[e].branch, entry[e].staged))
    /\ OneActive

(* What the loop knows of the entry in hand: nobody else is active when it  *)
(* begins to stage; what it cut is the work of a row still staging, and has *)
(* an attempt left; what it lands is what the row staged, green when it was *)
(* asked and landed when GitHub said so.                                    *)
Hand ==
    /\ loop.pc \notin Resting => IsRow(loop.e)
    /\ loop.cut.base <= Tip
    /\ loop.pc = "stage" => Active = {}
    /\ loop.pc \in Cutting =>
          /\ IsCut(loop.cut) /\ E.attempts < MaxAttempts
          /\ E.state = "staging" => loop.cut.work = E.work
    /\ loop.pc \in Staged =>
          IsCut(loop.cut) /\ (E.state \in {"testing", "merging"} => E.staged = loop.cut)
    /\ loop.pc \in Landing /\ ref[E.branch] = loop.cut =>
          \A r \in Required : checks[E.branch][r] = "passing"
    /\ loop.pc \in Settled => Landed(E.branch, TreeOf(E.branch, loop.cut))

(* A pull request that reads merged is on the base.                         *)
OnBase == \A b \in Branches : \A n \in 1..Len(prs[b]) :
              prs[b][n].state = "merged" => Landed(b, prs[b][n].tree)

(* What the others have in hand exists, and a publish's commit is not the   *)
(* queue's.                                                                 *)
Others ==
    /\ op.pc # "idle" => IsRow(op.e)
    /\ \A a \in Admitters :
          /\ adm[a].pc # "idle" => adm[a].branch \in Branches
          /\ adm[a].pc \in {"lookup", "repoint", "insert"} => IsPr(adm[a].branch, adm[a].pr)
          /\ adm[a].pc = "repoint" => IsRow(adm[a].target)
          /\ ~adm[a].commit.queue

QInv == TypeOK /\ Rows /\ Hand /\ OnBase /\ Others

-----------------------------------------------------------------------------
(* The types, variable by variable.                                         *)
LEMMA InHandType ==
    ASSUME QInv, loop.pc \notin Resting
    PROVE  /\ loop.e \in Ids /\ E \in Entry /\ entry \in [Ids -> Entry] /\ E.state # "none"
           /\ E.branch \in Branches /\ E.pr \in 1..Len(prs[E.branch])
           /\ PrOf(loop.e) \in PullRequest
<1>1. loop.e \in Ids /\ E \in Entry /\ entry \in [Ids -> Entry] /\ E.state # "none"
  BY DEF QInv, TypeOK, Hand, IsRow, E
<1>2. E.branch \in Branches /\ E.pr \in 1..Len(prs[E.branch])
  BY <1>1 DEF QInv, Rows, IsPr, E
<1>3. prs[E.branch] \in Seq(PullRequest)
  BY <1>2 DEF QInv, TypeOK
<1>4. PrOf(loop.e) = prs[E.branch][E.pr]
  BY DEF PrOf, E
<1> QED BY <1>1, <1>2, <1>3, <1>4

LEMMA GotoType ==
    ASSUME QInv, NEW p \in LoopPC, Goto(p)
    PROVE  loop' \in Loop
BY DEF QInv, TypeOK, Goto, Loop

LEMMA IdleType == Idle \in Loop /\ NoCommit \in Commit /\ NoEntry \in Entry
<1>1. 0 \in Work
  BY MergeQueueAssumption DEF Work
<1>2. NoCommit \in Commit
  BY <1>1 DEF NoCommit, Commit
<1> QED BY <1>1, <1>2 DEF Idle, Loop, LoopPC, NoEntry, Entry, State

LEMMA SpendType ==
    ASSUME QInv, NEW what \in Events, Spend(what)
    PROVE  IsScenario(scene') /\ scene'.required = scene.required
<1>1. IsScenario(scene)
  BY DEF QInv, TypeOK
<1>2. scene' = [scene EXCEPT !.events = [scene.events EXCEPT ![what] = @ - 1]]
  BY DEF Spend
<1>3. [scene.events EXCEPT ![what] = @ - 1] \in [Events -> Nat]
  BY <1>1 DEF IsScenario, Spend
<1> QED BY <1>1, <1>2, <1>3 DEF IsScenario

(* A row of the table, whichever of its fields a step writes.               *)
Good == {r \in Entry : r.staged.base \in 0..Tip /\ r.attempts <= MaxAttempts}

LEMMA GoodRows ==
    ASSUME QInv
    PROVE  /\ entry \in [Ids -> Good]
           /\ loop.pc \notin Resting => E \in Good
BY InHandType DEF QInv, TypeOK, Good, E

LEMMA RowUpdates ==
    ASSUME NEW r \in Entry, NEW st \in State, NEW p \in Nat, NEW w \in Work, NEW n \in Nat,
           NEW c \in Commit, NEW q \in State
    PROVE  /\ [r EXCEPT !.state = st] \in Entry
           /\ [r EXCEPT !.state = st, !.blocked = FALSE] \in Entry
           /\ [r EXCEPT !.state = st, !.attempts = n] \in Entry
           /\ [r EXCEPT !.state = st, !.staged = c, !.late = FALSE] \in Entry
           /\ [r EXCEPT !.state = st, !.blocked = FALSE, !.work = w, !.staged = c,
                        !.late = FALSE] \in Entry
           /\ [r EXCEPT !.state = st, !.blocked = FALSE, !.staged = c, !.attempts = n,
                        !.late = FALSE] \in Entry
           /\ [r EXCEPT !.state = q, !.blocked = FALSE, !.pos = p, !.staged = c,
                        !.late = FALSE, !.artifact = FALSE] \in Entry
           /\ [r EXCEPT !.late = TRUE] \in Entry
           /\ [r EXCEPT !.blocked = TRUE, !.artifact = TRUE] \in Entry
BY ZenonT(60) DEF Entry

-----------------------------------------------------------------------------
(* What a step may do, as far as QInv can tell.  The remote only grows; the *)
(* heads the queue staged are replaced, never put back, and a check that    *)
(* passed stays so.                                                         *)
RemoteGrows ==
    /\ Tip' \in Nat /\ Tip <= Tip' /\ \A n \in 1..Tip : main'[n] = main[n]
    /\ \A b \in Branches : Len(prs'[b]) \in Nat /\ Len(prs[b]) <= Len(prs'[b])

HeadsKept ==
    /\ Required' = Required
    /\ \A b \in Branches : ref'[b].queue =>
          /\ ref'[b] = ref[b]
          /\ \A r \in Required : checks[b][r] = "passing" => checks'[b][r] = "passing"

(* A row keeps what is staged of it, or is out of the loop's hands.         *)
Calm(e) ==
    /\ entry[e].state # "none" =>
          /\ entry'[e].branch = entry[e].branch /\ entry'[e].pr = entry[e].pr
          /\ entry'[e].attempts = entry[e].attempts
    /\ \/ /\ entry'[e].state = entry[e].state /\ entry'[e].work = entry[e].work
          /\ entry'[e].staged = entry[e].staged
       \/ /\ entry'[e].state \in QUEUED_STATES \cup RETRYABLE
          /\ entry[e].state = "none" =>
                entry'[e].branch \in Branches /\ entry'[e].pr \in 1..Len(prs'[entry'[e].branch])

(* What is there, is cut and has landed, stays so.                          *)
LEMMA Grown ==
    ASSUME RemoteGrows, Tip \in Nat
    PROVE  /\ \A b \in Branches : \A n : n \in 1..Len(prs[b]) => n \in 1..Len(prs'[b])
           /\ \A c : IsCut(c) => IsCut(c)' /\ \A b : TreeOf(b, c)' = TreeOf(b, c)
           /\ \A b, t : Landed(b, t) => Landed(b, t)'
<1>1. \A b \in Branches : \A n : n \in 1..Len(prs[b]) => n \in 1..Len(prs'[b])
  BY DEF RemoteGrows
<1>2. \A c : IsCut(c) => IsCut(c)' /\ \A b : TreeOf(b, c)' = TreeOf(b, c)
  BY DEF RemoteGrows, IsCut, TreeOf, Merged
<1>3. \A b, t : Landed(b, t) => Landed(b, t)'
  BY DEF RemoteGrows, Landed
<1> QED BY <1>1, <1>2, <1>3

LEMMA CalmRow ==
    ASSUME QInv, RemoteGrows, NEW e \in Ids, Calm(e)
    PROVE  /\ entry'[e].state # "none" => IsPr(entry[e].branch, entry[e].pr)'
           /\ entry'[e].state \in {"testing", "merging"} =>
                 IsCut(entry[e].staged)' /\ entry'[e].staged.work = entry'[e].work
           /\ entry'[e].state = "merged" =>
                 IsCut(entry[e].staged)'
                 /\ Landed(entry[e].branch, TreeOf(entry[e].branch, entry[e].staged))'
           /\ entry'[e].state \in ACTIVE_STATES => entry[e].state \in ACTIVE_STATES
<1> DEFINE r == entry[e]
           s == entry'[e]
<1>0. Tip \in Nat
  BY DEF QInv, TypeOK, Tip
<1>1. /\ r.state # "none" => IsPr(r.branch, r.pr)
      /\ r.state \in {"testing", "merging"} => IsCut(r.staged) /\ r.staged.work = r.work
      /\ r.state = "merged" => IsCut(r.staged) /\ Landed(r.branch, TreeOf(r.branch, r.staged))
  BY DEF QInv, Rows
<1>2. s.state # "none" => IsPr(r.branch, r.pr)'
  <2>1. CASE r.state = "none"
    BY <2>1 DEF Calm, IsPr
  <2>2. CASE r.state # "none"
    BY <2>2, <1>0, <1>1, Grown DEF Calm, IsPr
  <2> QED BY <2>1, <2>2
<1>3. s.state \in {"testing", "merging", "merged"} =>
        /\ r.state = s.state /\ s.work = r.work /\ s.staged = r.staged /\ s.branch = r.branch
  BY DEF Calm, QUEUED_STATES, RETRYABLE
<1>4. s.state \in {"testing", "merging"} => IsCut(r.staged)' /\ s.staged.work = s.work
  BY <1>0, <1>1, <1>3, Grown
<1>5. s.state = "merged" => IsCut(r.staged)' /\ Landed(r.branch, TreeOf(r.branch, r.staged))'
  BY <1>0, <1>1, <1>3, Grown
<1>6. s.state \in ACTIVE_STATES => r.state \in ACTIVE_STATES
  BY DEF Calm, QUEUED_STATES, RETRYABLE, ACTIVE_STATES
<1> QED BY <1>2, <1>4, <1>5, <1>6

(* One row moves as the loop moves it, the others keep still.               *)
RowMoves(x) ==
    /\ \A e \in Ids : e # x => Calm(e)
    /\ entry'[x].state # "none" => IsPr(entry[x].branch, entry[x].pr)'
    /\ entry'[x].state \in {"testing", "merging"} =>
          IsCut(entry[x].staged)' /\ entry'[x].staged.work = entry'[x].work
    /\ entry'[x].state = "merged" =>
          IsCut(entry[x].staged)'
          /\ Landed(entry[x].branch, TreeOf(entry[x].branch, entry[x].staged))'
    /\ entry'[x].state \in ACTIVE_STATES => entry[x].state \in ACTIVE_STATES \/ Active = {}

LEMMA RowsKept ==
    ASSUME QInv, RemoteGrows, NEW x \in Ids, RowMoves(x)
    PROVE  Rows'
<1>1. Tip >= 1 /\ Tip \in Nat
  BY DEF QInv, TypeOK, Rows, Tip
<1>2. (Tip >= 1)'
  BY <1>1 DEF RemoteGrows
<1>3. ASSUME NEW e \in Ids
      PROVE  /\ entry'[e].state # "none" => IsPr(entry[e].branch, entry[e].pr)'
             /\ entry'[e].state \in {"testing", "merging"} =>
                   IsCut(entry[e].staged)' /\ entry'[e].staged.work = entry'[e].work
             /\ entry'[e].state = "merged" =>
                   IsCut(entry[e].staged)'
                   /\ Landed(entry[e].branch, TreeOf(entry[e].branch, entry[e].staged))'
  <2>1. CASE e = x
    BY <2>1 DEF RowMoves
  <2>2. CASE e # x
    <3>1. Calm(e)
      BY <2>2 DEF RowMoves
    <3> QED BY <3>1, CalmRow
  <2> QED BY <2>1, <2>2
<1>4. OneActive'
  <2> SUFFICES ASSUME NEW e \in Active', NEW f \in Active', e # f
               PROVE  FALSE
    BY DEF OneActive
  <2>1. \A g \in Ids : g # x /\ entry'[g].state \in ACTIVE_STATES => entry[g].state \in ACTIVE_STATES
    BY CalmRow DEF RowMoves
  <2>2. \A g \in Ids : g # x /\ g \in Active' => g \in Active
    BY <2>1 DEF Active
  <2>3. x \in Active' => x \in Active \/ Active = {}
    BY DEF RowMoves, Active
  <2>4. OneActive /\ Active' \subseteq Ids
    BY DEF QInv, Rows, Active
  <2> QED BY <2>2, <2>3, <2>4 DEF OneActive
<1> QED BY <1>2, <1>3, <1>4 DEF Rows

LEMMA RowsCalm ==
    ASSUME QInv, RemoteGrows, \A e \in Ids : Calm(e)
    PROVE  Rows' /\ (Active = {} => Active' = {})
<1>1. Active' \subseteq Active
  BY CalmRow DEF Active
<1>2. \A e \in Ids :
         /\ entry'[e].state # "none" => IsPr(entry[e].branch, entry[e].pr)'
         /\ entry'[e].state \in {"testing", "merging"} =>
               IsCut(entry[e].staged)' /\ entry'[e].staged.work = entry'[e].work
         /\ entry'[e].state = "merged" =>
               IsCut(entry[e].staged)'
               /\ Landed(entry[e].branch, TreeOf(entry[e].branch, entry[e].staged))'
  BY CalmRow
<1>3. Tip >= 1 /\ Tip \in Nat
  BY DEF QInv, TypeOK, Rows, Tip
<1>4. (Tip >= 1)'
  BY <1>3 DEF RemoteGrows
<1>5. OneActive'
  BY <1>1 DEF QInv, Rows, OneActive
<1> QED BY <1>1, <1>2, <1>4, <1>5 DEF Rows

(* What the loop has in hand, while it neither cuts nor begins to stage:    *)
(* where it goes asks no more than where it was.                            *)
LEMMA HandKept ==
    ASSUME QInv, RemoteGrows, loop.pc \notin Resting, Calm(loop.e),
           loop'.e = loop.e, loop'.cut = loop.cut,
           loop'.pc = "stage" => Active' = {},
           loop'.pc \in Cutting => loop.pc \in Cutting,
           loop'.pc \in Staged => loop.pc \in Staged,
           loop'.pc \in Landing =>
               /\ HeadsKept
               /\ \/ loop.pc \in Landing
                  \/ \A r \in Required : checks[E.branch][r] = "passing",
           loop'.pc \in Settled =>
               loop.pc \in Settled \/ Landed(E.branch, TreeOf(E.branch, loop.cut))
    PROVE  Hand'
<1>1. Tip \in Nat
  BY DEF QInv, TypeOK, Tip
<1>2. loop.e \in Ids /\ entry[loop.e].state # "none"
  BY InHandType DEF E
<1>3. /\ entry'[loop.e].branch = entry[loop.e].branch
      /\ entry'[loop.e].attempts = entry[loop.e].attempts
  BY <1>2 DEF Calm
<1>4. IsRow(loop.e)'
  BY <1>2 DEF IsRow, Calm, QUEUED_STATES, RETRYABLE
<1>5. (loop.cut.base <= Tip)'
  <2>1. loop.cut.base <= Tip /\ loop.cut.base \in Nat
    BY DEF QInv, Hand, TypeOK, Loop, Commit
  <2> QED BY <1>1, <2>1 DEF RemoteGrows
<1>6. IsCut(loop.cut) => IsCut(loop.cut)'
  BY <1>1, Grown
<1>7. entry'[loop.e].state \in ACTIVE_STATES =>
         /\ entry'[loop.e].state = entry[loop.e].state
         /\ entry'[loop.e].work = entry[loop.e].work
         /\ entry'[loop.e].staged = entry[loop.e].staged
  BY DEF Calm, QUEUED_STATES, RETRYABLE, ACTIVE_STATES
<1>8. (loop.pc \in Cutting => IsCut(loop.cut) /\ E.attempts < MaxAttempts
                              /\ (E.state = "staging" => loop.cut.work = E.work))'
  <2>1. ASSUME loop'.pc \in Cutting
        PROVE  IsCut(loop.cut)' /\ entry'[loop.e].attempts < MaxAttempts
               /\ (entry'[loop.e].state = "staging" => loop.cut.work = entry'[loop.e].work)
    BY <2>1, <1>3, <1>6, <1>7 DEF QInv, Hand, E, ACTIVE_STATES
  <2> QED BY <2>1 DEF E
<1>9. (loop.pc \in Staged =>
          IsCut(loop.cut) /\ (E.state \in {"testing", "merging"} => E.staged = loop.cut))'
  <2>1. ASSUME loop'.pc \in Staged
        PROVE  IsCut(loop.cut)'
               /\ (entry'[loop.e].state \in {"testing", "merging"} => entry'[loop.e].staged = loop.cut)
    BY <2>1, <1>6, <1>7 DEF QInv, Hand, E, ACTIVE_STATES
  <2> QED BY <2>1 DEF E
<1>10. (loop.pc \in Landing /\ ref[E.branch] = loop.cut =>
          \A r \in Required : checks[E.branch][r] = "passing")'
  <2> DEFINE b == entry[loop.e].branch
  <2>1. b \in Branches
    BY InHandType DEF E
  <2>2. ASSUME loop'.pc \in Landing, ref'[b] = loop.cut
        PROVE  \A r \in Required' : checks'[b][r] = "passing"
    <3>1. IsCut(loop.cut)
      BY <2>2 DEF Landing, Staged, QInv, Hand
    <3>2. ref[b] = loop.cut
      BY <2>1, <2>2, <3>1 DEF HeadsKept, IsCut
    <3>3. \A r \in Required : checks[b][r] = "passing"
      BY <2>2, <3>2 DEF QInv, Hand, E
    <3>4. ref'[b].queue
      BY <2>2, <3>1 DEF IsCut
    <3> QED BY <2>1, <2>2, <3>3, <3>4 DEF HeadsKept
  <2> QED BY <1>3, <2>2 DEF E
<1>11. (loop.pc \in Settled => Landed(E.branch, TreeOf(E.branch, loop.cut)))'
  <2> DEFINE b == entry[loop.e].branch
             c == loop.cut
  <2>1. ASSUME loop'.pc \in Settled
        PROVE  Landed(b, TreeOf(b, c)) /\ IsCut(c)
    BY <2>1 DEF Settled, Staged, QInv, Hand, E
  <2>2. ASSUME loop'.pc \in Settled
        PROVE  Landed(b, TreeOf(b, c))'
    <3>1. \A x : Landed(b, x) => (\E n \in 1..Tip' : main'[n].branch = b /\ main'[n].tree = x)
      BY <1>1 DEF Landed, RemoteGrows
    <3>2. TreeOf(b, c)' = TreeOf(b, c)
      <4>1. TreeOf(b, c)' = Merged(b, c.work, main'[c.base].tree)
        BY <1>3 DEF TreeOf, Merged
      <4> QED BY <1>1, <4>1, <2>1, <2>2 DEF TreeOf, IsCut, RemoteGrows
    <3> QED BY <1>3, <2>1, <2>2, <3>1, <3>2 DEF Landed
  <2> QED BY <2>2 DEF E
<1> QED BY <1>4, <1>5, <1>8, <1>9, <1>10, <1>11 DEF Hand, Resting

LEMMA HandResting ==
    ASSUME QInv, RemoteGrows, loop'.pc \in Resting, loop'.cut \in {loop.cut, NoCommit}
    PROVE  Hand'
<1>1. Tip \in Nat /\ loop.cut.base \in Nat /\ loop.cut.base <= Tip
  BY DEF QInv, TypeOK, Tip, Hand, Loop, Commit
<1>2. (loop.cut.base <= Tip)'
  BY <1>1 DEF RemoteGrows, NoCommit
<1> QED BY <1>2 DEF Hand, Resting, Cutting, Staged, Landing, Settled

LEMMA OthersKept ==
    ASSUME QInv, RemoteGrows, UNCHANGED <<adm, op>>,
           \A e \in Ids : entry[e].state # "none" => entry'[e].state # "none"
    PROVE  Others'
<1>1. Tip \in Nat
  BY DEF QInv, TypeOK, Tip
<1>2. (op.pc # "idle" => IsRow(op.e))'
  BY DEF QInv, Others, IsRow
<1>3. ASSUME NEW a \in Admitters
      PROVE  (/\ adm[a].pc # "idle" => adm[a].branch \in Branches
              /\ adm[a].pc \in {"lookup", "repoint", "insert"} => IsPr(adm[a].branch, adm[a].pr)
              /\ adm[a].pc = "repoint" => IsRow(adm[a].target)
              /\ ~adm[a].commit.queue)'
  BY <1>1, Grown DEF QInv, Others, IsRow, IsPr
<1> QED BY <1>2, <1>3 DEF Others

LEMMA GoodUpdates ==
    ASSUME NEW r \in Good, NEW st \in State, NEW p \in Nat, NEW w \in Work, NEW n \in Nat,
           NEW c \in Commit, Tip \in Nat, n <= MaxAttempts, c.base <= Tip
    PROVE  /\ [r EXCEPT !.state = st] \in Good
           /\ [r EXCEPT !.state = st, !.blocked = FALSE] \in Good
           /\ [r EXCEPT !.state = st, !.attempts = n] \in Good
           /\ [r EXCEPT !.state = st, !.staged = c, !.late = FALSE] \in Good
           /\ [r EXCEPT !.state = st, !.blocked = FALSE, !.work = w, !.staged = c,
                        !.late = FALSE] \in Good
           /\ [r EXCEPT !.state = st, !.blocked = FALSE, !.staged = c, !.attempts = n,
                        !.late = FALSE] \in Good
           /\ [r EXCEPT !.state = st, !.blocked = FALSE, !.pos = p, !.staged = c,
                        !.late = FALSE, !.artifact = FALSE] \in Good
           /\ [r EXCEPT !.late = TRUE] \in Good
           /\ [r EXCEPT !.blocked = TRUE, !.artifact = TRUE] \in Good
<1>1. r \in Entry /\ r.staged.base \in 0..Tip /\ r.attempts <= MaxAttempts
  BY DEF Good
<1>2. c.base \in 0..Tip
  BY DEF Commit
<1>3. \A x \in Entry : x.staged \in {r.staged, c} /\ x.attempts \in {r.attempts, n} => x \in Good
  BY <1>1, <1>2 DEF Good
<1> HIDE DEF Good
<1>4. [r EXCEPT !.state = st] \in Good
  <2> DEFINE x == [r EXCEPT !.state = st]
  <2>1. x \in Entry
    BY <1>1, RowUpdates
  <2>2. x.staged \in {r.staged, c} /\ x.attempts \in {r.attempts, n}
    BY <1>1 DEF Entry
  <2> HIDE DEF x
  <2>3. x \in Good
    BY <2>1, <2>2, <1>3
  <2> QED BY <2>3 DEF x
<1>5. [r EXCEPT !.state = st, !.blocked = FALSE] \in Good
  <2> DEFINE x == [r EXCEPT !.state = st, !.blocked = FALSE]
  <2>1. x \in Entry
    BY <1>1, RowUpdates
  <2>2. x.staged \in {r.staged, c} /\ x.attempts \in {r.attempts, n}
    BY <1>1 DEF Entry
  <2> HIDE DEF x
  <2>3. x \in Good
    BY <2>1, <2>2, <1>3
  <2> QED BY <2>3 DEF x
<1>6. [r EXCEPT !.state = st, !.attempts = n] \in Good
  <2> DEFINE x == [r EXCEPT !.state = st, !.attempts = n]
  <2>1. x \in Entry
    BY <1>1, RowUpdates
  <2>2. x.staged \in {r.staged, c} /\ x.attempts \in {r.attempts, n}
    BY <1>1 DEF Entry
  <2> HIDE DEF x
  <2>3. x \in Good
    BY <2>1, <2>2, <1>3
  <2> QED BY <2>3 DEF x
<1>7. [r EXCEPT !.state = st, !.staged = c, !.late = FALSE] \in Good
  <2> DEFINE x == [r EXCEPT !.state = st, !.staged = c, !.late = FALSE]
  <2>1. x \in Entry
    BY <1>1, RowUpdates
  <2>2. x.staged \in {r.staged, c} /\ x.attempts \in {r.attempts, n}
    BY <1>1 DEF Entry
  <2> HIDE DEF x
  <2>3. x \in Good
    BY <2>1, <2>2, <1>3
  <2> QED BY <2>3 DEF x
<1>8. [r EXCEPT !.state = st, !.blocked = FALSE, !.work = w, !.staged = c, !.late = FALSE] \in Good
  <2> DEFINE x == [r EXCEPT !.state = st, !.blocked = FALSE, !.work = w, !.staged = c, !.late = FALSE]
  <2>1. x \in Entry
    BY <1>1, RowUpdates
  <2>2. x.staged \in {r.staged, c} /\ x.attempts \in {r.attempts, n}
    BY <1>1 DEF Entry
  <2> HIDE DEF x
  <2>3. x \in Good
    BY <2>1, <2>2, <1>3
  <2> QED BY <2>3 DEF x
<1>9. [r EXCEPT !.state = st, !.blocked = FALSE, !.staged = c, !.attempts = n, !.late = FALSE] \in Good
  <2> DEFINE x == [r EXCEPT !.state = st, !.blocked = FALSE, !.staged = c, !.attempts = n, !.late = FALSE]
  <2>1. x \in Entry
    BY <1>1, RowUpdates
  <2>2. x.staged \in {r.staged, c} /\ x.attempts \in {r.attempts, n}
    BY <1>1 DEF Entry
  <2> HIDE DEF x
  <2>3. x \in Good
    BY <2>1, <2>2, <1>3
  <2> QED BY <2>3 DEF x
<1>10. [r EXCEPT !.state = st, !.blocked = FALSE, !.pos = p, !.staged = c, !.late = FALSE, !.artifact = FALSE] \in Good
  <2> DEFINE x == [r EXCEPT !.state = st, !.blocked = FALSE, !.pos = p, !.staged = c, !.late = FALSE, !.artifact = FALSE]
  <2>1. x \in Entry
    BY <1>1, RowUpdates
  <2>2. x.staged \in {r.staged, c} /\ x.attempts \in {r.attempts, n}
    BY <1>1 DEF Entry
  <2> HIDE DEF x
  <2>3. x \in Good
    BY <2>1, <2>2, <1>3
  <2> QED BY <2>3 DEF x
<1>11. [r EXCEPT !.late = TRUE] \in Good
  <2> DEFINE x == [r EXCEPT !.late = TRUE]
  <2>1. x \in Entry
    BY <1>1, RowUpdates
  <2>2. x.staged \in {r.staged, c} /\ x.attempts \in {r.attempts, n}
    BY <1>1 DEF Entry
  <2> HIDE DEF x
  <2>3. x \in Good
    BY <2>1, <2>2, <1>3
  <2> QED BY <2>3 DEF x
<1>12. [r EXCEPT !.blocked = TRUE, !.artifact = TRUE] \in Good
  <2> DEFINE x == [r EXCEPT !.blocked = TRUE, !.artifact = TRUE]
  <2>1. x \in Entry
    BY <1>1, RowUpdates
  <2>2. x.staged \in {r.staged, c} /\ x.attempts \in {r.attempts, n}
    BY <1>1 DEF Entry
  <2> HIDE DEF x
  <2>3. x \in Good
    BY <2>1, <2>2, <1>3
  <2> QED BY <2>3 DEF x
<1> QED BY <1>4, <1>5, <1>6, <1>7, <1>8, <1>9, <1>10, <1>11, <1>12

-----------------------------------------------------------------------------
(* Steps of the loop that touch the rows and its locals only.               *)
LocalStep == UNCHANGED <<work, remote, adm, op, scene>>

LEMMA LocalRemote ==
    ASSUME QInv, LocalStep
    PROVE  /\ Tip \in Nat /\ Tip >= 1 /\ RemoteGrows /\ HeadsKept /\ OnBase'
           /\ \A c : IsCut(c)' <=> IsCut(c)
           /\ \A b, c : TreeOf(b, c)' = TreeOf(b, c)
           /\ \A b, t : Landed(b, t)' <=> Landed(b, t)
           /\ \A b, n : IsPr(b, n)' <=> IsPr(b, n)
<1>1. /\ main' = main /\ ref' = ref /\ checks' = checks /\ prs' = prs /\ scene' = scene
  BY DEF LocalStep, remote
<1>2. Tip \in Nat /\ Tip >= 1 /\ \A b \in Branches : Len(prs[b]) \in Nat
  BY DEF QInv, TypeOK, Tip, Rows
<1>3. RemoteGrows /\ HeadsKept
  BY <1>1, <1>2 DEF RemoteGrows, HeadsKept, Tip, Required
<1>4. /\ \A c : IsCut(c)' <=> IsCut(c)
      /\ \A b, c : TreeOf(b, c)' = TreeOf(b, c)
      /\ \A b, n : IsPr(b, n)' <=> IsPr(b, n)
  BY <1>1 DEF IsCut, TreeOf, IsPr, Tip, Merged
<1>5. \A b, t : Landed(b, t)' <=> Landed(b, t)
  BY <1>1 DEF Landed, Tip
<1>6. OnBase'
  BY <1>1 DEF QInv, OnBase, Landed, Tip
<1> QED BY <1>2, <1>3, <1>4, <1>5, <1>6

LEMMA LocalKept ==
    ASSUME QInv, LocalStep, entry' \in [Ids -> Good], loop' \in Loop, Rows', Hand',
           \/ cards' \subseteq cards
           \/ loop.pc \notin Resting /\ cards' \subseteq cards \cup {<<E.branch, E.pr>>},
           \/ artifact' = artifact
           \/ \E e \in Ids : artifact' = [artifact EXCEPT ![e] = "open"],
           \A e \in Ids : entry[e].state # "none" => entry'[e].state # "none"
    PROVE  QInv'
<1>1. Tip \in Nat /\ RemoteGrows /\ OnBase'
  BY LocalRemote
<1>2. Others'
  BY <1>1, OthersKept DEF LocalStep
<1>3. TypeOK'
  <2>1. entry' \in [Ids -> Entry]
        /\ \A e \in Ids : entry'[e].staged.base \in 0..Tip /\ entry'[e].attempts <= MaxAttempts
    BY DEF Good
  <2>2. cards' \subseteq Branches \X Nat
    BY InHandType DEF QInv, TypeOK
  <2>3. artifact' \in [Ids -> {"none", "open", "done"}]
    BY DEF QInv, TypeOK
  <2>4. Tip' = Tip
    BY DEF LocalStep, remote, Tip
  <2>5. /\ main' = main /\ ref' = ref /\ checks' = checks /\ prs' = prs /\ scene' = scene
        /\ tip' = tip /\ published' = published /\ adm' = adm /\ op' = op
    BY DEF LocalStep, remote, work
  <2>6. (/\ tip \in [Branches -> Work] /\ published \in [Branches -> Work]
         /\ main \in Seq([tree : Tree, by : Ids \cup {0}, branch : Branches \cup {Nobody},
                          work : Work])
         /\ ref \in [Branches -> Commit]
         /\ checks \in [Branches -> [Required -> Outcome]]
         /\ prs \in [Branches -> Seq(PullRequest)]
         /\ adm \in [Admitters -> Adm] /\ op \in Op
         /\ IsScenario(scene))'
    BY <2>5 DEF QInv, TypeOK, Required, IsScenario
  <2> QED BY <2>1, <2>2, <2>3, <2>4, <2>6 DEF TypeOK
<1> QED BY <1>1, <1>2, <1>3 DEF QInv

(* Nothing but where the loop is, a card or a conflict ticket changes.      *)
LEMMA Looks ==
    ASSUME QInv, LocalStep, entry' = entry, loop' \in Loop, Hand',
           \/ cards' = cards
           \/ loop.pc \notin Resting /\ cards' \subseteq cards \cup {<<E.branch, E.pr>>},
           \/ artifact' = artifact
           \/ \E e \in Ids : artifact' = [artifact EXCEPT ![e] = "open"]
    PROVE  QInv'
<1>1. \A e \in Ids : Calm(e)
  BY DEF Calm
<1>2. entry' \in [Ids -> Good]
  BY GoodRows
<1>3. Rows'
  BY <1>1, LocalRemote, RowsCalm
<1> QED BY <1>2, <1>3, LocalKept

(* The loop gives the entry back, or stops it: it leaves the active states. *)
LEMMA Leaves ==
    ASSUME QInv, LocalStep, UNCHANGED <<cards, artifact>>, loop.pc \notin Resting,
           NEW new \in Good, new.state \in QUEUED_STATES \cup RETRYABLE,
           new.branch = E.branch, new.pr = E.pr, new.attempts = E.attempts,
           \/ UNCHANGED entry
           \/ entry' = [entry EXCEPT ![loop.e] = new],
           \/ loop' = Idle
           \/ \E pc \in {"pick", "report", "file"} : Goto(pc)
    PROVE  QInv'
<1>1. /\ entry \in [Ids -> Good] /\ loop.e \in Ids /\ E = entry[loop.e] /\ E.state # "none"
  BY GoodRows, InHandType DEF E
<1>2. entry' \in [Ids -> Good]
  BY <1>1
<1>3. \A e \in Ids : Calm(e) /\ (entry[e].state # "none" => entry'[e].state # "none")
  BY <1>1 DEF Calm, QUEUED_STATES, RETRYABLE
<1>4. RemoteGrows /\ Rows' /\ (Active = {} => Active' = {})
  BY <1>3, LocalRemote, RowsCalm
<1>5. loop' \in Loop
  BY GotoType, IdleType DEF LoopPC
<1>6. Hand'
  <2>1. CASE loop' = Idle
    BY <2>1, <1>4, HandResting DEF Idle, Resting
  <2>2. CASE \E pc \in {"pick", "report", "file"} : Goto(pc)
    <3>1. /\ loop'.pc \in {"pick", "report", "file"} /\ loop'.e = loop.e /\ loop'.cut = loop.cut
      BY <2>2 DEF Goto, QInv, TypeOK, Loop
    <3> QED BY <1>1, <1>3, <1>4, <3>1, HandKept DEF Cutting, Staged, Landing, Settled
  <2> QED BY <2>1, <2>2
<1> QED BY <1>2, <1>3, <1>4, <1>5, <1>6, LocalKept

(* The entry goes between testing and merging, with what is staged of it.   *)
LEMMA Passes ==
    ASSUME QInv, LocalStep, UNCHANGED <<cards, artifact>>, loop.pc \in Staged,
           E.state \in {"testing", "merging"}, NEW new \in Good,
           new.state \in {"testing", "merging"}, new.branch = E.branch, new.pr = E.pr,
           new.work = E.work, new.staged = E.staged,
           entry' = [entry EXCEPT ![loop.e] = new],
           NEW pc \in Staged \ Settled, Goto(pc), pc \in Landing => loop.pc \in Landing
    PROVE  QInv'
<1>0. loop.pc \notin Resting /\ LoopPC = LoopPC \cup Staged
  BY DEF Staged, Resting, LoopPC
<1>1. /\ entry \in [Ids -> Good] /\ loop.e \in Ids /\ E = entry[loop.e] /\ E.state # "none"
  BY <1>0, GoodRows, InHandType DEF E
<1>2. entry' \in [Ids -> Good] /\ \A e \in Ids : entry[e].state # "none" => entry'[e].state # "none"
  BY <1>1
<1>3. /\ loop' \in Loop /\ loop'.pc = pc /\ loop'.e = loop.e /\ loop'.cut = loop.cut
  BY <1>0, GotoType DEF Goto, QInv, TypeOK, Loop
<1>4. entry'[loop.e] = new
  BY <1>1
<1>5. IsPr(E.branch, E.pr) /\ IsCut(E.staged) /\ E.staged.work = E.work
  BY <1>1 DEF QInv, Rows
<1>6. loop.e \in Active
  BY <1>1 DEF Active, ACTIVE_STATES
<1>7. RowMoves(loop.e)
  <2>1. \A e \in Ids : e # loop.e => Calm(e)
    BY <1>1 DEF Calm
  <2>2. IsPr(entry[loop.e].branch, entry[loop.e].pr)'
    BY <1>3, <1>4, <1>5, LocalRemote
  <2>3. IsCut(entry[loop.e].staged)' /\ entry'[loop.e].staged.work = entry'[loop.e].work
    BY <1>3, <1>4, <1>5, LocalRemote
  <2> QED BY <1>1, <1>3, <1>4, <2>1, <2>2, <2>3 DEF RowMoves, ACTIVE_STATES
<1>8. Rows'
  BY <1>1, <1>7, LocalRemote, RowsKept
<1>9. Hand'
  <2>1. IsRow(loop.e)'
    BY <1>1, <1>3, <1>4 DEF IsRow
  <2>2. (loop.cut.base <= Tip)' /\ IsCut(loop.cut)'
    BY <1>3, LocalRemote DEF QInv, Hand, LocalStep, remote, Tip
  <2>3. E' = new
    BY <1>3, <1>4 DEF E
  <2>4. (E.staged = loop.cut)'
    BY <1>3, <2>3 DEF QInv, Hand
  <2>5. (loop.pc \in Landing /\ ref[E.branch] = loop.cut =>
            \A r \in Required : checks[E.branch][r] = "passing")'
    BY <1>3, <2>3 DEF QInv, Hand, LocalStep, remote, Required
  <2>6. loop'.pc \notin Resting \cup Cutting \cup Settled \cup {"stage"}
    BY <1>3 DEF Staged, Settled, Resting, Cutting
  <2> QED BY <2>1, <2>2, <2>4, <2>5, <2>6 DEF Hand
<1> QED BY <1>2, <1>3, <1>8, <1>9, LocalKept

LEMMA BeginStagingKept == ASSUME QInv, BeginStaging PROVE QInv'
<1>0. LocalStep /\ loop.pc = "stage" /\ loop.pc \notin Resting /\ cards' = cards /\ artifact' = artifact
  BY DEF BeginStaging, LocalStep, Resting
<1>1. /\ entry \in [Ids -> Good] /\ loop.e \in Ids /\ E = entry[loop.e] /\ E.state # "none" /\ E \in Good
  BY <1>0, GoodRows, InHandType DEF E
<1> DEFINE new == [E EXCEPT !.state = "staging", !.blocked = FALSE]
<1>2. new \in Good
  <2>1. "staging" \in State /\ 0 \in Work /\ NoCommit \in Commit /\ Tip \in Nat /\ NoCommit.base <= Tip
        /\ 0 <= MaxAttempts
    BY MergeQueueAssumption, IdleType, <1>0, LocalRemote DEF State, ACTIVE_STATES, Work, NoCommit
  <2> QED BY <1>1, <2>1, GoodUpdates
<1>3. new.state = "staging" /\ new.branch = E.branch /\ new.pr = E.pr
  BY <1>1 DEF Good, Entry
<1> HIDE DEF new
<1>4. CASE entry' = entry /\ Goto("pick")
  <2>1. loop' \in Loop /\ loop'.pc = "pick" /\ loop'.cut = loop.cut
    BY <1>4, GotoType DEF Goto, QInv, TypeOK, Loop, LoopPC
  <2>2. Hand'
    BY <2>1, <1>0, LocalRemote, HandResting DEF Resting
  <2> QED BY <1>0, <1>4, <2>1, <2>2, Looks
<1>5. CASE entry' = [entry EXCEPT ![loop.e] = new] /\ Goto("cut")
  <2>1. loop' \in Loop /\ loop'.pc = "cut" /\ loop'.e = loop.e /\ loop'.cut = loop.cut
    BY <1>5, GotoType DEF Goto, QInv, TypeOK, Loop, LoopPC
  <2>2. entry' \in [Ids -> Good] /\ entry'[loop.e] = new
        /\ \A e \in Ids : entry[e].state # "none" => entry'[e].state # "none"
    BY <1>1, <1>2, <1>3, <1>5
  <2>3. RowMoves(loop.e)
    <3>1. \A e \in Ids : e # loop.e => Calm(e)
      BY <1>1, <1>5 DEF Calm
    <3>2. IsPr(entry[loop.e].branch, entry[loop.e].pr)'
      BY <1>0, <1>1, <1>3, <2>1, <2>2, LocalRemote DEF QInv, Rows
    <3> QED BY <1>0, <1>3, <2>1, <2>2, <3>1, <3>2 DEF RowMoves, QInv, Hand
  <2>4. Rows'
    BY <1>0, <1>1, <2>3, LocalRemote, RowsKept
  <2>5. Hand'
    <3>1. (loop.cut.base <= Tip)'
      BY <1>0, <2>1, LocalRemote DEF QInv, Hand, LocalStep, remote, Tip
    <3>2. IsRow(loop.e)'
      BY <1>1, <1>3, <2>1, <2>2 DEF IsRow
    <3> QED BY <2>1, <3>1, <3>2 DEF Hand, Cutting, Staged, Landing, Settled
  <2> QED BY <1>0, <2>1, <2>2, <2>4, <2>5, LocalKept
<1> QED BY <1>4, <1>5 DEF BeginStaging, Transition, new

LEMMA Facts ==
    ASSUME QInv
    PROVE  /\ Tip \in Nat /\ Tip >= 1 /\ NoCommit \in Commit /\ NoCommit.base <= Tip
           /\ 0 \in Work /\ 0 \in Nat /\ 0 <= MaxAttempts
           /\ loop.pc \notin Resting => E \in Good
<1>1. Tip \in Nat /\ Tip >= 1
  BY DEF QInv, TypeOK, Tip, Rows
<1> QED BY <1>1, IdleType, GoodRows, MergeQueueAssumption DEF NoCommit, Work

LEMMA StopKept ==
    ASSUME QInv, LocalStep, UNCHANGED <<cards, artifact>>, loop.pc \notin Resting,
           NEW from, NEW to \in RETRYABLE,
           Stop(from, to) \/ Transition(from, [E EXCEPT !.state = to, !.blocked = FALSE], Goto("file"))
    PROVE  QInv'
<1> DEFINE new == [E EXCEPT !.state = to, !.blocked = FALSE]
<1>1. new \in Good
  BY Facts, GoodUpdates DEF State, RETRYABLE, TERMINAL_STATES
<1>2. new.state = to /\ new.branch = E.branch /\ new.pr = E.pr /\ new.attempts = E.attempts
  BY Facts DEF Good, Entry
<1>3. /\ UNCHANGED entry \/ entry' = [entry EXCEPT ![loop.e] = new]
      /\ \E pc \in {"pick", "report", "file"} : Goto(pc)
  BY DEF Stop, Transition
<1> HIDE DEF new
<1> QED BY <1>1, <1>2, <1>3, Leaves

LEMMA StopsKept ==
    ASSUME QInv,
           \/ GiveUp \/ CutUndetermined \/ RecordConflict
           \/ TimeOut \/ StopFailing \/ StopClosed \/ RefuseMismatch \/ StopMismatch
    PROVE  QInv'
<1>1. /\ LocalStep /\ UNCHANGED <<cards, artifact>> /\ loop.pc \notin Resting
      /\ \E from \in State, to \in RETRYABLE :
            \/ Stop(from, to)
            \/ Transition(from, [E EXCEPT !.state = to, !.blocked = FALSE], Goto("report"))
            \/ Transition(from, [E EXCEPT !.state = to, !.blocked = FALSE], Goto("file"))
  BY DEF GiveUp, CutUndetermined, RecordConflict, TimeOut, StopFailing, StopClosed,
         RefuseMismatch, StopMismatch, LocalStep, Resting, RETRYABLE, State, ACTIVE_STATES
<1> QED BY <1>1, StopKept DEF Stop

LEMMA RestageKept == ASSUME QInv, Restage PROVE QInv'
<1> DEFINE new == [E EXCEPT !.state = "queued", !.staged = NoCommit, !.late = FALSE]
<1>0. LocalStep /\ UNCHANGED <<cards, artifact>> /\ loop.pc \notin Resting
  BY DEF Restage, LocalStep, Resting
<1>1. new \in Good
  BY <1>0, Facts, GoodUpdates DEF State, QUEUED_STATES
<1>2. new.state = "queued" /\ new.branch = E.branch /\ new.pr = E.pr /\ new.attempts = E.attempts
  BY <1>0, Facts DEF Good, Entry
<1>3. /\ UNCHANGED entry \/ entry' = [entry EXCEPT ![loop.e] = new]
      /\ loop' = Idle \/ \E pc \in {"pick", "report", "file"} : Goto(pc)
  BY DEF Restage, Transition, EndCycle
<1> HIDE DEF new
<1> QED BY <1>0, <1>1, <1>2, <1>3, Leaves DEF QUEUED_STATES

LEMMA PickAgain == ASSUME QInv, LocalStep, UNCHANGED rows, Goto("pick") \/ EndCycle PROVE QInv'
<1>1. loop' \in Loop /\ loop'.pc \in Resting /\ loop'.cut \in {loop.cut, NoCommit}
  BY GotoType, IdleType DEF Goto, EndCycle, Idle, QInv, TypeOK, Loop, LoopPC, Resting
<1>2. Hand'
  BY <1>1, LocalRemote, HandResting
<1> QED BY <1>1, <1>2, Looks DEF rows

LEMMA PassKept ==
    ASSUME QInv, LocalStep, UNCHANGED <<cards, artifact>>, loop.pc \in Staged,
           NEW from \in {"testing", "merging"}, NEW to \in {"testing", "merging"},
           NEW pc \in Staged \ Settled, pc \in Landing => loop.pc \in Landing,
           \/ Transition(from, [E EXCEPT !.state = to], Goto(pc))
           \/ Transition(from, [E EXCEPT !.state = to, !.blocked = FALSE], Goto(pc))
    PROVE  QInv'
<1>0. loop.pc \notin Resting
  BY DEF Staged, Resting
<1>1. CASE entry' = entry /\ Goto("pick")
  BY <1>1, PickAgain DEF rows
<1>2. CASE E.state = from /\ entry' # entry
  <2>1. to \in State /\ E \in Good
    BY <1>0, Facts DEF State, ACTIVE_STATES
  <2>2. PICK new \in {[E EXCEPT !.state = to], [E EXCEPT !.state = to, !.blocked = FALSE]} :
           entry' = [entry EXCEPT ![loop.e] = new] /\ Goto(pc)
    BY <1>2 DEF Transition
  <2>3. new \in Good
    <3>1. [E EXCEPT !.state = to] \in Good /\ [E EXCEPT !.state = to, !.blocked = FALSE] \in Good
      BY <2>1, Facts, GoodUpdates
    <3> QED BY <3>1
  <2>4. /\ new.state = to /\ new.branch = E.branch /\ new.pr = E.pr
        /\ new.work = E.work /\ new.staged = E.staged
    BY <2>1 DEF Good, Entry
  <2> QED BY <1>2, <2>2, <2>3, <2>4, Passes
<1>3. CASE E.state = from /\ entry' = entry /\ Goto(pc)
  <2>1. /\ loop' \in Loop /\ loop'.pc = pc /\ loop'.e = loop.e /\ loop'.cut = loop.cut
    BY <1>3, GotoType DEF Goto, QInv, TypeOK, Loop, Staged, LoopPC
  <2>2. Calm(loop.e)
    BY <1>3 DEF Calm
  <2>3. Hand'
    BY <1>0, <2>1, <2>2, LocalRemote, HandKept DEF Staged, Settled, Cutting
  <2> QED BY <1>3, <2>1, <2>3, Looks
<1> QED BY <1>1, <1>2, <1>3 DEF Transition

LEMMA AdoptKept == ASSUME QInv, Adopt \/ ClaimLanding PROVE QInv'
<1>1. CASE Adopt
  BY <1>1, PassKept DEF Adopt, LocalStep, Staged, Settled, Landing
<1>2. CASE ClaimLanding
  BY <1>2, PassKept DEF ClaimLanding, LocalStep, Staged, Settled, Landing
<1> QED BY <1>1, <1>2

LEMMA MergeRefusedKept == ASSUME QInv, MergeRefused PROVE QInv'
<1>1. LocalStep /\ UNCHANGED <<cards, artifact>> /\ loop.pc = "refused"
  BY DEF MergeRefused, LocalStep
<1>2. CASE Stop("merging", "failed")
  BY <1>1, <1>2, StopKept DEF RETRYABLE, Resting
<1>3. CASE Transition("merging", [E EXCEPT !.state = "testing"], Goto("moved"))
  BY <1>1, <1>3, PassKept DEF Staged, Settled, Landing
<1> QED BY <1>2, <1>3 DEF MergeRefused

LEMMA ResumeKept == ASSUME QInv, Resume PROVE QInv'
<1>1. LocalStep /\ UNCHANGED <<cards, artifact>> /\ loop.pc = "resume"
  BY DEF Resume, LocalStep
<1>2. CASE Goto("confirm") /\ UNCHANGED entry
  <2>1. /\ loop' \in Loop /\ loop'.pc = "confirm" /\ loop'.e = loop.e /\ loop'.cut = loop.cut
    BY <1>2, GotoType DEF Goto, QInv, TypeOK, Loop, LoopPC
  <2>2. Calm(loop.e)
    BY <1>2 DEF Calm
  <2>3. Hand'
    BY <1>1, <2>1, <2>2, LocalRemote, HandKept DEF Resting, Staged, Settled, Cutting, Landing
  <2> QED BY <1>1, <1>2, <2>1, <2>3, Looks
<1>3. CASE Transition("merging", [E EXCEPT !.state = "testing"], Goto("wait"))
  BY <1>1, <1>3, PassKept DEF Staged, Settled, Landing
<1> QED BY <1>2, <1>3 DEF Resume

(* The loop looks, files or closes a card, and goes on with the entry.      *)
LEMMA Walks ==
    ASSUME QInv, LocalStep, entry' = entry, loop.pc \notin Resting,
           \/ cards' = cards
           \/ cards' \subseteq cards \cup {<<E.branch, E.pr>>},
           \/ artifact' = artifact
           \/ \E e \in Ids : artifact' = [artifact EXCEPT ![e] = "open"],
           NEW pc \in LoopPC \ {"stage"}, NEW n \in Nat,
           loop' \in {[loop EXCEPT !.pc = pc], [loop EXCEPT !.pc = pc, !.base = n]},
           pc \in Cutting => loop.pc \in Cutting,
           pc \in Staged => loop.pc \in Staged,
           pc \in Landing =>
               loop.pc \in Landing \/ \A r \in Required : checks[E.branch][r] = "passing",
           pc \in Settled =>
               loop.pc \in Settled \/ Landed(E.branch, TreeOf(E.branch, loop.cut))
    PROVE  QInv'
<1>1. /\ loop' \in Loop /\ loop'.pc = pc /\ loop'.e = loop.e /\ loop'.cut = loop.cut
  BY DEF QInv, TypeOK, Loop
<1>2. Calm(loop.e)
  BY DEF Calm
<1>3. Hand'
  BY <1>1, <1>2, LocalRemote, HandKept
<1> QED BY <1>1, <1>3, Looks

LEMMA WalksKept ==
    ASSUME QInv,
           \/ CutConflicted \/ FileArtifact \/ ReportStopped \/ Unreachable
           \/ FetchBase \/ MergeFails \/ CloseCard
    PROVE  QInv'
<1>1. CASE Unreachable
  <2>1. LocalStep /\ UNCHANGED rows /\ (EndCycle \/ Goto("pick"))
    BY <1>1 DEF Unreachable, LocalStep, Hold
  <2> QED BY <2>1, PickAgain
<1>2. CASE CutConflicted \/ FetchBase \/ MergeFails
  <2>1. LocalStep /\ UNCHANGED rows
    BY <1>2 DEF CutConflicted, FetchBase, MergeFails, LocalStep
  <2>2. PICK pc \in {"conflicted", "claim", "moved", "refused"} :
           /\ Goto(pc)
           /\ pc = "conflicted" \/ loop.pc \in Landing
    BY <1>2 DEF CutConflicted, FetchBase, MergeFails, Landing
  <2>3. loop.pc \notin Resting /\ (pc = "conflicted" \/ loop.pc \in Staged)
    BY <1>2, <2>2 DEF CutConflicted, FetchBase, MergeFails, Landing, Resting, Staged
  <2> QED BY <2>1, <2>2, <2>3, Walks DEF rows, Goto, Cutting, Staged, Landing, Settled, LoopPC
<1>3. CASE FileArtifact
  <2>1. LocalStep /\ UNCHANGED <<entry, cards>> /\ loop.pc = "file" /\ loop.e \in Ids
    BY <1>3, InHandType DEF FileArtifact, LocalStep, Resting
  <2>2. PICK pc \in {"block", "report"} : Goto(pc)
    BY <1>3 DEF FileArtifact
  <2>3. artifact' = artifact \/ artifact' = [artifact EXCEPT ![loop.e] = "open"]
    BY <1>3 DEF FileArtifact
  <2> QED BY <2>1, <2>2, <2>3, Walks DEF Goto, Cutting, Staged, Landing, Settled, LoopPC, Resting
<1>4. CASE ReportStopped \/ CloseCard
  <2>1. LocalStep /\ UNCHANGED <<entry, artifact>> /\ loop.pc \in {"report", "close"} /\ Goto("pick")
    BY <1>4 DEF ReportStopped, CloseCard, LocalStep
  <2>2. cards' \subseteq cards \cup {<<E.branch, E.pr>>}
    BY <1>4 DEF ReportStopped, CloseCard
  <2> QED BY <2>1, <2>2, Walks DEF Goto, Cutting, Staged, Landing, Settled, LoopPC, Resting
<1> QED BY <1>1, <1>2, <1>3, <1>4

LEMMA AskGitHubKept == ASSUME QInv, AskGitHub PROVE QInv'
<1> DEFINE verdict == WaitVerdict(PrOf(loop.e), ref[E.branch], checks[E.branch])
<1>1. LocalStep /\ UNCHANGED rows /\ loop.pc = "wait" /\ loop.pc \in Staged /\ loop.pc \notin Resting
  BY DEF AskGitHub, LocalStep, Staged, Resting
<1>2. CASE Hold("testing")
  BY <1>1, <1>2, PickAgain DEF Hold
<1>3. ASSUME NEW n \in 1..Tip, loop' = [loop EXCEPT !.pc = verdict, !.base = n], verdict # "hold"
      PROVE  QInv'
  <2>1. verdict \in {"adopt", "closed", "moved", "failing", "land"}
    BY <1>1, <1>3, InHandType DEF WaitVerdict, PullRequest
  <2>2. ASSUME verdict = "land"
        PROVE  \A r \in Required : checks[E.branch][r] = "passing"
    <3>1. /\ \A r \in Required : checks[E.branch][r] \notin {"failing", "absent", "pending"}
      BY <2>2, <1>1, InHandType DEF WaitVerdict, PullRequest
    <3>2. \A r \in Required : checks[E.branch][r] \in Outcome
      BY <1>1, InHandType DEF QInv, TypeOK
    <3> QED BY <3>1, <3>2 DEF Outcome
  <2> HIDE DEF verdict
  <2>3. n \in Nat
    BY Facts
  <2>4. verdict \in LoopPC \ {"stage"} /\ verdict \notin Cutting \cup Settled
        /\ (verdict \in Landing => verdict = "land")
    BY <2>1 DEF Cutting, Landing, Settled, LoopPC
  <2> QED BY <1>1, <1>3, <2>2, <2>3, <2>4, Walks DEF rows
<1> QED BY <1>1, <1>2, <1>3 DEF AskGitHub

LEMMA ConfirmKept == ASSUME QInv, Confirm PROVE QInv'
<1>1. LocalStep /\ UNCHANGED rows /\ loop.pc = "confirm" /\ loop.pc \in Staged /\ loop.pc \notin Resting
  BY DEF Confirm, LocalStep, Staged, Resting
<1>2. CASE Goto("mismatch")
  BY <1>1, <1>2, Walks DEF Goto, rows, Cutting, Staged, Landing, Settled, LoopPC
<1>3. CASE /\ PrOf(loop.e).state = "merged" /\ PrOf(loop.e).tree = TreeOf(E.branch, loop.cut)
           /\ Goto("cleanup")
  <2>1. Landed(E.branch, TreeOf(E.branch, loop.cut))
    BY <1>1, <1>3, InHandType DEF QInv, OnBase, PrOf, E
  <2> QED BY <1>1, <1>3, <2>1, Walks DEF Goto, rows, Cutting, Staged, Landing, Settled, LoopPC
<1> QED BY <1>2, <1>3 DEF Confirm

LEMMA CycleKept == ASSUME QInv, Tick \/ RemindDone PROVE QInv'
<1>1. LocalStep /\ UNCHANGED rows
  BY DEF Tick, RemindDone, LocalStep
<1>2. loop' \in Loop /\ loop'.pc \in Resting /\ loop'.cut \in {loop.cut, NoCommit}
  <2>1. CASE Tick
    <3>1. loop' = [Idle EXCEPT !.pc = "remind",
                   !.todo = {e \in Ids : entry[e].state = "failed" /\ entry[e].blocked}]
      BY <2>1 DEF Tick
    <3>2. {e \in Ids : entry[e].state = "failed" /\ entry[e].blocked} \in SUBSET Ids
      OBVIOUS
    <3>3. loop' \in Loop
      BY <3>1, <3>2, IdleType DEF Loop, LoopPC
    <3> QED BY <3>1, <3>3 DEF Idle, Resting
  <2>2. CASE RemindDone
    BY <2>2, GotoType DEF RemindDone, Goto, QInv, TypeOK, Loop, LoopPC, Resting
  <2> QED BY <2>1, <2>2
<1>3. Hand'
  BY <1>1, <1>2, LocalRemote, HandResting
<1> QED BY <1>1, <1>2, <1>3, Looks DEF rows

LEMMA PickKept == ASSUME QInv, Pick PROVE QInv'
<1>1. LocalStep /\ UNCHANGED rows /\ loop.pc = "pick"
  BY DEF Pick, LocalStep
<1>2. CASE EndCycle
  BY <1>1, <1>2, PickAgain
<1>3. ASSUME NEW e \in head_entry,
             loop' = [loop EXCEPT !.e = e, !.seen = @ \cup {e}, !.cut = entry[e].staged,
                                  !.pc = StepOf(entry[e].state)]
      PROVE  QInv'
  <2>1. e \in Ids /\ entry[e].state \in QUEUED_STATES \cup ACTIVE_STATES
        /\ (entry[e].state = "queued" => Active = {})
    BY DEF head_entry, First, Live, Active, QUEUED_STATES, ACTIVE_STATES
  <2> DEFINE pc == StepOf(entry[e].state)
  <2>2. /\ pc \in {"stage", "cut", "wait", "resume"}
        /\ pc = "stage" => entry[e].state = "queued"
        /\ pc \in {"wait", "resume"} => entry[e].state \in {"testing", "merging"}
    BY <2>1 DEF StepOf, QUEUED_STATES, ACTIVE_STATES
  <2> HIDE DEF pc
  <2>3. entry[e] \in Entry /\ entry[e].staged \in Commit /\ entry[e].staged.base <= Tip
    BY <2>1, GoodRows, Facts DEF Good, Entry
  <2>4. /\ loop' \in Loop /\ loop'.pc = pc /\ loop'.e = e /\ loop'.cut = entry[e].staged
    BY <1>3, <2>1, <2>2, <2>3 DEF QInv, TypeOK, Loop, LoopPC, pc
  <2>5. entry' = entry /\ main' = main
    BY <1>1 DEF rows, LocalStep, remote
  <2>6. Hand'
    <3>1. IsRow(loop.e)' /\ (loop.cut.base <= Tip)'
      BY <2>1, <2>3, <2>4, <2>5 DEF IsRow, Tip, QUEUED_STATES, ACTIVE_STATES
    <3>2. (loop.pc = "stage" => Active = {})'
      BY <2>1, <2>2, <2>4, <2>5 DEF Active
    <3>3. (loop.pc \in Staged => IsCut(loop.cut))'
      BY <1>1, <2>1, <2>2, <2>4, LocalRemote DEF QInv, Rows, Staged
    <3>4. (E.staged = loop.cut)'
      BY <2>4, <2>5 DEF E
    <3> QED BY <2>2, <2>4, <3>1, <3>2, <3>3, <3>4 DEF Hand, Cutting, Landing, Settled
  <2> QED BY <1>1, <2>4, <2>6, Looks DEF rows
<1> QED BY <1>2, <1>3 DEF Pick

LEMMA CutCleanKept == ASSUME QInv, CutClean PROVE QInv'
<1>1. LocalStep /\ UNCHANGED rows /\ loop.pc = "cut" /\ loop.pc \notin Resting
  BY DEF CutClean, LocalStep, Resting
<1> DEFINE c == [base |-> Tip, work |-> E.work, queue |-> TRUE]
<1>2. c \in Commit
  BY <1>1, Facts DEF Good, Entry, Commit
<1>3. loop' \in Loop /\ loop'.pc = "push" /\ loop'.e = loop.e /\ loop'.cut = c
  BY <1>2 DEF CutClean, QInv, TypeOK, Loop, LoopPC
<1>4. entry' = entry /\ main' = main
  BY <1>1 DEF rows, LocalStep, remote
<1>5. Hand'
  <2>1. IsRow(loop.e)'
    BY <1>1, <1>3, <1>4 DEF IsRow, QInv, Hand
  <2>2. IsCut(loop.cut)' /\ (loop.cut.base <= Tip)'
    BY <1>3, <1>4, Facts DEF IsCut, Tip
  <2>3. (loop.cut.work = E.work)' /\ (E.attempts < MaxAttempts)'
    BY <1>3, <1>4 DEF E, CutClean
  <2> QED BY <1>3, <2>1, <2>2, <2>3 DEF Hand, Staged, Landing, Settled
<1> QED BY <1>1, <1>3, <1>5, Looks DEF rows

LEMMA BlockOnArtifactKept == ASSUME QInv, BlockOnArtifact PROVE QInv'
<1>1. LocalStep /\ UNCHANGED <<cards, artifact>> /\ loop.pc = "block" /\ loop.pc \notin Resting
  BY DEF BlockOnArtifact, LocalStep, Resting
<1>2. Goto("report")
  BY DEF BlockOnArtifact
<1> DEFINE new == [E EXCEPT !.blocked = TRUE, !.artifact = TRUE]
<1>3. CASE E.state = "failed" /\ entry' = [entry EXCEPT ![loop.e] = new]
  <2>1. "failed" \in State /\ E \in Good
    BY <1>1, Facts DEF State, TERMINAL_STATES
  <2>2. new \in Good
    BY <2>1, Facts, GoodUpdates
  <2>3. new.state = "failed" /\ new.branch = E.branch /\ new.pr = E.pr /\ new.attempts = E.attempts
    BY <1>3, <2>1 DEF Good, Entry
  <2> HIDE DEF new
  <2> QED BY <1>1, <1>2, <1>3, <2>2, <2>3, Leaves DEF RETRYABLE
<1>4. CASE entry' = entry
  BY <1>1, <1>2, <1>4, Walks DEF Goto, Cutting, Staged, Landing, Settled, LoopPC
<1>5. [entry EXCEPT ![loop.e].blocked = TRUE, ![loop.e].artifact = TRUE]
        = [entry EXCEPT ![loop.e] = new]
  BY <1>1, GoodRows, InHandType DEF E
<1> QED BY <1>3, <1>4, <1>5 DEF BlockOnArtifact

LEMMA NextPosition == ASSUME QInv PROVE next_position \in Nat
<1> DEFINE U == {entry[e].pos : e \in Ids} \cup {0}
           f == [e \in Ids |-> entry[e].pos]
<1>1. f \in [Ids -> Nat] /\ IsFiniteSet(Ids)
  BY MergeQueueAssumption DEF QInv, TypeOK, Entry
<1> HIDE DEF f
<1>2. PICK b \in Nat : \A e \in Ids : f[e] <= b
  BY <1>1, Bounded
<1>3. U \in SUBSET Nat /\ U # {} /\ \A u \in U : u <= b
  BY <1>1, <1>2 DEF f
<1> HIDE DEF U
<1>4. \E p \in U : \A q \in U : q <= p
  BY <1>3, GreatestExists
<1> DEFINE top == CHOOSE p \in U : \A q \in U : q <= p
<1>5. top \in U
  BY <1>4
<1>6. next_position = 1 + top
  BY DEF next_position, U
<1> HIDE DEF top
<1> QED BY <1>3, <1>5, <1>6

LEMMA RemindKept == ASSUME QInv, NEW e \in Ids, Remind(e) PROVE QInv'
<1>1. LocalStep /\ loop.pc = "remind" /\ artifact' = artifact /\ cards' \subseteq cards
  BY DEF Remind, LocalStep
<1>2. /\ loop' \in Loop /\ loop'.pc = "remind" /\ loop'.cut = loop.cut
  BY <1>1 DEF Remind, QInv, TypeOK, Loop
<1>3. Hand'
  BY <1>1, <1>2, LocalRemote, HandResting DEF Resting
<1>4. CASE entry' = entry
  BY <1>1, <1>2, <1>3, <1>4, LocalKept, RowsCalm, LocalRemote, GoodRows DEF Calm
<1>5. CASE /\ entry[e].state \in RETRYABLE
           /\ entry' = [entry EXCEPT ![e] = Retried(entry[e], next_position)]
  <2> DEFINE new == Retried(entry[e], next_position)
  <2>1. entry \in [Ids -> Good] /\ entry[e] \in Good
    BY GoodRows
  <2>2. new \in Good
    BY <2>1, NextPosition, Facts, GoodUpdates DEF Retried, State, QUEUED_STATES
  <2>3. new.state = "queued" /\ new.branch = entry[e].branch /\ new.pr = entry[e].pr
        /\ new.attempts = entry[e].attempts
    BY <2>1 DEF Retried, Good, Entry
  <2> HIDE DEF new
  <2>4. entry' \in [Ids -> Good] /\ entry'[e] = new
    BY <1>5, <2>1, <2>2 DEF new
  <2>5. \A x \in Ids : Calm(x) /\ (entry[x].state # "none" => entry'[x].state # "none")
    BY <1>5, <2>1, <2>3, <2>4 DEF Calm, QUEUED_STATES, RETRYABLE
  <2>6. Rows'
    BY <1>1, <2>5, LocalRemote, RowsCalm
  <2> QED BY <1>1, <1>2, <1>3, <2>4, <2>5, <2>6, LocalKept
<1> QED BY <1>4, <1>5 DEF Remind

LEMMA RecordStagedKept == ASSUME QInv, RecordStaged PROVE QInv'
<1>0. LocalStep /\ UNCHANGED <<cards, artifact>> /\ loop.pc = "staged" /\ loop.pc \notin Resting
  BY DEF RecordStaged, LocalStep, Resting
<1> DEFINE new == [E EXCEPT !.state = "testing", !.blocked = FALSE, !.staged = loop.cut,
                            !.attempts = @ + 1, !.late = FALSE]
<1>1. CASE entry' = entry /\ Goto("pick")
  BY <1>0, <1>1, PickAgain DEF rows
<1>2. CASE /\ E.state = "staging" /\ entry' = [entry EXCEPT ![loop.e] = new] /\ loop' = Idle
  <2>1. /\ entry \in [Ids -> Good] /\ loop.e \in Ids /\ E = entry[loop.e] /\ E \in Good
    BY <1>0, GoodRows, InHandType DEF E
  <2>2. /\ IsCut(loop.cut) /\ loop.cut.work = E.work /\ loop.cut \in Commit
        /\ E.attempts + 1 \in Nat /\ E.attempts + 1 <= MaxAttempts
    BY <1>0, <1>2, <2>1, MergeQueueAssumption DEF QInv, Hand, Cutting, TypeOK, Loop, Good, Entry
  <2>3. new \in Good
    <3>1. "testing" \in State /\ loop.cut.base <= Tip
      BY <2>2 DEF IsCut, State, ACTIVE_STATES
    <3>2. new = [E EXCEPT !.state = "testing", !.blocked = FALSE, !.staged = loop.cut,
                          !.attempts = E.attempts + 1, !.late = FALSE]
      BY <2>1 DEF Good, Entry
    <3> QED BY <2>1, <2>2, <3>1, <3>2, Facts, GoodUpdates
  <2>4. /\ new.state = "testing" /\ new.branch = E.branch /\ new.pr = E.pr
        /\ new.work = E.work /\ new.staged = loop.cut
    BY <2>1 DEF Good, Entry
  <2> HIDE DEF new
  <2>5. entry' \in [Ids -> Good] /\ entry'[loop.e] = new
        /\ \A e \in Ids : entry[e].state # "none" => entry'[e].state # "none"
    BY <1>2, <2>1, <2>3, <2>4
  <2>0. PICK x \in Ids : x = loop.e
    BY <2>1
  <2>6. RowMoves(x)
    <3>1. \A e \in Ids : e # x => Calm(e)
      BY <1>2, <2>0, <2>1 DEF Calm
    <3>2. /\ IsPr(entry[x].branch, entry[x].pr)'
          /\ IsCut(entry[x].staged)' /\ entry'[x].staged.work = entry'[x].work
      BY <1>0, <1>2, <2>0, <2>1, <2>2, <2>4, <2>5, LocalRemote DEF QInv, Rows
    <3> QED BY <1>2, <2>0, <2>1, <2>4, <2>5, <3>1, <3>2 DEF RowMoves, ACTIVE_STATES
  <2>7. Rows'
    BY <1>0, <2>1, <2>6, LocalRemote, RowsKept
  <2>8. Hand' /\ loop' \in Loop
    BY <1>0, <1>2, LocalRemote, HandResting, IdleType DEF Idle, Resting
  <2> QED BY <1>0, <2>5, <2>7, <2>8, LocalKept
<1> QED BY <1>1, <1>2 DEF RecordStaged, Transition, EndCycle

LEMMA FinishKept == ASSUME QInv, Finish PROVE QInv'
<1>0. LocalStep /\ UNCHANGED <<cards, artifact>> /\ loop.pc = "finish" /\ loop.pc \notin Resting
  BY DEF Finish, LocalStep, Resting
<1> DEFINE new == [E EXCEPT !.state = "merged", !.blocked = FALSE]
<1>1. CASE entry' = entry /\ Goto("pick")
  BY <1>0, <1>1, PickAgain DEF rows
<1>2. CASE /\ E.state = "merging" /\ entry' = [entry EXCEPT ![loop.e] = new] /\ Goto("close")
  <2>1. /\ entry \in [Ids -> Good] /\ loop.e \in Ids /\ E = entry[loop.e] /\ E \in Good
    BY <1>0, GoodRows, InHandType DEF E
  <2>2. /\ IsCut(loop.cut) /\ E.staged = loop.cut /\ Landed(E.branch, TreeOf(E.branch, loop.cut))
    BY <1>0, <1>2 DEF QInv, Hand, Staged, Settled
  <2>3. new \in Good
    BY <2>1, Facts, GoodUpdates DEF State, TERMINAL_STATES
  <2>4. /\ new.state = "merged" /\ new.branch = E.branch /\ new.pr = E.pr
        /\ new.work = E.work /\ new.staged = loop.cut
    BY <2>1, <2>2 DEF Good, Entry
  <2> HIDE DEF new
  <2>5. entry' \in [Ids -> Good] /\ entry'[loop.e] = new
        /\ \A e \in Ids : entry[e].state # "none" => entry'[e].state # "none"
    BY <1>2, <2>1, <2>3, <2>4
  <2>0. PICK x \in Ids : x = loop.e
    BY <2>1
  <2>6. RowMoves(x)
    <3>1. \A e \in Ids : e # x => Calm(e)
      BY <1>2, <2>0, <2>1 DEF Calm
    <3>2. /\ IsPr(entry[x].branch, entry[x].pr)' /\ IsCut(entry[x].staged)'
          /\ Landed(entry[x].branch, TreeOf(entry[x].branch, entry[x].staged))'
      BY <1>0, <1>2, <2>0, <2>1, <2>2, <2>4, <2>5, LocalRemote DEF QInv, Rows
    <3> QED BY <2>0, <2>4, <2>5, <3>1, <3>2 DEF RowMoves, ACTIVE_STATES
  <2>7. Rows'
    BY <1>0, <2>1, <2>6, LocalRemote, RowsKept
  <2>8. /\ loop' \in Loop /\ loop'.pc = "close" /\ loop'.e = loop.e /\ loop'.cut = loop.cut
    BY <1>2, GotoType DEF Goto, QInv, TypeOK, Loop, LoopPC
  <2>9. Hand'
    <3>1. (loop.cut.base <= Tip)'
      BY <1>0, <2>8, LocalRemote DEF QInv, Hand, LocalStep, remote, Tip
    <3>2. IsRow(loop.e)'
      BY <2>1, <2>4, <2>5, <2>8 DEF IsRow
    <3> QED BY <2>8, <3>1, <3>2 DEF Hand, Cutting, Staged, Landing, Settled
  <2> QED BY <1>0, <2>5, <2>7, <2>8, <2>9, LocalKept
<1> QED BY <1>1, <1>2 DEF Finish, Transition

-----------------------------------------------------------------------------
(* Steps of everybody else, and the loop's own on the remote.               *)
Base == Seq([tree : Tree, by : Ids \cup {0}, branch : Branches \cup {Nobody}, work : Work])

LEMMA Types ==
    ASSUME QInv, RemoteGrows, entry' \in [Ids -> Good],
           cards' \subseteq Branches \X Nat, artifact' \in [Ids -> {"none", "open", "done"}],
           tip' \in [Branches -> Work], published' \in [Branches -> Work],
           main' \in Base, ref' \in [Branches -> Commit],
           checks' \in [Branches -> [Required -> Outcome]],
           prs' \in [Branches -> Seq(PullRequest)], loop' \in Loop,
           adm' \in [Admitters -> Adm], op' \in Op, IsScenario(scene'), Required' = Required
    PROVE  TypeOK'
<1>1. Tip \in Nat
  BY Facts
<1>2. entry' \in [Ids -> Entry]
      /\ \A e \in Ids : entry'[e].staged.base \in 0..Tip /\ entry'[e].attempts <= MaxAttempts
  BY DEF Good
<1>3. \A e \in Ids : entry'[e].staged.base \in 0..Tip'
  BY <1>1, <1>2 DEF RemoteGrows
<1> QED BY <1>2, <1>3 DEF TypeOK, Base

(* What a step leaves alone is of its type.                                 *)
LEMMA Kept ==
    ASSUME QInv
    PROVE  /\ UNCHANGED entry => entry' \in [Ids -> Good]
           /\ UNCHANGED cards => cards' \subseteq Branches \X Nat
           /\ UNCHANGED artifact => artifact' \in [Ids -> {"none", "open", "done"}]
           /\ UNCHANGED tip => tip' \in [Branches -> Work]
           /\ UNCHANGED published => published' \in [Branches -> Work]
           /\ UNCHANGED main => main' \in Base
           /\ UNCHANGED ref => ref' \in [Branches -> Commit]
           /\ UNCHANGED checks => checks' \in [Branches -> [Required -> Outcome]]
           /\ UNCHANGED prs => prs' \in [Branches -> Seq(PullRequest)]
           /\ UNCHANGED loop => loop' \in Loop
           /\ UNCHANGED adm => adm' \in [Admitters -> Adm]
           /\ UNCHANGED op => op' \in Op
           /\ UNCHANGED scene => IsScenario(scene') /\ Required' = Required
<1>1. UNCHANGED entry => entry' \in [Ids -> Good]
  BY GoodRows
<1>2. UNCHANGED scene => IsScenario(scene') /\ Required' = Required
  BY DEF QInv, TypeOK, IsScenario, Required
<1>3. UNCHANGED checks => checks' \in [Branches -> [Required -> Outcome]]
  BY DEF QInv, TypeOK
<1> QED BY <1>1, <1>2, <1>3 DEF QInv, TypeOK, Base

LEMMA SameRemote ==
    ASSUME QInv, UNCHANGED remote, Required' = Required
    PROVE  RemoteGrows /\ HeadsKept /\ OnBase'
<1>1. /\ main' = main /\ ref' = ref /\ checks' = checks /\ prs' = prs
  BY DEF remote
<1>2. Tip \in Nat /\ \A b \in Branches : Len(prs[b]) \in Nat
  BY DEF QInv, TypeOK, Tip
<1>3. OnBase'
  BY <1>1 DEF QInv, OnBase, Landed, Tip
<1> QED BY <1>1, <1>2, <1>3 DEF RemoteGrows, HeadsKept, Tip

LEMMA Bystander ==
    ASSUME QInv, loop' = loop, RemoteGrows, HeadsKept, \A e \in Ids : Calm(e),
           OnBase', Others', TypeOK'
    PROVE  QInv'
<1>1. Rows' /\ (Active = {} => Active' = {})
  BY RowsCalm
<1>2. Hand'
  <2>1. CASE loop.pc \in Resting
    BY <2>1, HandResting
  <2>2. CASE loop.pc \notin Resting
    <3>1. loop.e \in Ids
      BY <2>2, InHandType
    <3>2. loop.pc = "stage" => Active = {}
      BY DEF QInv, Hand
    <3>3. loop.pc \in Settled => Landed(E.branch, TreeOf(E.branch, loop.cut))
      BY DEF QInv, Hand
    <3> QED BY <1>1, <2>2, <3>1, <3>2, <3>3, HandKept
  <2> QED BY <2>1, <2>2
<1> QED BY <1>1, <1>2 DEF QInv

(* The rows move by another hand, or keep still.                            *)
LEMMA SameRows ==
    ASSUME UNCHANGED entry
    PROVE  (\A e \in Ids : Calm(e))
           /\ \A e \in Ids : entry[e].state # "none" => entry'[e].state # "none"
BY DEF Calm

LEMMA CrashKept == ASSUME QInv, Crash PROVE QInv'
<1>1. UNCHANGED <<rows, work, remote, adm, op>> /\ loop' = Idle
      /\ IsScenario(scene') /\ Required' = Required
  BY SpendType DEF Crash, EndCycle, Events, Required
<1>2. RemoteGrows /\ HeadsKept /\ OnBase'
  BY <1>1, SameRemote
<1>3. Rows' /\ Others'
  BY <1>1, <1>2, SameRows, RowsCalm, OthersKept DEF rows
<1>4. Hand'
  BY <1>1, <1>2, HandResting DEF Idle, Resting
<1>5. TypeOK'
  BY <1>1, <1>2, Kept, Types, IdleType DEF rows, work, remote
<1> QED BY <1>2, <1>3, <1>4, <1>5 DEF QInv

LEMMA CommitsKept == ASSUME QInv, NEW b \in Branches, Commits(b) PROVE QInv'
<1>1. UNCHANGED <<rows, published, remote, loop, adm, op>>
      /\ IsScenario(scene') /\ Required' = Required
  BY SpendType DEF Commits, Events, Required
<1>2. RemoteGrows /\ HeadsKept /\ OnBase'
  BY <1>1, SameRemote
<1>3. tip' \in [Branches -> Work]
  <2>1. tip \in [Branches -> Work] /\ scene.work \in 0..MaxWork /\ MaxWork \in Nat
    BY MergeQueueAssumption DEF QInv, TypeOK, IsScenario
  <2>2. tip[b] + 1 \in Work
    BY <2>1 DEF Commits, Work
  <2> QED BY <2>1, <2>2 DEF Commits
<1>4. TypeOK'
  BY <1>1, <1>2, <1>3, Kept, Types DEF rows, remote
<1> QED BY <1>1, <1>2, <1>4, SameRows, OthersKept, Bystander DEF rows

LEMMA ResolveConflictKept == ASSUME QInv, NEW e \in Ids, ResolveConflict(e) PROVE QInv'
<1>1. UNCHANGED <<entry, cards, work, remote, loop, adm, op>>
      /\ IsScenario(scene') /\ Required' = Required
  BY SpendType DEF ResolveConflict, Events, Required
<1>2. RemoteGrows /\ HeadsKept /\ OnBase'
  BY <1>1, SameRemote
<1>3. artifact' \in [Ids -> {"none", "open", "done"}]
  BY DEF ResolveConflict, QInv, TypeOK
<1>4. TypeOK'
  BY <1>1, <1>2, <1>3, Kept, Types DEF work, remote
<1> QED BY <1>1, <1>2, <1>4, SameRows, OthersKept, Bystander

(* A row another hand writes: the clock, a withdrawal, a retry.             *)
LEMMA OneRow ==
    ASSUME QInv, NEW e \in Ids, NEW new \in Good, entry' = [entry EXCEPT ![e] = new],
           entry[e].state # "none", new.branch = entry[e].branch, new.pr = entry[e].pr,
           new.attempts = entry[e].attempts,
           \/ /\ new.state = entry[e].state /\ new.work = entry[e].work
              /\ new.staged = entry[e].staged
           \/ new.state \in QUEUED_STATES \cup RETRYABLE
    PROVE  /\ entry' \in [Ids -> Good] /\ \A x \in Ids : Calm(x)
           /\ \A x \in Ids : entry[x].state # "none" => entry'[x].state # "none"
<1>1. entry \in [Ids -> Good]
  BY GoodRows
<1>2. entry' \in [Ids -> Good] /\ entry'[e] = new /\ \A x \in Ids \ {e} : entry'[x] = entry[x]
  BY <1>1
<1>3. \A x \in Ids : x # e => Calm(x)
  BY <1>2 DEF Calm
<1>4. Calm(e)
  BY <1>2 DEF Calm
<1> QED BY <1>2, <1>3, <1>4 DEF QUEUED_STATES, RETRYABLE

LEMMA TimePassesKept == ASSUME QInv, NEW e \in Ids, TimePasses(e) PROVE QInv'
<1>1. UNCHANGED <<cards, artifact, work, remote, loop, adm, op, scene>>
      /\ entry[e].state # "none" /\ entry[e] \in Good
  BY GoodRows DEF TimePasses
<1>2. RemoteGrows /\ HeadsKept /\ OnBase' /\ IsScenario(scene') /\ Required' = Required
  BY <1>1, Kept, SameRemote
<1> DEFINE new == [entry[e] EXCEPT !.late = TRUE]
<1>3. entry' = [entry EXCEPT ![e] = new]
  BY GoodRows DEF TimePasses
<1>4. new \in Good
  <2>1. "queued" \in State
    BY DEF State, QUEUED_STATES
  <2> QED BY <1>1, <2>1, Facts, GoodUpdates
<1>5. /\ new.state = entry[e].state /\ new.branch = entry[e].branch /\ new.pr = entry[e].pr
      /\ new.work = entry[e].work /\ new.staged = entry[e].staged
      /\ new.attempts = entry[e].attempts
  BY <1>1 DEF Good, Entry
<1> HIDE DEF new
<1>6. /\ entry' \in [Ids -> Good] /\ \A x \in Ids : Calm(x)
      /\ \A x \in Ids : entry[x].state # "none" => entry'[x].state # "none"
  BY <1>1, <1>3, <1>4, <1>5, OneRow
<1>7. TypeOK'
  BY <1>1, <1>2, <1>6, Kept, Types DEF work, remote
<1> QED BY <1>1, <1>2, <1>6, <1>7, OthersKept, Bystander

LEMMA WithdrawKept == ASSUME QInv, NEW e \in Ids, Withdraw(e) PROVE QInv'
<1>1. UNCHANGED <<cards, artifact, work, remote, loop, adm, op>>
      /\ IsScenario(scene') /\ Required' = Required
      /\ entry[e].state # "none" /\ entry[e] \in Good
  BY GoodRows, SpendType DEF Withdraw, Events, Required, Cancellable
<1>2. RemoteGrows /\ HeadsKept /\ OnBase'
  BY <1>1, SameRemote
<1> DEFINE new == [entry[e] EXCEPT !.state = "withdrawn", !.blocked = FALSE]
<1>3. entry' = [entry EXCEPT ![e] = new]
  BY GoodRows DEF Withdraw
<1>4. new \in Good
  BY <1>1, Facts, GoodUpdates DEF State, TERMINAL_STATES
<1>5. /\ new.state = "withdrawn" /\ new.branch = entry[e].branch /\ new.pr = entry[e].pr
      /\ new.attempts = entry[e].attempts
  BY <1>1 DEF Good, Entry
<1> HIDE DEF new
<1>6. /\ entry' \in [Ids -> Good] /\ \A x \in Ids : Calm(x)
      /\ \A x \in Ids : entry[x].state # "none" => entry'[x].state # "none"
  BY <1>1, <1>3, <1>4, <1>5, OneRow DEF RETRYABLE
<1>7. TypeOK'
  BY <1>1, <1>2, <1>6, Kept, Types DEF work, remote
<1> QED BY <1>1, <1>2, <1>6, <1>7, OthersKept, Bystander

(* An operator's retry.                                                     *)
LEMMA RetryLooks == ASSUME QInv, NEW e \in Ids, RetryRead(e) \/ RetryAgain PROVE QInv'
<1>1. UNCHANGED <<rows, work, remote, loop, adm>> /\ IsScenario(scene') /\ Required' = Required
  BY SpendType, Kept DEF RetryRead, RetryAgain, Events, Required
<1>2. RemoteGrows /\ HeadsKept /\ OnBase'
  BY <1>1, SameRemote
<1>3. op' \in Op /\ (op'.pc # "idle" => op'.e \in Ids /\ entry[op'.e].state # "none")
  <2>1. CASE RetryRead(e)
    <3>1. entry[e].state \in State /\ entry[e].state # "none"
      BY <2>1, GoodRows DEF RetryRead, Good, Entry, RETRYABLE
    <3> QED BY <2>1, <3>1, NextPosition DEF RetryRead, Op
  <2>2. CASE RetryAgain
    <3>1. op \in Op /\ op.e \in Ids /\ entry[op.e].state # "none"
      BY <2>2 DEF RetryAgain, QInv, TypeOK, Others, IsRow
    <3>2. entry[op.e].state \in State
      BY <3>1, GoodRows DEF Good, Entry
    <3>3. NoOp \in Op
      BY DEF NoOp, Op, State
    <3>4. CASE op' = NoOp
      BY <3>3, <3>4 DEF NoOp
    <3>5. CASE op' = [op EXCEPT !.pc = "write", !.from = entry[op.e].state, !.pos = next_position]
      BY <3>1, <3>2, <3>5, NextPosition DEF Op
    <3> QED BY <2>2, <3>4, <3>5 DEF RetryAgain
  <2> QED BY <2>1, <2>2
<1>4. TypeOK'
  BY <1>1, <1>2, <1>3, Kept, Types DEF rows, work, remote
<1>5. Others'
  <2>1. entry' = entry /\ adm' = adm /\ prs' = prs
    BY <1>1 DEF rows, remote
  <2> QED BY <1>3, <2>1 DEF QInv, Others, IsRow, IsPr
<1> QED BY <1>1, <1>2, <1>4, <1>5, SameRows, Bystander DEF rows

LEMMA RetryWriteKept == ASSUME QInv, RetryWrite PROVE QInv'
<1>1. UNCHANGED <<cards, artifact, work, remote, loop, adm, scene>> /\ op.pc = "write"
      /\ op \in Op /\ op.e \in Ids /\ entry[op.e].state # "none" /\ entry[op.e] \in Good
  BY GoodRows DEF RetryWrite, QInv, TypeOK, Others, IsRow
<1>2. RemoteGrows /\ HeadsKept /\ OnBase' /\ IsScenario(scene') /\ Required' = Required
  BY <1>1, Kept, SameRemote
<1>3. op' \in Op /\ op'.e \in {op.e, 0} /\ (op'.pc # "idle" => op'.e = op.e)
  BY <1>1 DEF RetryWrite, Op, NoOp, State
<1>4. /\ entry' \in [Ids -> Good] /\ \A x \in Ids : Calm(x)
      /\ \A x \in Ids : entry[x].state # "none" => entry'[x].state # "none"
  <2>1. CASE entry' = entry
    BY <2>1, SameRows, GoodRows
  <2>2. CASE entry' = [entry EXCEPT ![op.e] = Retried(entry[op.e], op.pos)]
    <3> DEFINE new == Retried(entry[op.e], op.pos)
    <3>1. op.pos \in Nat /\ "queued" \in State
      BY <1>1 DEF Op, State, QUEUED_STATES
    <3>2. new \in Good
      BY <1>1, <3>1, Facts, GoodUpdates DEF Retried
    <3>3. new.state = "queued" /\ new.branch = entry[op.e].branch /\ new.pr = entry[op.e].pr
          /\ new.attempts = entry[op.e].attempts
      BY <1>1 DEF Retried, Good, Entry
    <3> HIDE DEF new
    <3>4. PICK e \in Ids : e = op.e
      BY <1>1
    <3> QED BY <1>1, <2>2, <3>2, <3>3, <3>4, OneRow DEF new, QUEUED_STATES
  <2> QED BY <2>1, <2>2, GoodRows DEF RetryWrite
<1>5. TypeOK'
  BY <1>1, <1>2, <1>3, <1>4, Kept, Types DEF work, remote
<1>6. Others'
  BY <1>1, <1>3, <1>4 DEF QInv, Others, IsRow, IsPr, remote
<1> QED BY <1>1, <1>2, <1>4, <1>5, <1>6, Bystander

(* An admission moves on.                                                   *)
LEMMA AdmitterMoves ==
    ASSUME QInv, RemoteGrows, NEW a \in Admitters, NEW x \in Adm,
           adm' = [adm EXCEPT ![a] = x], op' = op,
           \A e \in Ids : entry[e].state # "none" => entry'[e].state # "none",
           x.pc # "idle" => x.branch \in Branches,
           x.pc \in {"lookup", "repoint", "insert"} => x.pr \in 1..Len(prs'[x.branch]),
           x.pc = "repoint" => x.target \in Ids /\ entry'[x.target].state # "none",
           ~x.commit.queue
    PROVE  Others' /\ adm' \in [Admitters -> Adm]
<1>1. adm \in [Admitters -> Adm] /\ Tip \in Nat
  BY Facts DEF QInv, TypeOK
<1>2. adm' \in [Admitters -> Adm] /\ adm'[a] = x /\ \A y \in Admitters \ {a} : adm'[y] = adm[y]
  BY <1>1
<1>3. (op.pc # "idle" => IsRow(op.e))'
  BY DEF QInv, Others, IsRow
<1>4. ASSUME NEW y \in Admitters
      PROVE  (/\ adm[y].pc # "idle" => adm[y].branch \in Branches
              /\ adm[y].pc \in {"lookup", "repoint", "insert"} => IsPr(adm[y].branch, adm[y].pr)
              /\ adm[y].pc = "repoint" => IsRow(adm[y].target)
              /\ ~adm[y].commit.queue)'
  <2>1. CASE y = a
    BY <1>2, <2>1 DEF IsPr, IsRow
  <2>2. CASE y # a
    <3>1. adm'[y] = adm[y]
      BY <1>2, <2>2
    <3> QED BY <1>1, <3>1, Grown DEF QInv, Others, IsPr, IsRow
  <2> QED BY <2>1, <2>2
<1> QED BY <1>2, <1>3, <1>4 DEF Others

LEMMA AbsentType == Absent \in Adm /\ ~Absent.commit.queue /\ Absent.pc = "idle"
BY IdleType, MergeQueueAssumption DEF Absent, Adm, AdmPC, NoCommit, Work, State

(* ... and touches nothing but its locals, the scenario and ticket.landed_sha. *)
LEMMA AdmitterAlone ==
    ASSUME QInv, UNCHANGED <<rows, tip, remote, loop, op>>,
           published' \in [Branches -> Work], IsScenario(scene'), Required' = Required,
           NEW a \in Admitters, NEW x \in Adm, adm' = [adm EXCEPT ![a] = x],
           x.pc # "idle" => x.branch \in Branches,
           x.pc \in {"lookup", "repoint", "insert"} => IsPr(x.branch, x.pr),
           x.pc = "repoint" => IsRow(x.target),
           ~x.commit.queue
    PROVE  QInv'
<1>1. RemoteGrows /\ HeadsKept /\ OnBase'
  BY SameRemote
<1>2. entry' = entry /\ prs' = prs
  BY DEF rows, remote
<1>3. Others' /\ adm' \in [Admitters -> Adm]
  BY <1>1, <1>2, AdmitterMoves DEF IsPr, IsRow
<1>4. TypeOK'
  BY <1>1, <1>3, Kept, Types DEF rows, remote
<1> QED BY <1>1, <1>2, <1>3, <1>4, SameRows, Bystander

LEMMA PublishFailsKept == ASSUME QInv, NEW a \in Admitters, PublishFails(a) PROVE QInv'
<1>1. /\ UNCHANGED <<rows, tip, remote, loop, op>>
      /\ published' \in [Branches -> Work] /\ IsScenario(scene') /\ Required' = Required
      /\ adm' = [adm EXCEPT ![a] = Absent]
  BY Kept DEF PublishFails, work
<1> QED BY <1>1, AbsentType, AdmitterAlone

LEMMA StartPublishKept ==
    ASSUME QInv, NEW a \in Admitters, NEW b \in Branches, StartPublish(a, b) PROVE QInv'
<1> DEFINE c == [base |-> Tip, work |-> tip[b], queue |-> FALSE]
           x == [Absent EXCEPT !.pc = "push", !.publish = TRUE, !.branch = b, !.work = tip[b],
                               !.commit = c]
<1>1. /\ UNCHANGED <<rows, tip, remote, loop, op>> /\ published' \in [Branches -> Work]
      /\ adm' = [adm EXCEPT ![a] = x]
  BY Kept DEF StartPublish, work
<1>2. IsScenario(scene') /\ Required' = Required
  BY Kept, SpendType DEF StartPublish, Events, Required
<1>3. c \in Commit /\ tip[b] \in Work
  BY Facts DEF Commit, QInv, TypeOK
<1>4. x \in Adm /\ x.pc = "push" /\ x.branch = b /\ ~x.commit.queue
  BY <1>3, AbsentType DEF Absent, Adm, AdmPC
<1> HIDE DEF x
<1> QED BY <1>1, <1>2, <1>4, AdmitterAlone

LEMMA RequestKept ==
    ASSUME QInv, NEW a \in Admitters, NEW b \in Branches, Request(a, b) PROVE QInv'
<1> DEFINE x == [Absent EXCEPT !.pc = "lookup", !.branch = b, !.work = tip[b], !.pr = Len(prs[b])]
<1>1. /\ UNCHANGED <<rows, tip, remote, loop, op>> /\ published' \in [Branches -> Work]
      /\ IsScenario(scene') /\ Required' = Required /\ adm' = [adm EXCEPT ![a] = x]
  BY Kept, SpendType DEF Request, work, Events, Required
<1>2. tip[b] \in Work /\ Len(prs[b]) \in Nat /\ IsPr(b, Len(prs[b]))
  BY DEF Request, HasOpen, IsPr, QInv, TypeOK
<1>3. x \in Adm /\ x.pc = "lookup" /\ x.branch = b /\ x.pr = Len(prs[b]) /\ ~x.commit.queue
  BY <1>2, AbsentType DEF Absent, Adm, AdmPC, NoCommit
<1> HIDE DEF x
<1> QED BY <1>1, <1>2, <1>3, AdmitterAlone

LEMMA AdmittedType ==
    ASSUME QInv, NEW a \in Admitters, Admitted(a), adm[a].pc # "idle"
    PROVE  published' \in [Branches -> Work] /\ adm' = [adm EXCEPT ![a] = Absent]
<1>1. adm[a].work \in Work /\ published \in [Branches -> Work]
  BY DEF QInv, TypeOK, Adm
<1> QED BY <1>1 DEF Admitted

LEMMA LookupKept == ASSUME QInv, NEW a \in Admitters, Lookup(a) PROVE QInv'
<1>1. /\ UNCHANGED <<rows, tip, remote, loop, op>> /\ IsScenario(scene') /\ Required' = Required
      /\ adm[a].pc = "lookup"
  BY Kept DEF Lookup
<1>2. adm[a] \in Adm /\ adm \in [Admitters -> Adm] /\ adm[a].branch \in Branches
      /\ IsPr(adm[a].branch, adm[a].pr) /\ ~adm[a].commit.queue
  BY <1>1 DEF QInv, TypeOK, Others
<1>3. CASE Admitted(a)
  BY <1>1, <1>3, AdmittedType, AbsentType, AdmitterAlone
<1>4. CASE published' = published /\ adm' = [adm EXCEPT ![a].pc = "insert"]
  <2> DEFINE x == [adm[a] EXCEPT !.pc = "insert"]
  <2>1. x \in Adm /\ x.pc = "insert" /\ x.branch = adm[a].branch /\ x.pr = adm[a].pr
        /\ x.commit = adm[a].commit
    BY <1>2 DEF Adm, AdmPC
  <2>2. adm' = [adm EXCEPT ![a] = x]
    BY <1>2, <1>4
  <2> HIDE DEF x
  <2> QED BY <1>1, <1>2, <1>4, <2>1, <2>2, Kept, AdmitterAlone
<1>5. ASSUME NEW e \in First(live_for_pr(adm[a].branch, adm[a].pr)), published' = published,
             adm' = [adm EXCEPT ![a].pc = "repoint", ![a].target = e, ![a].from = entry[e].state]
      PROVE  QInv'
  <2>1. e \in Ids /\ entry[e].state # "none"
    BY DEF First, live_for_pr, Live, QUEUED_STATES, ACTIVE_STATES
  <2>2. entry[e].state \in State
    BY <2>1, GoodRows DEF Good, Entry
  <2> DEFINE x == [adm[a] EXCEPT !.pc = "repoint", !.target = e, !.from = entry[e].state]
  <2>3. x \in Adm /\ x.pc = "repoint" /\ x.branch = adm[a].branch /\ x.pr = adm[a].pr
        /\ x.commit = adm[a].commit /\ x.target = e
    BY <1>2, <2>1, <2>2 DEF Adm, AdmPC
  <2>4. adm' = [adm EXCEPT ![a] = x]
    BY <1>2, <1>5
  <2> HIDE DEF x
  <2> QED BY <1>1, <1>2, <1>5, <2>1, <2>3, <2>4, Kept, AdmitterAlone DEF IsRow
<1> QED BY <1>3, <1>4, <1>5 DEF Lookup

LEMMA RepointKept == ASSUME QInv, NEW a \in Admitters, Repoint(a) PROVE QInv'
<1>1. /\ UNCHANGED <<cards, artifact, tip, remote, loop, op>>
      /\ IsScenario(scene') /\ Required' = Required /\ adm[a].pc = "repoint"
  BY Kept DEF Repoint
<1>2. adm[a] \in Adm /\ adm \in [Admitters -> Adm] /\ adm[a].branch \in Branches
      /\ IsPr(adm[a].branch, adm[a].pr) /\ ~adm[a].commit.queue
      /\ adm[a].target \in Ids /\ entry[adm[a].target].state # "none" /\ adm[a].work \in Work
  BY <1>1 DEF QInv, TypeOK, Others, IsRow, Adm
<1>3. CASE adm' = [adm EXCEPT ![a] = Absent] /\ UNCHANGED <<entry, published>>
  BY <1>1, <1>3, Kept, AbsentType, AdmitterAlone DEF rows
<1>4. CASE /\ adm' = [adm EXCEPT ![a].pc = "lookup", ![a].target = 0, ![a].from = "none"]
           /\ UNCHANGED <<entry, published>>
  <2> DEFINE x == [adm[a] EXCEPT !.pc = "lookup", !.target = 0, !.from = "none"]
  <2>1. x \in Adm /\ x.pc = "lookup" /\ x.branch = adm[a].branch /\ x.pr = adm[a].pr
        /\ x.commit = adm[a].commit
    BY <1>2 DEF Adm, AdmPC, State
  <2>2. adm' = [adm EXCEPT ![a] = x]
    BY <1>2, <1>4
  <2> HIDE DEF x
  <2> QED BY <1>1, <1>2, <1>4, <2>1, <2>2, Kept, AdmitterAlone DEF rows
<1>5. ASSUME NEW e \in Ids, e = adm[a].target, Admitted(a),
             entry' = [entry EXCEPT ![e].state = "queued", ![e].blocked = FALSE,
                                    ![e].work = adm[a].work, ![e].staged = NoCommit,
                                    ![e].late = FALSE]
      PROVE  QInv'
  <2> DEFINE new == [entry[e] EXCEPT !.state = "queued", !.blocked = FALSE, !.work = adm[a].work,
                                     !.staged = NoCommit, !.late = FALSE]
  <2>1. entry' = [entry EXCEPT ![e] = new] /\ entry[e] \in Good
    BY <1>5, GoodRows
  <2>2. new \in Good
    BY <1>2, <2>1, Facts, GoodUpdates DEF State, QUEUED_STATES
  <2>3. /\ new.state = "queued" /\ new.branch = entry[e].branch /\ new.pr = entry[e].pr
        /\ new.attempts = entry[e].attempts
    BY <2>1 DEF Good, Entry
  <2> HIDE DEF new
  <2>4. /\ entry' \in [Ids -> Good] /\ \A x \in Ids : Calm(x)
        /\ \A x \in Ids : entry[x].state # "none" => entry'[x].state # "none"
    BY <1>2, <1>5, <2>1, <2>2, <2>3, OneRow DEF QUEUED_STATES
  <2>5. RemoteGrows /\ HeadsKept /\ OnBase'
    BY <1>1, SameRemote
  <2>6. published' \in [Branches -> Work] /\ Others' /\ adm' \in [Admitters -> Adm]
    BY <1>1, <1>5, <2>4, <2>5, AdmittedType, AbsentType, AdmitterMoves
  <2>7. TypeOK'
    BY <1>1, <2>4, <2>5, <2>6, Kept, Types DEF remote
  <2> QED BY <1>1, <2>4, <2>5, <2>6, <2>7, Bystander
<1> QED BY <1>2, <1>3, <1>4, <1>5 DEF Repoint

LEMMA InsertKept == ASSUME QInv, NEW a \in Admitters, Insert(a) PROVE QInv'
<1>1. /\ UNCHANGED <<cards, artifact, tip, remote, loop, op>>
      /\ IsScenario(scene') /\ Required' = Required /\ adm[a].pc = "insert" /\ Admitted(a)
  BY Kept DEF Insert
<1>2. adm[a].branch \in Branches /\ adm[a].pr \in Nat /\ adm[a].work \in Work
      /\ adm[a].pr \in 1..Len(prs[adm[a].branch])
  BY <1>1 DEF QInv, TypeOK, Others, Adm, IsPr
<1>3. CASE UNCHANGED entry
  BY <1>1, <1>3, AdmittedType, AbsentType, AdmitterAlone DEF rows
<1>4. ASSUME NEW i \in Ids, entry[i].state = "none",
             entry' = [entry EXCEPT ![i] =
                        [NoEntry EXCEPT !.state = "queued", !.branch = adm[a].branch,
                                        !.pr = adm[a].pr, !.work = adm[a].work,
                                        !.pos = next_position]]
      PROVE  QInv'
  <2> DEFINE new == [NoEntry EXCEPT !.state = "queued", !.branch = adm[a].branch,
                                    !.pr = adm[a].pr, !.work = adm[a].work,
                                    !.pos = next_position]
  <2>1. NoEntry \in Entry /\ NoEntry.staged = NoCommit /\ NoEntry.attempts = 0
    BY IdleType DEF NoEntry
  <2>2. "queued" \in State /\ NoCommit \in Commit /\ NoCommit.base \in 0..Tip /\ 0 <= MaxAttempts
    BY Facts DEF State, QUEUED_STATES, NoCommit
  <2>3. new \in Entry
    <3>1. /\ NoEntry \in Entry /\ "queued" \in State /\ next_position \in Nat
          /\ adm[a].branch \in Branches \cup {Nobody} /\ adm[a].pr \in Nat /\ adm[a].work \in Work
      BY <1>2, <2>1, <2>2, NextPosition
    <3> QED BY <3>1, ZenonT(60) DEF Entry
  <2>4. new.state = "queued" /\ new.branch = adm[a].branch /\ new.pr = adm[a].pr
        /\ new.staged = NoCommit /\ new.attempts = 0
    BY <2>1 DEF Entry
  <2> HIDE DEF new
  <2>5. new \in Good
    BY <2>2, <2>3, <2>4 DEF Good
  <2>6. entry \in [Ids -> Good] /\ entry' = [entry EXCEPT ![i] = new]
    BY <1>4, GoodRows DEF new
  <2>7. entry' \in [Ids -> Good] /\ entry'[i] = new /\ \A x \in Ids \ {i} : entry'[x] = entry[x]
    BY <2>5, <2>6
  <2>8. prs' = prs
    BY <1>1 DEF remote
  <2>9. \A x \in Ids : Calm(x) /\ (entry[x].state # "none" => entry'[x].state # "none")
    BY <1>2, <1>4, <2>4, <2>7, <2>8 DEF Calm, QUEUED_STATES
  <2>10. RemoteGrows /\ HeadsKept /\ OnBase'
    BY <1>1, SameRemote
  <2>11. published' \in [Branches -> Work] /\ Others' /\ adm' \in [Admitters -> Adm]
    BY <1>1, <2>9, <2>10, AdmittedType, AbsentType, AdmitterMoves
  <2>12. TypeOK'
    BY <1>1, <2>7, <2>10, <2>11, Kept, Types DEF remote
  <2> QED BY <1>1, <2>7, <2>9, <2>10, <2>11, <2>12, Bystander
<1> QED BY <1>3, <1>4 DEF Insert

-----------------------------------------------------------------------------
(* Steps on the remote.                                                     *)
LEMMA Remote ==
    ASSUME QInv
    PROVE  /\ Tip \in Nat /\ Tip >= 1 /\ main \in Base /\ main[Tip].tree \in Tree
           /\ ref \in [Branches -> Commit]
           /\ checks \in [Branches -> [Required -> Outcome]]
           /\ prs \in [Branches -> Seq(PullRequest)] /\ \A b \in Branches : Len(prs[b]) \in Nat
           /\ Unrun \in [Required -> Outcome]
<1>1. Tip \in Nat /\ Tip >= 1 /\ main \in Base /\ prs \in [Branches -> Seq(PullRequest)]
  BY Facts DEF QInv, TypeOK, Base
<1>2. main[Tip] \in [tree : Tree, by : Ids \cup {0}, branch : Branches \cup {Nobody}, work : Work]
  <2>1. Tip \in 1..Len(main)
    BY <1>1 DEF Tip
  <2> DEFINE S == [tree : Tree, by : Ids \cup {0}, branch : Branches \cup {Nobody}, work : Work]
  <2>2. main \in Seq(S)
    BY <1>1 DEF Base
  <2> HIDE DEF S
  <2>3. main[Tip] \in S
    BY <2>1, <2>2
  <2> QED BY <2>3 DEF S
<1>3. main[Tip].tree \in Tree
  BY <1>2
<1>4. Unrun \in [Required -> Outcome]
  BY DEF Unrun, Outcome
<1> QED BY <1>1, <1>3, <1>4 DEF QInv, TypeOK

LEMMA SameMain ==
    ASSUME QInv, UNCHANGED <<main, prs>>
    PROVE  RemoteGrows /\ OnBase'
<1>1. RemoteGrows
  BY Remote DEF RemoteGrows, Tip
<1>2. OnBase'
  BY DEF QInv, OnBase, Landed, Tip
<1> QED BY <1>1, <1>2

LEMMA PushedTypes ==
    ASSUME QInv, NEW b \in Branches, NEW c \in Commit, Pushed(b, c), Required' = Required
    PROVE  /\ ref' \in [Branches -> Commit] /\ checks' \in [Branches -> [Required -> Outcome]]
           /\ ~c.queue => HeadsKept
BY Remote DEF Pushed, HeadsKept

LEMMA PushStagedKept == ASSUME QInv, PushStaged PROVE QInv'
<1>1. /\ UNCHANGED <<rows, work, main, prs, adm, op, scene>> /\ loop.pc = "push"
      /\ loop.pc \notin Resting /\ loop.cut \in Commit /\ Pushed(E.branch, loop.cut)
  BY DEF PushStaged, Resting, QInv, TypeOK, Loop
<1>2. /\ loop' \in Loop /\ loop'.pc = "staged" /\ loop'.e = loop.e /\ loop'.cut = loop.cut
  BY GotoType DEF PushStaged, Goto, QInv, TypeOK, Loop, LoopPC
<1>3. RemoteGrows /\ OnBase' /\ IsScenario(scene') /\ Required' = Required
  BY <1>1, SameMain, Kept
<1>4. Calm(loop.e) /\ Rows' /\ Others'
  BY <1>1, <1>3, SameRows, RowsCalm, OthersKept, InHandType DEF rows
<1>5. Hand'
  BY <1>1, <1>2, <1>3, <1>4, HandKept DEF Cutting, Staged, Landing, Settled
<1>6. TypeOK'
  BY <1>1, <1>2, <1>3, Kept, PushedTypes, InHandType, Types DEF rows, work
<1> QED BY <1>3, <1>4, <1>5, <1>6 DEF QInv

LEMMA PushFailsKept == ASSUME QInv, PushFails PROVE QInv'
<1>1. /\ UNCHANGED <<cards, artifact, work, main, prs, adm, op>> /\ loop.pc = "push"
      /\ loop.pc \notin Resting /\ loop.cut \in Commit
  BY DEF PushFails, Resting, QInv, TypeOK, Loop
<1>2. IsScenario(scene') /\ Required' = Required
  BY Kept, SpendType DEF PushFails, Events, Required
<1>3. ref' \in [Branches -> Commit] /\ checks' \in [Branches -> [Required -> Outcome]]
  BY <1>1, <1>2, Kept, PushedTypes, InHandType DEF PushFails
<1>4. RemoteGrows /\ OnBase'
  BY <1>1, SameMain
<1>5. loop' \in Loop /\ loop'.pc \in Resting /\ loop'.cut \in {loop.cut, NoCommit}
  BY GotoType, IdleType
     DEF PushFails, Transition, Goto, EndCycle, Idle, QInv, TypeOK, Loop, LoopPC, Resting
<1>6. Hand'
  BY <1>4, <1>5, HandResting
<1>7. entry' \in [Ids -> Good] /\ Rows'
      /\ \A e \in Ids : entry[e].state # "none" => entry'[e].state # "none"
  <2>1. CASE UNCHANGED entry
    BY <2>1, <1>4, SameRows, RowsCalm, Kept
  <2>2. CASE /\ E.state = "staging"
             /\ entry' = [entry EXCEPT ![loop.e] = [E EXCEPT !.state = "queued", !.attempts = @ + 1]]
    <3> DEFINE new == [E EXCEPT !.state = "queued", !.attempts = @ + 1]
    <3>1. /\ entry \in [Ids -> Good] /\ loop.e \in Ids /\ E = entry[loop.e] /\ E \in Good
      BY <1>1, GoodRows, InHandType DEF E
    <3>2. E.attempts + 1 \in Nat /\ E.attempts + 1 <= MaxAttempts
      BY <1>1, <3>1, MergeQueueAssumption DEF QInv, Hand, Cutting, Good, Entry
    <3>3. new = [E EXCEPT !.state = "queued", !.attempts = E.attempts + 1]
      BY <3>1 DEF Good, Entry
    <3>4. new \in Good
      BY <3>1, <3>2, <3>3, Facts, GoodUpdates DEF State, QUEUED_STATES
    <3>5. /\ new.state = "queued" /\ new.branch = E.branch /\ new.pr = E.pr
      BY <3>1 DEF Good, Entry
    <3> HIDE DEF new
    <3>6. PICK x \in Ids : x = loop.e
      BY <3>1
    <3>7. entry' \in [Ids -> Good] /\ entry'[x] = new /\ \A e \in Ids \ {x} : entry'[e] = entry[e]
      BY <2>2, <3>1, <3>4, <3>6 DEF new
    <3>8. RowMoves(x)
      <4>1. \A e \in Ids : e # x => Calm(e)
        BY <3>7 DEF Calm
      <4>2. IsPr(entry[x].branch, entry[x].pr)'
        BY <1>1, <2>2, <3>1, <3>5, <3>6, <3>7 DEF QInv, Rows, IsPr
      <4> QED BY <3>5, <3>7, <4>1, <4>2 DEF RowMoves, ACTIVE_STATES
    <3>9. Rows'
      BY <1>4, <3>8, RowsKept
    <3> QED BY <2>2, <3>1, <3>5, <3>6, <3>7, <3>9
  <2> QED BY <2>1, <2>2 DEF PushFails, Transition
<1>8. Others'
  BY <1>1, <1>4, <1>7, OthersKept
<1>9. TypeOK'
  BY <1>1, <1>2, <1>3, <1>4, <1>5, <1>7, Kept, Types DEF work
<1> QED BY <1>4, <1>6, <1>7, <1>8, <1>9 DEF QInv

LEMMA PushPublishKept == ASSUME QInv, NEW a \in Admitters, PushPublish(a) PROVE QInv'
<1>1. /\ UNCHANGED <<rows, work, main, prs, loop, op, scene>> /\ adm[a].pc = "push"
      /\ Pushed(adm[a].branch, adm[a].commit) /\ adm' = [adm EXCEPT ![a].pc = "open"]
  BY DEF PushPublish
<1>2. adm[a] \in Adm /\ adm \in [Admitters -> Adm] /\ adm[a].branch \in Branches
      /\ adm[a].commit \in Commit /\ ~adm[a].commit.queue
  BY <1>1 DEF QInv, TypeOK, Others, Adm
<1> DEFINE x == [adm[a] EXCEPT !.pc = "open"]
<1>3. x \in Adm /\ x.pc = "open" /\ x.branch = adm[a].branch /\ x.commit = adm[a].commit
  BY <1>2 DEF Adm, AdmPC
<1>4. adm' = [adm EXCEPT ![a] = x]
  BY <1>1, <1>2
<1> HIDE DEF x
<1>5. RemoteGrows /\ OnBase' /\ IsScenario(scene') /\ Required' = Required
  BY <1>1, SameMain, Kept
<1>6. /\ ref' \in [Branches -> Commit] /\ checks' \in [Branches -> [Required -> Outcome]]
      /\ HeadsKept
  BY <1>1, <1>2, <1>5, PushedTypes
<1>7. Others' /\ adm' \in [Admitters -> Adm]
  BY <1>1, <1>2, <1>3, <1>4, <1>5, SameRows, AdmitterMoves DEF rows
<1>8. TypeOK'
  BY <1>1, <1>5, <1>6, <1>7, Kept, Types DEF rows, work
<1> QED BY <1>1, <1>5, <1>6, <1>7, <1>8, SameRows, Bystander DEF rows

LEMMA Appended ==
    ASSUME QInv, NEW c \in [tree : Tree, by : Ids \cup {0}, branch : Branches \cup {Nobody},
                            work : Work],
           main' = Append(main, c)
    PROVE  /\ main' \in Base /\ Tip' = Tip + 1 /\ main'[Tip + 1] = c
           /\ \A n \in 1..Tip : main'[n] = main[n]
           /\ \A n \in 1..Tip' : n \in 1..Tip \/ n = Tip + 1
<1> DEFINE S == [tree : Tree, by : Ids \cup {0}, branch : Branches \cup {Nobody}, work : Work]
<1>1. main \in Seq(S) /\ c \in S /\ Len(main) \in Nat
  BY Remote DEF Base, Tip
<1> HIDE DEF S
<1>2. /\ main' \in Seq(S) /\ Len(main') = Len(main) + 1 /\ main'[Len(main) + 1] = c
      /\ \A n \in 1..Len(main) : main'[n] = main[n]
  BY <1>1
<1>3. \A n \in 1..(Len(main) + 1) : n \in 1..Len(main) \/ n = Len(main) + 1
  BY <1>1
<1> QED BY <1>2, <1>3 DEF S, Base, Tip

(* A pull request of the branch changes.                                    *)
PrSet(b, n, p) == prs' = [prs EXCEPT ![b][n] = p]

LEMMA PrMoves ==
    ASSUME QInv, NEW b \in Branches, NEW n \in 1..Len(prs[b]), NEW p \in PullRequest,
           PrSet(b, n, p)
    PROVE  /\ prs' \in [Branches -> Seq(PullRequest)]
           /\ \A x \in Branches : Len(prs'[x]) = Len(prs[x])
           /\ \A x \in Branches : \A m \in 1..Len(prs'[x]) :
                 prs'[x][m] = prs[x][m] \/ (x = b /\ m = n /\ prs'[x][m] = p)
<1> DEFINE s == [prs[b] EXCEPT ![n] = p]
<1>1. prs \in [Branches -> Seq(PullRequest)] /\ prs[b] \in Seq(PullRequest)
  BY Remote
<1>2. s \in Seq(PullRequest) /\ Len(s) = Len(prs[b])
      /\ \A m \in 1..Len(s) : s[m] = prs[b][m] \/ (m = n /\ s[m] = p)
  BY <1>1
<1>3. prs' = [prs EXCEPT ![b] = s]
  BY <1>1 DEF PrSet
<1> HIDE DEF s
<1> QED BY <1>1, <1>2, <1>3

LEMMA SquashKept ==
    ASSUME QInv, NEW b \in Branches, NEW n \in 1..Len(prs[b]), NEW c \in Commit,
           NEW id \in Ids \cup {0}, Squash(b, n, c, id), checks' = checks, Required' = Required
    PROVE  /\ main' \in Base /\ prs' \in [Branches -> Seq(PullRequest)]
           /\ ref' \in [Branches -> Commit]
           /\ RemoteGrows /\ HeadsKept /\ OnBase'
<1> DEFINE tree == Merged(b, c.work, main[Tip].tree)
           new == [tree |-> tree, by |-> id, branch |-> b, work |-> c.work]
           p == [state |-> "merged", tree |-> tree]
<1>1. tree \in Tree
  <2>1. main[Tip].tree \in Tree /\ c.work \in Nat
    BY Remote, MergeQueueAssumption DEF Commit, Work
  <2>2. \A x \in Nat : Later(x, c.work) \in Nat
    BY <2>1 DEF Later
  <2> QED BY <2>1, <2>2 DEF Tree, Merged
<1>2. new \in [tree : Tree, by : Ids \cup {0}, branch : Branches \cup {Nobody}, work : Work]
      /\ p \in PullRequest
  BY <1>1 DEF PullRequest, Commit
<1>3. main' = Append(main, new) /\ PrSet(b, n, p)
  BY DEF Squash, PrSet
<1>4. /\ new.branch = b /\ new.tree = tree /\ p.tree = tree
  OBVIOUS
<1> HIDE DEF new, p, tree
<1>5. /\ main' \in Base /\ Tip' = Tip + 1 /\ main'[Tip + 1] = new /\ Tip \in Nat
      /\ \A m \in 1..Tip : main'[m] = main[m]
  BY <1>2, <1>3, Appended, Remote
<1>6. /\ prs' \in [Branches -> Seq(PullRequest)]
      /\ \A x \in Branches : Len(prs'[x]) = Len(prs[x])
      /\ \A x \in Branches : \A m \in 1..Len(prs'[x]) :
            prs'[x][m] = prs[x][m] \/ (x = b /\ m = n /\ prs'[x][m] = p)
  BY <1>2, <1>3, PrMoves
<1>7. RemoteGrows
  BY <1>5, <1>6, Remote DEF RemoteGrows
<1>8. ref' \in [Branches -> Commit] /\ HeadsKept
  <2>1. /\ ref \in [Branches -> Commit] /\ NoCommit \in Commit /\ ~NoCommit.queue
        /\ ref' = [ref EXCEPT ![b] = NoCommit] \/ ref' = ref
    BY Remote, IdleType DEF Squash, NoCommit
  <2>2. ref' \in [Branches -> Commit] /\ \A x \in Branches : ref'[x] \in {ref[x], NoCommit}
    BY <2>1
  <2> QED BY <2>1, <2>2 DEF HeadsKept
<1>9. OnBase'
  <2> SUFFICES ASSUME NEW x \in Branches, NEW m \in 1..Len(prs'[x]), prs'[x][m].state = "merged"
               PROVE  \E k \in 1..Tip' : main'[k].branch = x /\ main'[k].tree = prs'[x][m].tree
    BY DEF OnBase, Landed
  <2>1. CASE prs'[x][m] = prs[x][m]
    <3>1. \E k \in 1..Tip : main[k].branch = x /\ main[k].tree = prs[x][m].tree
      BY <1>6, <2>1 DEF QInv, OnBase, Landed
    <3> QED BY <1>5, <2>1, <3>1
  <2>2. CASE x = b /\ prs'[x][m] = p
    <3>1. Tip + 1 \in 1..Tip'
      BY <1>5
    <3> QED BY <1>4, <1>5, <2>2, <3>1
  <2> QED BY <1>6, <2>1, <2>2
<1> QED BY <1>5, <1>6, <1>7, <1>8, <1>9

LEMMA OutsideMergeKept == ASSUME QInv, NEW b \in Branches, OutsideMerge(b) PROVE QInv'
<1>1. /\ UNCHANGED <<rows, work, checks, loop, adm, op>>
      /\ IsScenario(scene') /\ Required' = Required
  BY SpendType DEF OutsideMerge, Events, Required
<1>2. Len(prs[b]) \in 1..Len(prs[b]) /\ ref[b] \in Commit /\ 0 \in Ids \cup {0}
  BY Remote DEF OutsideMerge, HasOpen
<1>3. /\ main' \in Base /\ prs' \in [Branches -> Seq(PullRequest)]
      /\ ref' \in [Branches -> Commit]
      /\ RemoteGrows /\ HeadsKept /\ OnBase'
  BY <1>1, <1>2, SquashKept DEF OutsideMerge
<1>4. Others'
  BY <1>1, <1>3, SameRows, OthersKept DEF rows
<1>5. TypeOK'
  BY <1>1, <1>3, Kept, Types DEF rows, work
<1> QED BY <1>1, <1>3, <1>4, <1>5, SameRows, Bystander DEF rows

LEMMA MergeKept == ASSUME QInv, Merge PROVE QInv'
<1>1. /\ UNCHANGED <<rows, work, checks, adm, op>> /\ loop.pc = "merge" /\ loop.pc \notin Resting
      /\ loop.cut \in Commit
  BY DEF Merge, Resting, QInv, TypeOK, Loop
<1>2. IsScenario(scene') /\ Required' = Required
  BY Kept, SpendType DEF Merge, Events, Required
<1>3. /\ main' \in Base /\ prs' \in [Branches -> Seq(PullRequest)]
      /\ ref' \in [Branches -> Commit]
      /\ RemoteGrows /\ HeadsKept /\ OnBase'
  BY <1>1, <1>2, InHandType, SquashKept DEF Merge
<1>4. /\ loop' \in Loop /\ loop'.pc \in {"confirm", "refused"} /\ loop'.e = loop.e
      /\ loop'.cut = loop.cut
  BY GotoType DEF Merge, Goto, QInv, TypeOK, Loop, LoopPC
<1>5. Calm(loop.e) /\ Rows' /\ Others'
  BY <1>1, <1>3, SameRows, RowsCalm, OthersKept, InHandType DEF rows
<1>6. Hand'
  BY <1>1, <1>3, <1>4, <1>5, HandKept DEF Cutting, Staged, Landing, Settled
<1>7. TypeOK'
  BY <1>1, <1>2, <1>3, <1>4, Kept, Types DEF rows, work
<1> QED BY <1>3, <1>5, <1>6, <1>7 DEF QInv

LEMMA OutsidePushKept == ASSUME QInv, OutsidePush PROVE QInv'
<1> DEFINE new == [tree |-> [main[Tip].tree EXCEPT ![Nobody] = @ + 1], by |-> 0,
                   branch |-> Nobody, work |-> 0]
<1>1. /\ UNCHANGED <<rows, work, ref, checks, prs, loop, adm, op>>
      /\ IsScenario(scene') /\ Required' = Required /\ main' = Append(main, new)
  BY SpendType DEF OutsidePush, Events, Required
<1>2. new \in [tree : Tree, by : Ids \cup {0}, branch : Branches \cup {Nobody}, work : Work]
  <2>1. [main[Tip].tree EXCEPT ![Nobody] = @ + 1] \in Tree
    BY Remote DEF Tree
  <2> QED BY <2>1, Facts
<1> HIDE DEF new
<1>3. /\ main' \in Base /\ Tip' = Tip + 1 /\ Tip \in Nat
      /\ \A m \in 1..Tip : main'[m] = main[m]
  BY <1>1, <1>2, Appended, Remote
<1>4. RemoteGrows
  <2>1. Tip' \in Nat /\ Tip <= Tip'
    BY <1>3
  <2>2. \A b \in Branches : Len(prs'[b]) \in Nat /\ Len(prs[b]) <= Len(prs'[b])
    BY <1>1, Remote
  <2> QED BY <1>3, <2>1, <2>2 DEF RemoteGrows
<1>5. HeadsKept
  BY <1>1 DEF HeadsKept
<1>6. OnBase'
  <2> SUFFICES ASSUME NEW x \in Branches, NEW m \in 1..Len(prs[x]), prs[x][m].state = "merged"
               PROVE  \E k \in 1..Tip' : main'[k].branch = x /\ main'[k].tree = prs[x][m].tree
    BY <1>1 DEF OnBase, Landed
  <2>1. \E k \in 1..Tip : main[k].branch = x /\ main[k].tree = prs[x][m].tree
    BY DEF QInv, OnBase, Landed
  <2> QED BY <1>3, <2>1
<1>7. Others'
  BY <1>1, <1>4, SameRows, OthersKept DEF rows
<1>8. TypeOK'
  BY <1>1, <1>3, <1>4, Kept, Types DEF rows, work
<1> QED BY <1>1, <1>4, <1>5, <1>6, <1>7, <1>8, SameRows, Bystander DEF rows

(* Closing a pull request, or opening one, merges none.                     *)
PrClosed(b) == prs' = [prs EXCEPT ![b][Len(prs[b])].state = "closed"]

LEMMA ClosedSet ==
    ASSUME QInv, NEW b \in Branches, HasOpen(b), PrClosed(b)
    PROVE  \E n \in 1..Len(prs[b]), p \in PullRequest : PrSet(b, n, p) /\ p.state = "closed"
<1> DEFINE n == Len(prs[b])
           p == [prs[b][n] EXCEPT !.state = "closed"]
<1>1. /\ n \in 1..Len(prs[b]) /\ prs[b] \in Seq(PullRequest)
      /\ prs \in [Branches -> Seq(PullRequest)]
  BY Remote DEF HasOpen
<1>2. prs[b][n] \in PullRequest
  BY <1>1
<1>3. p \in PullRequest /\ p.state = "closed"
  BY <1>2 DEF PullRequest
<1>4. PrSet(b, n, p)
  BY <1>1 DEF PrSet, PrClosed
<1> HIDE DEF n, p
<1> QED BY <1>1, <1>3, <1>4

LEMMA Closed ==
    ASSUME QInv, main' = main, NEW b \in Branches, HasOpen(b), PrClosed(b)
    PROVE  prs' \in [Branches -> Seq(PullRequest)] /\ RemoteGrows /\ OnBase'
<1>1. PICK n \in 1..Len(prs[b]), p \in PullRequest : PrSet(b, n, p) /\ p.state = "closed"
  BY ClosedSet
<1>2. /\ prs' \in [Branches -> Seq(PullRequest)]
      /\ \A x \in Branches : Len(prs'[x]) = Len(prs[x])
      /\ \A x \in Branches : \A m \in 1..Len(prs'[x]) :
            prs'[x][m] = prs[x][m] \/ (x = b /\ m = n /\ prs'[x][m] = p)
  BY <1>1, PrMoves
<1>3. RemoteGrows
  BY <1>2, Remote DEF RemoteGrows, Tip
<1>4. OnBase'
  BY <1>1, <1>2 DEF QInv, OnBase, Landed, Tip
<1> QED BY <1>2, <1>3, <1>4

LEMMA OutsideCloseKept == ASSUME QInv, NEW b \in Branches, OutsideClose(b) PROVE QInv'
<1>1. /\ UNCHANGED <<rows, work, main, ref, checks, loop, adm, op>>
      /\ IsScenario(scene') /\ Required' = Required
  BY SpendType DEF OutsideClose, Events, Required
<1>2. prs' \in [Branches -> Seq(PullRequest)] /\ RemoteGrows /\ OnBase'
  BY <1>1, Closed DEF OutsideClose, PrClosed
<1>3. HeadsKept
  BY <1>1 DEF HeadsKept
<1>4. Others'
  BY <1>1, <1>2, SameRows, OthersKept DEF rows
<1>5. TypeOK'
  BY <1>1, <1>2, Kept, Types DEF rows, work
<1> QED BY <1>1, <1>2, <1>3, <1>4, <1>5, SameRows, Bystander DEF rows

LEMMA CleanUpKept == ASSUME QInv, CleanUp PROVE QInv'
<1>1. /\ UNCHANGED <<rows, work, main, checks, adm, op, scene>> /\ loop.pc = "cleanup"
      /\ loop.pc \notin Resting /\ IsScenario(scene') /\ Required' = Required
  BY Kept DEF CleanUp, Resting
<1>2. E.branch \in Branches
  BY <1>1, InHandType
<1>3. ref' \in [Branches -> Commit] /\ HeadsKept
  <2>1. /\ ref \in [Branches -> Commit] /\ NoCommit \in Commit /\ ~NoCommit.queue
        /\ ref' = [ref EXCEPT ![E.branch] = NoCommit] \/ ref' = ref
    BY Remote, IdleType DEF CleanUp, NoCommit
  <2>2. ref' \in [Branches -> Commit] /\ \A x \in Branches : ref'[x] \in {ref[x], NoCommit}
    BY <1>2, <2>1
  <2> QED BY <1>1, <2>1, <2>2 DEF HeadsKept
<1>4. prs' \in [Branches -> Seq(PullRequest)] /\ RemoteGrows /\ OnBase'
  <2>1. CASE prs' = prs
    BY <1>1, <2>1, SameMain, Kept
  <2>2. CASE prs' # prs
    BY <1>1, <1>2, <2>2, Closed DEF CleanUp, PrClosed
  <2> QED BY <2>1, <2>2
<1>5. /\ loop' \in Loop /\ loop'.pc = "finish" /\ loop'.e = loop.e /\ loop'.cut = loop.cut
  BY GotoType DEF CleanUp, Goto, QInv, TypeOK, Loop, LoopPC
<1>6. Calm(loop.e) /\ Rows' /\ Others'
  BY <1>1, <1>4, SameRows, RowsCalm, OthersKept, InHandType DEF rows
<1>7. Hand'
  BY <1>1, <1>4, <1>5, <1>6, HandKept DEF Cutting, Staged, Landing, Settled
<1>8. TypeOK'
  BY <1>1, <1>3, <1>4, <1>5, Kept, Types DEF rows, work
<1> QED BY <1>4, <1>6, <1>7, <1>8 DEF QInv

LEMMA CheckReportsKept ==
    ASSUME QInv, NEW b \in Branches, NEW r \in Required, CheckReports(b, r) PROVE QInv'
<1>1. /\ UNCHANGED <<rows, work, main, ref, prs, loop, adm, op, scene>>
      /\ IsScenario(scene') /\ Required' = Required
  BY Kept DEF CheckReports
<1>2. PICK o \in Outcome : checks' = [checks EXCEPT ![b][r] = o] /\ checks[b][r] # "passing"
  BY DEF CheckReports, Outcome
<1>3. checks' \in [Branches -> [Required -> Outcome]]
  BY <1>2, Remote
<1>4. \A x \in Branches, q \in Required : checks[x][q] = "passing" => checks'[x][q] = "passing"
  BY <1>2, Remote
<1>5. HeadsKept
  BY <1>1, <1>4 DEF HeadsKept
<1>6. RemoteGrows /\ OnBase'
  BY <1>1, SameMain
<1>7. Others'
  BY <1>1, <1>6, SameRows, OthersKept DEF rows
<1>8. TypeOK'
  BY <1>1, <1>3, <1>6, Kept, Types DEF rows, work
<1> QED BY <1>1, <1>5, <1>6, <1>7, <1>8, SameRows, Bystander DEF rows

LEMMA OpenPrKept == ASSUME QInv, NEW a \in Admitters, OpenPr(a) PROVE QInv'
<1> DEFINE b == adm[a].branch
           n == Len(prs[b])
           p == [state |-> "open", tree |-> NoTree]
<1>1. /\ UNCHANGED <<rows, work, main, ref, checks, loop, op, scene>> /\ adm[a].pc = "open"
      /\ IsScenario(scene') /\ Required' = Required
  BY Kept DEF OpenPr
<1>2. adm[a] \in Adm /\ adm \in [Admitters -> Adm] /\ b \in Branches /\ ~adm[a].commit.queue
      /\ n \in Nat /\ prs \in [Branches -> Seq(PullRequest)] /\ prs[b] \in Seq(PullRequest)
  BY <1>1, Remote DEF QInv, TypeOK, Others
<1>3. HeadsKept
  BY <1>1 DEF HeadsKept
<1>4. PICK k \in {n, n + 1} :
         /\ adm' = [adm EXCEPT ![a].pc = "lookup", ![a].pr = k]
         /\ \/ k = n /\ prs' = prs /\ HasOpen(b)
            \/ k = n + 1 /\ prs' = [prs EXCEPT ![b] = Append(prs[b], p)]
  BY <1>2 DEF OpenPr
<1>5. /\ prs' \in [Branches -> Seq(PullRequest)] /\ RemoteGrows /\ OnBase' /\ k \in 1..Len(prs'[b])
  <2>1. CASE k = n /\ prs' = prs /\ HasOpen(b)
    <3>1. k \in 1..Len(prs'[b])
      BY <1>2, <2>1 DEF HasOpen
    <3> QED BY <1>1, <2>1, <3>1, Kept, SameMain
  <2>2. CASE k = n + 1 /\ prs' = [prs EXCEPT ![b] = Append(prs[b], p)]
    <3>1. p \in PullRequest /\ p.state = "open"
      BY DEF PullRequest, NoTree, Tree
    <3> HIDE DEF p
    <3> DEFINE s == Append(prs[b], p)
    <3>2. s \in Seq(PullRequest) /\ Len(s) = n + 1
          /\ \A m \in 1..Len(s) : s[m] = p \/ (m \in 1..n /\ s[m] = prs[b][m])
      BY <1>2, <3>1
    <3>3. prs' = [prs EXCEPT ![b] = s]
      BY <2>2
    <3> HIDE DEF s
    <3>4. prs' \in [Branches -> Seq(PullRequest)] /\ prs'[b] = s
          /\ \A x \in Branches \ {b} : prs'[x] = prs[x]
      BY <1>2, <3>2, <3>3
    <3>5. RemoteGrows
      <4>1. Tip' = Tip /\ main' = main /\ Tip \in Nat
        BY <1>1, Remote DEF Tip
      <4>2. ASSUME NEW x \in Branches
            PROVE  Len(prs'[x]) \in Nat /\ Len(prs[x]) <= Len(prs'[x])
        <5>1. CASE x = b
          BY <1>2, <3>2, <3>4, <5>1
        <5>2. CASE x # b
          <6>1. prs'[x] = prs[x]
            BY <3>4, <5>2
          <6> QED BY <6>1, Remote
        <5> QED BY <5>1, <5>2
      <4> QED BY <4>1, <4>2 DEF RemoteGrows
    <3>6. OnBase'
      <4> SUFFICES ASSUME NEW x \in Branches, NEW m \in 1..Len(prs'[x]),
                          prs'[x][m].state = "merged"
                   PROVE  Landed(x, prs'[x][m].tree)
        BY <1>1 DEF OnBase, Landed, Tip
      <4>1. m \in 1..Len(prs[x]) /\ prs'[x][m] = prs[x][m]
        BY <3>1, <3>2, <3>4
      <4> QED BY <4>1 DEF QInv, OnBase
    <3> QED BY <1>2, <2>2, <3>2, <3>4, <3>5, <3>6
  <2> QED BY <1>4, <2>1, <2>2
<1> DEFINE x == [adm[a] EXCEPT !.pc = "lookup", !.pr = k]
<1>6. x \in Adm /\ x.pc = "lookup" /\ x.branch = b /\ x.pr = k /\ x.commit = adm[a].commit
  <2>1. k \in Nat
    BY <1>2, <1>4
  <2> QED BY <1>2, <2>1 DEF Adm, AdmPC
<1>7. adm' = [adm EXCEPT ![a] = x]
  BY <1>2, <1>4
<1> HIDE DEF x
<1>8. Others' /\ adm' \in [Admitters -> Adm]
  BY <1>1, <1>2, <1>5, <1>6, <1>7, SameRows, AdmitterMoves DEF rows
<1>9. TypeOK'
  BY <1>1, <1>5, <1>8, Kept, Types DEF rows, work
<1> QED BY <1>1, <1>3, <1>5, <1>8, <1>9, SameRows, Bystander DEF rows

-----------------------------------------------------------------------------
(* The invariant: it holds at first, and every step preserves it.           *)
LEMMA InitQ == ASSUME Init PROVE QInv
<1> DEFINE m == [tree |-> NoTree, by |-> 0, branch |-> Nobody, work |-> 0]
<1>1. IsScenario(scene)
  BY MergeQueueAssumption DEF Init
<1>2. main \in Base /\ Tip = 1
  <2>1. m \in [tree : Tree, by : Ids \cup {0}, branch : Branches \cup {Nobody}, work : Work]
    BY MergeQueueAssumption DEF Tree, NoTree, Work
  <2> HIDE DEF m
  <2>2. main = <<m>>
    BY DEF Init, m
  <2> QED BY <2>1, <2>2 DEF Base, Tip
<1>3. /\ entry = [e \in Ids |-> NoEntry] /\ NoEntry \in Entry /\ NoEntry.state = "none"
      /\ NoEntry.staged.base = 0 /\ NoEntry.attempts = 0
  BY IdleType DEF Init, NoEntry, NoCommit
<1>4. /\ entry \in [Ids -> Entry]
      /\ \A e \in Ids : entry[e].state = "none" /\ entry[e].staged.base = 0
                        /\ entry[e].attempts = 0
  BY <1>3
<1>5. /\ loop \in Loop /\ loop.pc = "idle" /\ loop.cut.base = 0
  BY IdleType DEF Init, Idle, NoCommit
<1>6. /\ adm \in [Admitters -> Adm]
      /\ \A a \in Admitters : adm[a].pc = "idle" /\ ~adm[a].commit.queue
  BY AbsentType DEF Init
<1>7. op \in Op /\ op.pc = "idle"
  BY DEF Init, NoOp, Op, State
<1>8. /\ prs \in [Branches -> Seq(PullRequest)] /\ \A b \in Branches : Len(prs[b]) = 0
  BY DEF Init
<1>9. /\ ref \in [Branches -> Commit] /\ checks \in [Branches -> [Required -> Outcome]]
      /\ tip \in [Branches -> Work] /\ published \in [Branches -> Work]
      /\ artifact \in [Ids -> {"none", "open", "done"}] /\ cards \subseteq Branches \X Nat
  BY IdleType, MergeQueueAssumption DEF Init, Unrun, Outcome, Work
<1>10. TypeOK
  BY <1>1, <1>2, <1>4, <1>5, <1>6, <1>7, <1>8, <1>9, MergeQueueAssumption DEF TypeOK, Base
<1>11. Rows
  BY <1>2, <1>4 DEF Rows, OneActive, Active, ACTIVE_STATES
<1>12. Hand
  BY <1>2, <1>5 DEF Hand, Resting, Cutting, Staged, Landing, Settled
<1>13. OnBase
  BY <1>8 DEF OnBase
<1>14. Others
  BY <1>6, <1>7 DEF Others
<1> QED BY <1>10, <1>11, <1>12, <1>13, <1>14 DEF QInv

LEMMA StutterQ == ASSUME QInv, UNCHANGED vars PROVE QInv'
<1>1. /\ UNCHANGED <<rows, work, main, ref, checks, prs, loop, adm, op, scene>>
      /\ IsScenario(scene') /\ Required' = Required
  BY Kept DEF vars, remote, Required
<1>2. RemoteGrows /\ OnBase' /\ HeadsKept
  BY <1>1, SameMain DEF HeadsKept
<1>3. Others'
  BY <1>1, <1>2, SameRows, OthersKept DEF rows
<1>4. TypeOK'
  BY <1>1, <1>2, Kept, Types DEF rows, work
<1> QED BY <1>1, <1>2, <1>3, <1>4, SameRows, Bystander DEF rows

LEMMA StageQ == ASSUME QInv, StageStep PROVE QInv'
  BY BeginStagingKept, StopsKept, CutCleanKept, WalksKept, BlockOnArtifactKept, PushStagedKept,
     PushFailsKept, RecordStagedKept DEF StageStep

LEMMA WaitQ == ASSUME QInv, WaitStep PROVE QInv'
  BY StopsKept, WalksKept, AskGitHubKept, RestageKept, AdoptKept DEF WaitStep

LEMMA LandQ == ASSUME QInv, LandStep PROVE QInv'
  BY WalksKept, AdoptKept, StopsKept, MergeKept, MergeRefusedKept, ConfirmKept, CleanUpKept,
     FinishKept, ResumeKept DEF LandStep

LEMMA LoopQ == ASSUME QInv, LoopStep PROVE QInv'
<1>1. CASE Tick \/ RemindDone
  BY <1>1, CycleKept
<1>2. ASSUME NEW e \in Ids, Remind(e) PROVE QInv'
  BY <1>2, RemindKept
<1>3. CASE Pick
  BY <1>3, PickKept
<1> QED BY <1>1, <1>2, <1>3, StageQ, WaitQ, LandQ DEF LoopStep

LEMMA AdmitQ == ASSUME QInv, AdmitStep PROVE QInv'
<1> SUFFICES ASSUME NEW a \in Admitters,
                    \/ \E b \in Branches : StartPublish(a, b) \/ Request(a, b)
                    \/ PushPublish(a) \/ OpenPr(a) \/ PublishFails(a)
                    \/ Lookup(a) \/ Repoint(a) \/ Insert(a)
             PROVE  QInv'
  BY DEF AdmitStep
<1>1. ASSUME NEW b \in Branches, StartPublish(a, b) PROVE QInv'
  BY <1>1, StartPublishKept
<1>2. ASSUME NEW b \in Branches, Request(a, b) PROVE QInv'
  BY <1>2, RequestKept
<1> QED BY <1>1, <1>2, PushPublishKept, OpenPrKept, PublishFailsKept, LookupKept, RepointKept,
           InsertKept

LEMMA OperatorQ == ASSUME QInv, OperatorStep PROVE QInv'
<1>1. ASSUME NEW e \in Ids, Withdraw(e) PROVE QInv'
  BY <1>1, WithdrawKept
<1>2. ASSUME NEW e \in Ids, RetryRead(e) PROVE QInv'
  BY <1>2, RetryLooks
<1>3. CASE RetryAgain
  <2>1. op.e \in Ids
    BY <1>3 DEF RetryAgain, QInv, Others, IsRow
  <2> QED BY <1>3, <2>1, RetryLooks
<1> QED BY <1>1, <1>2, <1>3, RetryWriteKept DEF OperatorStep

LEMMA WorldQ == ASSUME QInv, WorldStep PROVE QInv'
<1>1. ASSUME NEW b \in Branches, Commits(b) \/ OutsideMerge(b) \/ OutsideClose(b) PROVE QInv'
  BY <1>1, CommitsKept, OutsideMergeKept, OutsideCloseKept
<1>2. ASSUME NEW b \in Branches, NEW r \in Required, CheckReports(b, r) PROVE QInv'
  BY <1>2, CheckReportsKept
<1>3. ASSUME NEW e \in Ids, TimePasses(e) \/ ResolveConflict(e) PROVE QInv'
  BY <1>3, TimePassesKept, ResolveConflictKept
<1> QED BY <1>1, <1>2, <1>3, OutsidePushKept DEF WorldStep

LEMMA StepKept == ASSUME QInv, [Next]_vars PROVE QInv'
<1>1. CASE LoopStep
  BY <1>1, LoopQ
<1>2. CASE Crash
  BY <1>2, CrashKept
<1>3. CASE AdmitStep
  BY <1>3, AdmitQ
<1>4. CASE OperatorStep
  BY <1>4, OperatorQ
<1>5. CASE WorldStep
  BY <1>5, WorldQ
<1>6. CASE UNCHANGED vars
  BY <1>6, StutterQ
<1> QED BY <1>1, <1>2, <1>3, <1>4, <1>5, <1>6 DEF Next

-----------------------------------------------------------------------------
(* Landing.  While GitHub is asked to merge, the row of the entry reads     *)
(* merging: nobody but the loop moves an entry out of merging, as long as   *)
(* no retry, after an IntegrityError, takes the state it then reads.        *)
Claimed ==
    /\ loop.pc = "merge" => E.state = "merging"
    /\ op.pc = "write" => op.from \in RETRYABLE
    /\ \A a \in Admitters : adm[a].pc = "repoint" => adm[a].from \in Cancellable

Pinned == \A e \in Ids : entry[e].state = "merging" => entry'[e].state = "merging"

(* Where GitHub is asked to merge, or has refused, or merged something else.*)
Doubtful == {"merge", "refused", "mismatch"}

LEMMA StageElsewhere == ASSUME QInv, StageStep PROVE loop'.pc \notin Doubtful /\ main' = main
<1> USE DEF Doubtful, Goto, EndCycle, Idle, Transition, Stop, remote, QInv, TypeOK, Loop
<1>1. CASE BeginStaging \/ GiveUp \/ CutClean \/ CutConflicted \/ CutUndetermined
  BY <1>1 DEF BeginStaging, GiveUp, CutClean, CutConflicted, CutUndetermined
<1>2. CASE RecordConflict \/ FileArtifact \/ BlockOnArtifact \/ ReportStopped
  BY <1>2 DEF RecordConflict, FileArtifact, BlockOnArtifact, ReportStopped
<1>3. CASE PushStaged \/ PushFails \/ RecordStaged
  BY <1>3 DEF PushStaged, PushFails, RecordStaged
<1> QED BY <1>1, <1>2, <1>3 DEF StageStep

LEMMA WaitElsewhere == ASSUME QInv, WaitStep PROVE loop'.pc \notin Doubtful /\ main' = main
<1> USE DEF Doubtful, Goto, EndCycle, Idle, Transition, Stop, Hold, remote, QInv, TypeOK, Loop
<1>1. CASE TimeOut \/ Unreachable \/ StopFailing
  BY <1>1 DEF TimeOut, Unreachable, StopFailing
<1>2. CASE AskGitHub
  <2>1. PrOf(loop.e) \in PullRequest
    BY <1>2, InHandType DEF AskGitHub, Resting
  <2>2. WaitVerdict(PrOf(loop.e), ref[E.branch], checks[E.branch]) \notin Doubtful
    BY <2>1 DEF WaitVerdict, PullRequest
  <2>3. loop \in Loop
    BY DEF QInv, TypeOK
  <2> HIDE DEF QInv, TypeOK
  <2>4. main' = main
    BY <1>2 DEF AskGitHub
  <2>5. PICK v : v = WaitVerdict(PrOf(loop.e), ref[E.branch], checks[E.branch])
    OBVIOUS
  <2>6. Hold("testing") \/ \E n \in 1..Tip : loop' = [loop EXCEPT !.pc = v, !.base = n]
    BY <1>2, <2>5 DEF AskGitHub
  <2>7. v \notin Doubtful
    BY <2>2, <2>5
  <2>8. CASE Hold("testing")
    <3>1. loop' = Idle \/ loop' = [loop EXCEPT !.pc = "pick"]
      BY <2>8
    <3> QED BY <2>3, <2>4, <3>1 DEF Idle
  <2>9. CASE \E n \in 1..Tip : loop' = [loop EXCEPT !.pc = v, !.base = n]
    BY <2>3, <2>4, <2>7, <2>9
  <2> QED BY <2>6, <2>8, <2>9
<1>3. CASE Restage \/ StopClosed \/ Adopt
  BY <1>3 DEF Restage, StopClosed, Adopt
<1> QED BY <1>1, <1>2, <1>3 DEF WaitStep

LEMMA LandElsewhere ==
    ASSUME QInv, LandStep, ~Merge, ~ClaimLanding
    PROVE  /\ loop'.pc # "merge" /\ main' = main
           /\ loop'.pc \in Doubtful => MergeFails \/ Confirm
<1> USE DEF Doubtful, Goto, EndCycle, Idle, Transition, Stop, remote, QInv, TypeOK, Loop
<1>1. CASE FetchBase \/ RefuseMismatch \/ MergeFails \/ MergeRefused
  BY <1>1 DEF FetchBase, RefuseMismatch, MergeFails, MergeRefused
<1>2. CASE Confirm \/ StopMismatch \/ CleanUp \/ Finish \/ CloseCard \/ Resume
  BY <1>2 DEF Confirm, StopMismatch, CleanUp, Finish, CloseCard, Resume
<1> QED BY <1>1, <1>2 DEF LandStep

LEMMA LoopElsewhere ==
    ASSUME QInv, LoopStep, ~Merge, ~ClaimLanding
    PROVE  /\ loop'.pc # "merge" /\ main' = main
           /\ loop'.pc \in Doubtful => MergeFails \/ Confirm
<1>1. CASE Tick \/ RemindDone \/ \E e \in Ids : Remind(e)
  BY <1>1 DEF Doubtful, Tick, RemindDone, Remind, Goto, Idle, remote, QInv, TypeOK, Loop
<1>2. CASE Pick
  <2>1. \A e \in head_entry : entry[e].state \in QUEUED_STATES \cup ACTIVE_STATES
    BY DEF head_entry, First, Live, Active
  <2>2. \A e \in head_entry : StepOf(entry[e].state) \notin Doubtful
    BY <2>1 DEF StepOf, QUEUED_STATES, ACTIVE_STATES, Doubtful
  <2>3. CASE loop' = Idle
    BY <1>2, <2>3 DEF Pick, Idle, remote, Doubtful
  <2>4. CASE loop' # Idle
    <3>1. PICK e \in head_entry :
             loop' = [loop EXCEPT !.e = e, !.seen = @ \cup {e}, !.cut = entry[e].staged,
                                  !.pc = StepOf(entry[e].state)]
      BY <1>2, <2>4 DEF Pick, EndCycle
    <3>2. PICK p : p = StepOf(entry[e].state) /\ p \notin Doubtful
      BY <2>2, <3>1
    <3>3. loop \in Loop
      BY DEF QInv, TypeOK
    <3>4. loop'.pc = p
      BY <3>1, <3>2, <3>3 DEF Loop
    <3> QED BY <1>2, <3>2, <3>4 DEF Pick, remote, Doubtful
  <2> QED BY <2>3, <2>4
<1> QED BY <1>1, <1>2, StageElsewhere, WaitElsewhere, LandElsewhere DEF LoopStep, Doubtful

LEMMA LoopAlone == ASSUME LoopStep PROVE op' = op /\ adm' = adm
<1>1. CASE Tick \/ RemindDone \/ Pick \/ \E e \in Ids : Remind(e)
  BY <1>1 DEF Tick, RemindDone, Pick, Remind
<1>2. CASE StageStep
  BY <1>2 DEF StageStep, BeginStaging, GiveUp, CutClean, CutConflicted, CutUndetermined,
              RecordConflict, FileArtifact, BlockOnArtifact, ReportStopped, PushStaged,
              PushFails, RecordStaged
<1>3. CASE WaitStep
  BY <1>3 DEF WaitStep, TimeOut, Unreachable, StopFailing, AskGitHub, Restage, StopClosed, Adopt
<1>4. CASE LandStep
  BY <1>4 DEF LandStep, FetchBase, ClaimLanding, RefuseMismatch, Merge, MergeFails,
              MergeRefused, Confirm, StopMismatch, CleanUp, Finish, CloseCard, Resume
<1> QED BY <1>1, <1>2, <1>3, <1>4 DEF LoopStep

LEMMA ClaimedByLoop == ASSUME QInv, Claimed, LoopStep PROVE Claimed'
<1>1. op' = op /\ adm' = adm
  BY LoopAlone
<1>2. loop'.pc = "merge" => E'.state = "merging"
  <2>1. CASE ClaimLanding
    <3>1. entry \in [Ids -> Entry] /\ loop.e \in Ids /\ E \in Entry /\ loop \in Loop
      BY <2>1, InHandType DEF ClaimLanding, Resting, QInv, TypeOK
    <3>2. PICK x \in Ids : x = loop.e
      BY <3>1
    <3>3. \/ loop' = [loop EXCEPT !.pc = "pick"]
          \/ /\ loop' = [loop EXCEPT !.pc = "merge"]
             /\ entry' = [entry EXCEPT ![x] = [entry[x] EXCEPT !.state = "merging",
                                                             !.blocked = FALSE]]
      BY <2>1, <3>2 DEF ClaimLanding, Transition, Goto, E
    <3>4. loop'.e = x /\ (loop'.pc = "merge" => entry'[x].state = "merging")
      <4>1. entry[x] \in Entry
        BY <3>1, <3>2
      <4> DEFINE new == [entry[x] EXCEPT !.state = "merging", !.blocked = FALSE]
      <4>2. new.state = "merging"
        BY <4>1 DEF Entry
      <4>3. loop'.e = x /\ loop'.pc \in {"pick", "merge"}
        BY <3>1, <3>2, <3>3 DEF Loop
      <4>4. CASE loop' = [loop EXCEPT !.pc = "pick"]
        BY <3>1, <4>3, <4>4 DEF Loop
      <4>5. CASE entry' = [entry EXCEPT ![x] = new]
        <5> HIDE DEF new
        <5>1. entry'[x] = new
          BY <3>1, <4>5
        <5> QED BY <4>2, <4>3, <5>1
      <4> QED BY <3>3, <4>4, <4>5
    <3> QED BY <3>4 DEF E
  <2>2. CASE Merge
    BY <2>2 DEF Merge, Goto, QInv, TypeOK, Loop
  <2> QED BY <2>1, <2>2, LoopElsewhere
<1> QED BY <1>1, <1>2 DEF Claimed

LEMMA OthersPin ==
    ASSUME QInv, Claimed, op.pc # "again", AdmitStep \/ OperatorStep \/ WorldStep
    PROVE  Pinned /\ loop' = loop
<1> USE DEF Pinned
<1> entry \in [Ids -> Entry]
  BY DEF QInv, TypeOK
<1>1. CASE AdmitStep
  <2>1. PICK a \in Admitters :
           \/ \E b \in Branches : StartPublish(a, b) \/ Request(a, b)
           \/ PushPublish(a) \/ OpenPr(a) \/ PublishFails(a)
           \/ Lookup(a) \/ Repoint(a) \/ Insert(a)
    BY <1>1 DEF AdmitStep
  <2>2. CASE \/ \E b \in Branches : StartPublish(a, b) \/ Request(a, b)
             \/ PushPublish(a) \/ OpenPr(a) \/ PublishFails(a) \/ Lookup(a)
    BY <2>2 DEF StartPublish, Request, PushPublish, OpenPr, PublishFails, Lookup, rows
  <2>3. CASE Repoint(a)
    BY <2>3 DEF Repoint, Claimed, Cancellable
  <2>4. CASE Insert(a)
    BY <2>4 DEF Insert
  <2> QED BY <2>1, <2>2, <2>3, <2>4
<1>2. CASE OperatorStep
  <2>1. ASSUME NEW e \in Ids, Withdraw(e) PROVE Pinned /\ loop' = loop
    BY <2>1 DEF Withdraw, Cancellable
  <2>2. ASSUME NEW e \in Ids, RetryRead(e) PROVE Pinned /\ loop' = loop
    BY <2>2 DEF RetryRead, rows
  <2>3. CASE RetryWrite
    BY <2>3 DEF RetryWrite, Claimed, RETRYABLE
  <2> QED BY <1>2, <2>1, <2>2, <2>3 DEF OperatorStep, RetryAgain
<1>3. CASE WorldStep
  <2>1. ASSUME NEW e \in Ids, TimePasses(e) PROVE Pinned /\ loop' = loop
    BY <2>1 DEF TimePasses, Entry
  <2> QED BY <1>3, <2>1 DEF WorldStep, Commits, OutsideMerge, OutsideClose, CheckReports,
                              ResolveConflict, OutsidePush, rows
<1> QED BY <1>1, <1>2, <1>3

LEMMA ClaimedStep ==
    ASSUME QInv, Claimed, [Next]_vars, op.pc # "again" PROVE Claimed'
<1>1. CASE LoopStep
  BY <1>1, ClaimedByLoop
<1>2. CASE AdmitStep \/ OperatorStep \/ WorldStep
  <2>1. loop'.pc = "merge" => E'.state = "merging"
    <3>1. Pinned /\ loop' = loop
      BY <1>2, OthersPin
    <3>2. loop.pc = "merge" => loop.e \in Ids
      BY InHandType DEF Resting
    <3> QED BY <3>1, <3>2 DEF Claimed, Pinned, E
  <2>2. op'.pc = "write" => op'.from \in RETRYABLE
    <3>1. CASE OperatorStep
      <4>1. op \in Op /\ NoOp.pc = "idle"
        BY DEF QInv, TypeOK, NoOp
      <4>2. ASSUME NEW e \in Ids, Withdraw(e) PROVE op' = op
        BY <4>2 DEF Withdraw
      <4>3. ASSUME NEW e \in Ids, RetryRead(e) PROVE op'.from \in RETRYABLE
        BY <4>3 DEF RetryRead
      <4>4. CASE RetryWrite
        BY <4>1, <4>4 DEF RetryWrite, Op
      <4>5. ~RetryAgain
        BY DEF RetryAgain
      <4> QED BY <3>1, <4>2, <4>3, <4>4, <4>5 DEF OperatorStep, Claimed
    <3>2. CASE AdmitStep
      BY <3>2 DEF AdmitStep, StartPublish, Request, PushPublish, OpenPr, PublishFails, Lookup,
                  Repoint, Insert, Claimed
    <3>3. CASE WorldStep
      BY <3>3 DEF WorldStep, Commits, OutsideMerge, OutsideClose, CheckReports, TimePasses,
                  ResolveConflict, OutsidePush, Claimed
    <3> QED BY <1>2, <3>1, <3>2, <3>3
  <2>3. \A a \in Admitters : adm'[a].pc = "repoint" => adm'[a].from \in Cancellable
    <3> adm \in [Admitters -> Adm]
      BY DEF QInv, TypeOK
    <3>1. CASE OperatorStep
      BY <3>1 DEF OperatorStep, Withdraw, RetryRead, RetryWrite, RetryAgain, Claimed
    <3>2. CASE AdmitStep
      <4>1. PICK x \in Admitters :
               \/ \E b \in Branches : StartPublish(x, b) \/ Request(x, b)
               \/ PushPublish(x) \/ OpenPr(x) \/ PublishFails(x)
               \/ Lookup(x) \/ Repoint(x) \/ Insert(x)
        BY <3>2 DEF AdmitStep
      <4>2. adm'[x].pc = "repoint" => adm'[x].from \in Cancellable
        <5>1. CASE \/ \E b \in Branches : StartPublish(x, b) \/ Request(x, b)
                   \/ PushPublish(x) \/ OpenPr(x) \/ PublishFails(x) \/ Repoint(x) \/ Insert(x)
          <6>1. Absent.pc = "idle" /\ adm[x] \in Adm /\ Absent \in Adm
            BY <4>1, AbsentType
          <6>2. ASSUME NEW b \in Branches, StartPublish(x, b) \/ Request(x, b)
                PROVE  adm'[x].pc # "repoint"
            <7>1. CASE StartPublish(x, b)
              BY <4>1, <7>1 DEF StartPublish, Absent
            <7>2. CASE Request(x, b)
              BY <4>1, <7>2 DEF Request, Absent
            <7> QED BY <6>2, <7>1, <7>2
          <6>3. CASE PublishFails(x) \/ Repoint(x) \/ Insert(x)
            BY <4>1, <6>1, <6>3 DEF PublishFails, Repoint, Insert, Admitted, Adm
          <6>4. CASE PushPublish(x) \/ OpenPr(x)
            BY <4>1, <6>1, <6>4 DEF PushPublish, OpenPr, Adm
          <6> QED BY <5>1, <6>2, <6>3, <6>4
        <5>2. CASE Lookup(x)
          <6>1. Absent.pc = "idle" /\ adm[x] \in Adm
            BY <4>1, AbsentType
          <6>2. CASE Admitted(x)
            BY <4>1, <6>1, <6>2 DEF Admitted
          <6>3. CASE adm' = [adm EXCEPT ![x].pc = "insert"]
            BY <4>1, <6>1, <6>3 DEF Adm
          <6>4. ASSUME NEW e, entry[e].state \in Cancellable,
                       adm' = [adm EXCEPT ![x].pc = "repoint", ![x].target = e,
                                          ![x].from = entry[e].state]
                PROVE  adm'[x].from \in Cancellable
            BY <4>1, <6>1, <6>4 DEF Adm
          <6>5. \A e \in First(live_for_pr(adm[x].branch, adm[x].pr)) :
                   entry[e].state # "merging" => entry[e].state \in Cancellable
            BY DEF First, live_for_pr, Live, QUEUED_STATES, ACTIVE_STATES, Cancellable
          <6> QED BY <5>2, <6>2, <6>3, <6>4, <6>5 DEF Lookup
        <5> QED BY <4>1, <5>1, <5>2
      <4>3. \A a \in Admitters \ {x} : adm'[a] = adm[a]
        BY <4>1 DEF StartPublish, Request, PushPublish, OpenPr, PublishFails, Lookup, Repoint,
                    Insert, Admitted
      <4> QED BY <4>2, <4>3 DEF Claimed
    <3>3. CASE WorldStep
      BY <3>3 DEF WorldStep, Commits, OutsideMerge, OutsideClose, CheckReports, TimePasses,
                  ResolveConflict, OutsidePush, Claimed
    <3> QED BY <1>2, <3>1, <3>2, <3>3
  <2> QED BY <2>1, <2>2, <2>3 DEF Claimed
<1>3. CASE Crash
  BY <1>3 DEF Crash, EndCycle, Idle, Claimed
<1>4. CASE UNCHANGED vars
  BY <1>4 DEF vars, rows, Claimed, E
<1> QED BY <1>1, <1>2, <1>3, <1>4 DEF Next

Lands == \A n \in (Tip + 1)..Tip' :
             main'[n].by # 0 =>
                LET r == entry[main'[n].by]
                IN  /\ r.state = "merging"
                    /\ r.branch = main'[n].branch
                    /\ r.work = main'[n].work

LEMMA LandsByMerge == ASSUME QInv, Claimed, Merge PROVE Lands
<1>1. loop.pc = "merge" /\ loop.pc \in Staged /\ loop.pc \notin Resting
  BY DEF Merge, Staged, Resting
<1>2. E.state = "merging" /\ loop.e \in Ids
  BY <1>1, InHandType DEF Claimed
<1>3. loop.cut = E.staged /\ E.staged.work = E.work
  BY <1>1, <1>2 DEF QInv, Hand, Rows, E
<1>4. main \in Base /\ Tip = Len(main)
  BY DEF QInv, TypeOK, Base, Tip
<1> DEFINE m == [tree |-> Merged(E.branch, loop.cut.work, main[Tip].tree), by |-> loop.e,
                 branch |-> E.branch, work |-> loop.cut.work]
<1>5. main' = Append(main, m)
  BY DEF Merge, Squash
<1>6. m.by = loop.e /\ m.branch = E.branch /\ m.work = E.work
  BY <1>3
<1> HIDE DEF m
<1>7. Tip' = Tip + 1 /\ main'[Tip'] = m /\ Tip \in Nat
  BY <1>4, <1>5 DEF Base, Tip
<1> QED BY <1>2, <1>6, <1>7 DEF Lands, E

LEMMA LandsStep == ASSUME QInv, Claimed, [Next]_vars PROVE Lands
<1>1. Tip \in Nat /\ main \in Base
  BY DEF QInv, TypeOK, Base, Tip
<1>2. main' = main => Lands
  BY <1>1 DEF Lands, Tip
<1>3. CASE LoopStep
  <2>1. CASE ClaimLanding
    BY <1>2, <2>1 DEF ClaimLanding, remote
  <2> QED BY <1>2, <1>3, <2>1, LandsByMerge, LoopElsewhere
<1>4. CASE Crash \/ UNCHANGED vars
  BY <1>2, <1>4 DEF Crash, vars, remote
<1>5. CASE AdmitStep
  BY <1>2, <1>5 DEF AdmitStep, StartPublish, Request, PushPublish, OpenPr, PublishFails, Lookup,
                    Repoint, Insert, remote
<1>6. CASE OperatorStep
  BY <1>2, <1>6 DEF OperatorStep, Withdraw, RetryRead, RetryWrite, RetryAgain, remote
<1>7. CASE WorldStep
  <2>1. ASSUME NEW m, m.by = 0, main' = Append(main, m) PROVE Lands
    BY <1>1, <2>1 DEF Lands, Tip, Base
  <2>2. CASE OutsidePush
    BY <2>1, <2>2 DEF OutsidePush
  <2>3. ASSUME NEW b \in Branches, OutsideMerge(b) PROVE Lands
    BY <2>1, <2>3 DEF OutsideMerge, Squash
  <2> QED BY <1>2, <1>7, <2>2, <2>3 DEF WorldStep, Commits, OutsideClose, CheckReports,
                                        TimePasses, ResolveConflict, remote
<1> QED BY <1>3, <1>4, <1>5, <1>6, <1>7 DEF Next

-----------------------------------------------------------------------------
(* The invariant the others follow from: whatever admissions, retries,      *)
(* withdrawals, restarts, pushes and merges by people interleave with the   *)
(* loop's transactions, what the rows and the loop hold stays true.         *)
THEOREM QueueInvariant == Spec => []QInv
<1>1. Init => QInv
  BY InitQ
<1>2. QInv /\ [Next]_vars => QInv'
  BY StepKept
<1> QED BY <1>1, <1>2, PTL DEF Spec

(* Every row, every commit, every pull request and every actor's locals     *)
(* keep their shape; a row counts no more attempts than                     *)
(* merge_queue_max_attempts, and what it names as staged was cut on a       *)
(* commit the base has.                                                     *)
THEOREM QueueTypeCorrect == Spec => []TypeOK
<1>1. QInv => TypeOK
  BY DEF QInv
<1> QED BY <1>1, QueueInvariant, PTL

(* head_entry and the swaps of _stage, _restage and retry let one candidate *)
(* be staged, tested or merged at a time.                                   *)
THEOREM OneCandidateAtATime == Spec => []OneActive
<1>1. QInv => OneActive
  BY DEF QInv, Rows
<1> QED BY <1>1, QueueInvariant, PTL

(* _land is reached only for a head whose required checks had all passed    *)
(* when it was asked about, and a head that is pushed anew is not the one   *)
(* it is about to land.                                                     *)
THEOREM LandedHeadsAreGreen == Spec => []LandsOnlyGreen
<1>1. QInv => LandsOnlyGreen
  BY DEF QInv, Hand, Landing, LandsOnlyGreen
<1> QED BY <1>1, QueueInvariant, PTL

(* _confirm_merged marks an entry merged only when the tree on the base is  *)
(* the one that was staged and tested: whoever merged it, and whatever the  *)
(* ruleset let in between the staging and the merge.                        *)
THEOREM MergedMeansTestedTree == Spec => []MergedLandedStagedTree
<1>1. QInv => MergedLandedStagedTree
  BY DEF QInv, Rows, Landed, MergedLandedStagedTree
<1> QED BY <1>1, QueueInvariant, PTL

(* What squash_merge lands, it lands for a row that is merging and that     *)
(* names exactly that work, as long as no retry runs into the               *)
(* IntegrityError after which it takes the state it then reads without      *)
(* judging it again.                                                        *)
THEOREM LandsForItsRow == Spec /\ [](op.pc # "again") => LandsWhatTheRowSays
<1>1. Init => Claimed
  BY DEF Init, Claimed, Idle, NoOp, Absent
<1>2. QInv /\ Claimed /\ op.pc # "again" /\ [Next]_vars => Claimed'
  BY ClaimedStep
<1>3. QInv /\ Claimed /\ [Next]_vars => [Lands]_vars
  BY LandsStep
<1>4. Spec /\ [](op.pc # "again") => []Claimed
  BY <1>1, <1>2, QueueInvariant, PTL DEF Spec
<1>5. Spec /\ []Claimed => [][Lands]_vars
  BY <1>3, QueueInvariant, PTL DEF Spec
<1>6. [][Lands]_vars => LandsWhatTheRowSays
  BY PTL DEF Lands, LandsWhatTheRowSays
<1> QED BY <1>4, <1>5, <1>6, PTL


-----------------------------------------------------------------------------
(* Withdrawing.  What the loop has landed for a row is not lost sight of:   *)
(* the row reads merging, and its pull request says that what was staged of *)
(* it was merged, until it reads merged.  Nobody but the loop takes it out  *)
(* of merging, and the loop takes it nowhere else.                          *)

(* The loop landed something for this row.                                  *)
HasLanded(e) == \E n \in 1..Tip : main[n].by = e

(* GitHub's answer to it says so.                                           *)
Told(e) == /\ PrOf(e).state = "merged"
           /\ PrOf(e).tree = TreeOf(entry[e].branch, entry[e].staged)

(* The base's ruleset wants an up-to-date head, and no answer is lost.      *)
Answered == scene.strict /\ scene.events["lost"] = 0

(* A landed row is merged, or on its way there; the loop never thinks that  *)
(* the landing of one was refused, or was another's.                        *)
Tracked ==
    /\ \A e \in Ids : HasLanded(e) =>
          entry[e].state = "merged" \/ (entry[e].state = "merging" /\ Told(e))
    /\ loop.pc \in Doubtful /\ E.state = "merging" => ~HasLanded(loop.e)

(* A pull request that reads merged stays as it is.                         *)
MergedStay ==
    \A b \in Branches : \A n \in 1..Len(prs[b]) :
        prs[b][n].state = "merged" => prs'[b][n] = prs[b][n]

(* A row that is merging or merged goes no way but on.                      *)
Onwards(e) ==
    /\ entry[e].state = "merged" => entry'[e].state = "merged"
    /\ entry[e].state = "merging" =>
          \/ entry'[e].state = "merged"
          \/ /\ entry'[e].state = "merging" /\ entry'[e].branch = entry[e].branch
             /\ entry'[e].pr = entry[e].pr /\ entry'[e].staged = entry[e].staged

(* A landed row that goes on stays tracked.                                 *)
LEMMA StaysTold ==
    ASSUME QInv, Tracked, RemoteGrows, MergedStay, NEW e \in Ids, HasLanded(e), Onwards(e)
    PROVE  entry'[e].state = "merged" \/ (entry'[e].state = "merging" /\ Told(e)')
<1>1. entry[e].state = "merged" \/ (entry[e].state = "merging" /\ Told(e))
  BY DEF Tracked
<1>2. CASE entry'[e].state # "merged"
  <2>1. /\ entry[e].state = "merging" /\ Told(e) /\ entry'[e].state = "merging"
        /\ entry'[e].branch = entry[e].branch /\ entry'[e].pr = entry[e].pr
        /\ entry'[e].staged = entry[e].staged
    BY <1>1, <1>2 DEF Onwards
  <2>2. IsPr(entry[e].branch, entry[e].pr) /\ IsCut(entry[e].staged) /\ Tip \in Nat
    BY <2>1, Remote DEF QInv, Rows
  <2>3. PrOf(e)' = PrOf(e)
    BY <2>1, <2>2 DEF Told, PrOf, MergedStay, IsPr
  <2>4. TreeOf(entry[e].branch, entry[e].staged)' = TreeOf(entry[e].branch, entry[e].staged)
    <3>1. PICK b, c : b = entry[e].branch /\ c = entry[e].staged
      OBVIOUS
    <3>2. TreeOf(b, c)' = TreeOf(b, c)
      BY <2>2, <3>1, Grown
    <3> QED BY <2>1, <3>1, <3>2 DEF TreeOf
  <2> QED BY <2>1, <2>3, <2>4 DEF Told
<1> QED BY <1>2

(* When nothing is landed for a row, it is enough that the rows go on.      *)
LEMMA TrackedKept ==
    ASSUME QInv, Tracked, RemoteGrows, MergedStay,
           \A e \in Ids : HasLanded(e)' => HasLanded(e),
           \A e \in Ids : HasLanded(e) => Onwards(e),
           loop'.pc \in Doubtful /\ E'.state = "merging"
              => loop'.e \in Ids /\ ~HasLanded(loop'.e)
    PROVE  Tracked'
<1>1. \A e \in Ids : HasLanded(e)' =>
         entry'[e].state = "merged" \/ (entry'[e].state = "merging" /\ Told(e)')
  BY StaysTold
<1>2. ASSUME loop'.pc \in Doubtful, E'.state = "merging"
      PROVE  ~HasLanded(loop.e)'
  <2>1. PICK x \in Ids : x = loop'.e /\ ~HasLanded(x)
    BY <1>2
  <2>2. ~HasLanded(x)'
    BY <2>1
  <2> QED BY <2>1, <2>2 DEF HasLanded
<1> QED BY <1>1, <1>2 DEF Tracked

(* Nobody else lands for a row.                                             *)
LEMMA NobodyLands ==
    ASSUME QInv, NEW e \in Ids,
           main' = main \/ \E m : m.by = 0 /\ main' = Append(main, m)
    PROVE  HasLanded(e)' => HasLanded(e)
<1>1. main \in Base /\ Tip = Len(main) /\ Tip \in Nat /\ e # 0
  BY Remote, MergeQueueAssumption DEF Tip
<1>2. CASE main' = main
  BY <1>2 DEF HasLanded, Tip
<1>3. ASSUME NEW m, m.by = 0, main' = Append(main, m) PROVE HasLanded(e)' => HasLanded(e)
  <2>1. /\ Len(main') = Len(main) + 1 /\ main'[Len(main) + 1] = m
        /\ \A n \in 1..Len(main) : main'[n] = main[n]
    BY <1>1, <1>3 DEF Base
  <2> QED BY <1>1, <1>3, <2>1 DEF HasLanded, Tip
<1> QED BY <1>2, <1>3

(* Of the others' rows: none takes one out of merging or merged, or into it.*)
LEMMA OthersOnwards ==
    ASSUME QInv, Claimed, op.pc # "again", AdmitStep \/ OperatorStep \/ WorldStep,
           NEW e \in Ids
    PROVE  Onwards(e) /\ (entry'[e].state = "merging" => entry[e].state = "merging")
<1> DEFINE Fine == Onwards(e) /\ (entry'[e].state = "merging" => entry[e].state = "merging")
<1> entry \in [Ids -> Entry]
  BY DEF QInv, TypeOK
<1>1. entry' = entry => Fine
  BY DEF Onwards
<1>2. ASSUME NEW x \in Ids, NEW r, entry' = [entry EXCEPT ![x] = r],
             entry[x].state \notin {"merging", "merged"}, r.state # "merging"
      PROVE  Fine
  BY <1>2 DEF Onwards
<1>3. CASE AdmitStep
  <2>1. PICK a \in Admitters :
           \/ \E b \in Branches : StartPublish(a, b) \/ Request(a, b)
           \/ PushPublish(a) \/ OpenPr(a) \/ PublishFails(a)
           \/ Lookup(a) \/ Repoint(a) \/ Insert(a)
    BY <1>3 DEF AdmitStep
  <2>2. CASE \/ \E b \in Branches : StartPublish(a, b) \/ Request(a, b)
             \/ PushPublish(a) \/ OpenPr(a) \/ PublishFails(a) \/ Lookup(a)
    BY <1>1, <2>2 DEF StartPublish, Request, PushPublish, OpenPr, PublishFails, Lookup, rows
  <2>3. CASE Repoint(a) /\ entry' # entry
    <3>1. PICK x, w : x = adm[a].target /\ w = adm[a].work
      OBVIOUS
    <3>2. /\ entry' = [entry EXCEPT ![x].state = "queued", ![x].blocked = FALSE,
                                    ![x].work = w, ![x].staged = NoCommit, ![x].late = FALSE]
          /\ entry[x].state = adm[a].from /\ adm[a].from \in Cancellable /\ x \in Ids
      BY <2>3, <3>1 DEF Repoint, Claimed, QInv, Others, IsRow
    <3> DEFINE r == [entry[x] EXCEPT !.state = "queued", !.blocked = FALSE, !.work = w,
                                     !.staged = NoCommit, !.late = FALSE]
    <3>3. r.state = "queued"
      BY <3>2 DEF Entry
    <3>4. entry' = [entry EXCEPT ![x] = r]
      BY <3>2
    <3> HIDE DEF r
    <3> QED BY <1>2, <3>2, <3>3, <3>4 DEF Cancellable
  <2>4. CASE Insert(a) /\ entry' # entry
    <3>1. PICK x \in Ids : /\ entry[x].state = "none"
                           /\ entry' = [entry EXCEPT ![x] =
                                [NoEntry EXCEPT !.state = "queued", !.branch = adm[a].branch,
                                                !.pr = adm[a].pr, !.work = adm[a].work,
                                                !.pos = next_position]]
      BY <2>4 DEF Insert
    <3>2. PICK r : r = [NoEntry EXCEPT !.state = "queued", !.branch = adm[a].branch,
                                       !.pr = adm[a].pr, !.work = adm[a].work,
                                       !.pos = next_position]
      OBVIOUS
    <3>3. r.state = "queued"
      BY <3>2 DEF NoEntry
    <3> QED BY <1>2, <3>1, <3>2, <3>3
  <2> QED BY <1>1, <2>1, <2>2, <2>3, <2>4
<1>4. CASE OperatorStep
  <2>1. ASSUME NEW x \in Ids, Withdraw(x) PROVE Fine
    <3> DEFINE r == [entry[x] EXCEPT !.state = "withdrawn", !.blocked = FALSE]
    <3>1. r.state = "withdrawn"
      BY DEF Entry
    <3>2. entry' = [entry EXCEPT ![x] = r] /\ entry[x].state \in Cancellable
      BY <2>1 DEF Withdraw
    <3> HIDE DEF r
    <3> QED BY <1>2, <3>1, <3>2 DEF Cancellable
  <2>2. CASE RetryWrite /\ entry' # entry
    <3>1. PICK x : x = op.e
      OBVIOUS
    <3>2. /\ entry[x].state = op.from /\ op.from \in RETRYABLE /\ x \in Ids
          /\ entry' = [entry EXCEPT ![x] = Retried(@, op.pos)]
      BY <2>2, <3>1 DEF RetryWrite, Claimed, QInv, Others, IsRow
    <3>3. entry' = [entry EXCEPT ![x] = Retried(entry[x], op.pos)]
      BY <3>2
    <3>4. Retried(entry[x], op.pos).state = "queued"
      BY <3>2 DEF Retried, Entry
    <3> QED BY <1>2, <3>2, <3>3, <3>4 DEF RETRYABLE
  <2> QED BY <1>1, <1>4, <2>1, <2>2 DEF OperatorStep, RetryRead, RetryAgain, rows
<1>5. CASE WorldStep
  <2>1. ASSUME NEW x \in Ids, TimePasses(x) PROVE Fine
    BY <2>1 DEF TimePasses, Entry, Onwards
  <2> QED BY <1>1, <1>5, <2>1 DEF WorldStep, Commits, OutsideMerge, OutsideClose, CheckReports,
                                  ResolveConflict, OutsidePush, rows
<1> QED BY <1>3, <1>4, <1>5

(* What is done to one pull request that does not read merged.              *)
LEMMA SetStays ==
    ASSUME QInv, NEW b \in Branches, NEW n \in 1..Len(prs[b]), NEW p \in PullRequest,
           PrSet(b, n, p), prs[b][n].state # "merged"
    PROVE  MergedStay
BY PrMoves DEF MergedStay

(* Closing one that is open.                                                *)
LEMMA CloseStays ==
    ASSUME QInv, NEW b \in Branches, HasOpen(b), PrClosed(b)
    PROVE  MergedStay
<1>1. prs \in [Branches -> Seq(PullRequest)] /\ Len(prs[b]) \in 1..Len(prs[b])
  BY Remote DEF HasOpen
<1>2. prs[b] \in Seq(PullRequest) /\ prs[b][Len(prs[b])].state = "open"
  BY <1>1 DEF HasOpen
<1> DEFINE n == Len(prs[b])
           p == [prs[b][n] EXCEPT !.state = "closed"]
<1>3. p \in PullRequest
  <2>1. prs[b][n] \in PullRequest
    BY <1>1, <1>2
  <2> QED BY <2>1 DEF PullRequest
<1>4. PrSet(b, n, p)
  BY <1>1 DEF PrSet, PrClosed
<1> HIDE DEF p
<1> QED BY <1>1, <1>2, <1>3, <1>4, SetStays

(* A squash merges one that is open.                                        *)
LEMMA SquashStays ==
    ASSUME QInv, NEW b \in Branches, NEW n \in 1..Len(prs[b]), NEW c \in Commit,
           NEW id \in Ids \cup {0}, Squash(b, n, c, id), prs[b][n].state = "open"
    PROVE  /\ MergedStay
           /\ prs'[b][n] = [state |-> "merged", tree |-> Merged(b, c.work, main[Tip].tree)]
<1> DEFINE tree == Merged(b, c.work, main[Tip].tree)
           p == [state |-> "merged", tree |-> tree]
<1>1. tree \in Tree
  <2>1. main[Tip].tree \in Tree /\ c.work \in Nat
    BY Remote, MergeQueueAssumption DEF Commit, Work
  <2>2. \A x \in Nat : Later(x, c.work) \in Nat
    BY <2>1 DEF Later
  <2> QED BY <2>1, <2>2 DEF Tree, Merged
<1>2. p \in PullRequest
  BY <1>1 DEF PullRequest
<1>3. PrSet(b, n, p) /\ prs \in [Branches -> Seq(PullRequest)]
  BY Remote DEF Squash, PrSet
<1> HIDE DEF p
<1>4. MergedStay
  BY <1>2, <1>3, SetStays
<1>5. prs'[b][n] = p
  <2>1. prs[b] \in Seq(PullRequest)
    BY <1>3
  <2>2. prs'[b] = [prs[b] EXCEPT ![n] = p]
    BY <1>3 DEF PrSet
  <2> QED BY <2>1, <2>2
<1> QED BY <1>4, <1>5 DEF p

(* What the others do to the remote.                                        *)
LEMMA OthersRemote ==
    ASSUME QInv, AdmitStep \/ OperatorStep \/ WorldStep
    PROVE  /\ RemoteGrows /\ MergedStay
           /\ main' = main \/ \E m : m.by = 0 /\ main' = Append(main, m)
<1>1. UNCHANGED <<main, prs>> => RemoteGrows /\ MergedStay
  BY SameMain DEF MergedStay
<1>2. CASE AdmitStep
  <2>1. PICK a \in Admitters :
           \/ \E b \in Branches : StartPublish(a, b) \/ Request(a, b)
           \/ PushPublish(a) \/ OpenPr(a) \/ PublishFails(a)
           \/ Lookup(a) \/ Repoint(a) \/ Insert(a)
    BY <1>2 DEF AdmitStep
  <2>2. CASE UNCHANGED <<main, prs>>
    BY <1>1, <2>2
  <2>3. CASE OpenPr(a) /\ prs' # prs
    <3>1. PICK b, p : b = adm[a].branch /\ p = [state |-> "open", tree |-> NoTree]
      OBVIOUS
    <3>2. /\ main' = main /\ ~HasOpen(b) /\ adm[a].pc = "open"
          /\ prs' = [prs EXCEPT ![b] = Append(prs[b], p)]
      BY <2>3, <3>1 DEF OpenPr
    <3>3. b \in Branches /\ Tip \in Nat /\ prs \in [Branches -> Seq(PullRequest)]
      BY <3>1, <3>2, Remote DEF QInv, Others
    <3>4. prs[b] \in Seq(PullRequest) /\ p \in PullRequest
      BY <3>1, <3>3 DEF PullRequest, NoTree, Tree
    <3> DEFINE s == Append(prs[b], p)
    <3>5. Len(s) = Len(prs[b]) + 1 /\ Len(prs[b]) \in Nat
          /\ \A n \in 1..Len(prs[b]) : s[n] = prs[b][n]
      BY <3>4
    <3>6. prs' = [prs EXCEPT ![b] = s]
      BY <3>2
    <3> HIDE DEF s
    <3>7. prs'[b] = s /\ \A x \in Branches \ {b} : prs'[x] = prs[x]
      BY <3>3, <3>6
    <3>8. MergedStay
      BY <3>5, <3>7 DEF MergedStay
    <3>9. \A x \in Branches : Len(prs'[x]) \in Nat /\ Len(prs[x]) <= Len(prs'[x])
      <4> SUFFICES ASSUME NEW x \in Branches
                   PROVE  Len(prs'[x]) \in Nat /\ Len(prs[x]) <= Len(prs'[x])
        OBVIOUS
      <4>1. CASE x = b
        BY <3>5, <3>7, <4>1
      <4>2. CASE x # b
        <5>1. prs'[x] = prs[x] /\ Len(prs[x]) \in Nat
          BY <3>7, <4>2, Remote
        <5> QED BY <5>1
      <4> QED BY <4>1, <4>2
    <3> QED BY <3>2, <3>3, <3>8, <3>9 DEF RemoteGrows, Tip
  <2> QED BY <2>1, <2>2, <2>3 DEF StartPublish, Request, PushPublish, OpenPr, PublishFails, Lookup,
                                  Repoint, Insert, remote
<1>3. CASE OperatorStep
  BY <1>1, <1>3 DEF OperatorStep, Withdraw, RetryRead, RetryWrite, RetryAgain, remote
<1>4. CASE WorldStep
  <2>1. ASSUME NEW b \in Branches, OutsideMerge(b)
        PROVE  RemoteGrows /\ MergedStay /\ \E m : m.by = 0 /\ main' = Append(main, m)
    <3>1. /\ Len(prs[b]) \in 1..Len(prs[b]) /\ ref[b] \in Commit /\ 0 \in Ids \cup {0}
          /\ prs[b][Len(prs[b])].state = "open"
      BY <2>1, Remote DEF OutsideMerge, HasOpen
    <3>2. checks' = checks /\ Required' = Required /\ Squash(b, Len(prs[b]), ref[b], 0)
      BY <2>1, SpendType DEF OutsideMerge, Events, Required
    <3>3. RemoteGrows /\ MergedStay
      BY <3>1, <3>2, SquashKept, SquashStays
    <3> DEFINE m == [tree |-> Merged(b, ref[b].work, main[Tip].tree), by |-> 0, branch |-> b,
                     work |-> ref[b].work]
    <3>4. main' = Append(main, m) /\ m.by = 0
      BY <3>2 DEF Squash
    <3> HIDE DEF m
    <3> QED BY <3>3, <3>4
  <2>2. ASSUME NEW b \in Branches, OutsideClose(b) PROVE RemoteGrows /\ MergedStay /\ main' = main
    BY <2>2, Closed, CloseStays DEF OutsideClose, PrClosed
  <2>3. CASE OutsidePush
    <3> DEFINE m == [tree |-> [main[Tip].tree EXCEPT ![Nobody] = @ + 1], by |-> 0,
                     branch |-> Nobody, work |-> 0]
    <3>1. main' = Append(main, m) /\ prs' = prs /\ m.by = 0
      BY <2>3 DEF OutsidePush
    <3>2. m \in [tree : Tree, by : Ids \cup {0}, branch : Branches \cup {Nobody}, work : Work]
      <4>1. [main[Tip].tree EXCEPT ![Nobody] = @ + 1] \in Tree
        BY Remote DEF Tree
      <4> QED BY <4>1, Facts
    <3> HIDE DEF m
    <3>3. /\ Tip' = Tip + 1 /\ Tip \in Nat /\ \A n \in 1..Tip : main'[n] = main[n]
          /\ \A b \in Branches : Len(prs[b]) \in Nat
      BY <3>1, <3>2, Appended, Remote
    <3>4. Tip' \in Nat /\ Tip <= Tip'
      BY <3>3
    <3>5. \A b \in Branches : Len(prs'[b]) \in Nat /\ Len(prs[b]) <= Len(prs'[b])
      BY <3>1, <3>3
    <3> QED BY <3>1, <3>3, <3>4, <3>5 DEF RemoteGrows, MergedStay
  <2> QED BY <1>1, <1>4, <2>1, <2>2, <2>3 DEF WorldStep, Commits, CheckReports, TimePasses,
                                              ResolveConflict, remote
<1> QED BY <1>2, <1>3, <1>4

(* No other process takes a row off the track the loop put it on.           *)
LEMMA OthersTracked ==
    ASSUME QInv, Claimed, Tracked, op.pc # "again", AdmitStep \/ OperatorStep \/ WorldStep
    PROVE  Tracked'
<1>1. /\ RemoteGrows /\ MergedStay /\ loop' = loop
      /\ \A e \in Ids : HasLanded(e)' => HasLanded(e)
  BY OthersRemote, OthersPin, NobodyLands
<1>2. \A e \in Ids : Onwards(e) /\ (entry'[e].state = "merging" => entry[e].state = "merging")
  BY OthersOnwards
<1>3. ASSUME loop'.pc \in Doubtful, E'.state = "merging"
      PROVE  loop'.e \in Ids /\ ~HasLanded(loop'.e)
  <2>1. loop.e \in Ids
    BY <1>1, <1>3, InHandType DEF Resting, Doubtful
  <2>2. E.state = "merging"
    BY <1>1, <1>2, <1>3, <2>1 DEF E
  <2> QED BY <1>1, <1>3, <2>1, <2>2 DEF Tracked
<1> QED BY <1>1, <1>2, <1>3, TrackedKept

(* The loop takes a row that is merging, and for which it has landed, to    *)
(* merged only: a refusal and a mismatch are about one it has not landed.   *)
LEMMA LoopOnwards ==
    ASSUME QInv, Tracked, LoopStep, NEW e \in Ids, HasLanded(e)
    PROVE  Onwards(e)
<1> DEFINE Early == {"queued", "staging", "testing", "failed"}
<1> entry \in [Ids -> Entry]
  BY DEF QInv, TypeOK
<1>1. entry' = entry => Onwards(e)
  BY DEF Onwards
<1>2. ASSUME NEW x \in Ids, NEW r, entry' = [entry EXCEPT ![x] = r],
             entry[x].state \notin {"merging", "merged"} \/ ~HasLanded(x) \/ r.state = "merged"
      PROVE  Onwards(e)
  <2>1. CASE e # x
    BY <1>2, <2>1 DEF Onwards
  <2>2. CASE e = x
    BY <1>2, <2>2 DEF Onwards
  <2> QED BY <2>1, <2>2
<1>3. ASSUME loop.pc \notin Resting, NEW r, E.state \in Early,
             entry' = [entry EXCEPT ![loop.e] = r]
      PROVE  Onwards(e)
  <2>1. PICK x \in Ids : x = loop.e
    BY <1>3, InHandType
  <2> QED BY <1>2, <1>3, <2>1 DEF E
<1>4. ASSUME loop.pc \notin Resting, NEW r, ~HasLanded(loop.e),
             entry' = [entry EXCEPT ![loop.e] = r]
      PROVE  Onwards(e)
  <2>1. PICK x \in Ids : x = loop.e
    BY <1>4, InHandType
  <2>2. ~HasLanded(x)
    BY <1>4, <2>1
  <2> QED BY <1>2, <1>4, <2>1, <2>2
<1>5. CASE \E x \in Ids : Remind(x)
  <2>1. PICK x \in Ids : Remind(x)
    BY <1>5
  <2>2. CASE entry' # entry
    <3>1. entry' = [entry EXCEPT ![x] = Retried(entry[x], next_position)]
          /\ entry[x].state \in RETRYABLE
      BY <2>1, <2>2 DEF Remind
    <3> QED BY <1>2, <3>1 DEF RETRYABLE
  <2> QED BY <1>1, <2>2
<1>6. CASE Tick \/ RemindDone \/ Pick
  BY <1>1, <1>6 DEF Tick, RemindDone, Pick, rows
<1>7. CASE StageStep
  <2>1. CASE BeginStaging \/ GiveUp \/ CutUndetermined \/ RecordConflict
    BY <1>1, <1>3, <2>1 DEF BeginStaging, GiveUp, CutUndetermined, RecordConflict, Transition, Stop,
                            Resting
  <2>2. CASE CutClean \/ CutConflicted \/ FileArtifact \/ ReportStopped \/ PushStaged
    BY <1>1, <2>2 DEF CutClean, CutConflicted, FileArtifact, ReportStopped, PushStaged, rows
  <2>3. CASE BlockOnArtifact
    <3>1. CASE E.state = "failed"
      <4>1. loop.e \in Ids /\ loop.pc \notin Resting
        BY <2>3, InHandType DEF BlockOnArtifact, Resting
      <4>2. PICK x \in Ids : x = loop.e /\ entry[x].state = "failed"
        BY <3>1, <4>1 DEF E
      <4>3. entry' = [entry EXCEPT ![x].blocked = TRUE, ![x].artifact = TRUE]
        BY <2>3, <3>1, <4>2 DEF BlockOnArtifact
      <4>4. e # x => entry'[e] = entry[e]
        BY <4>3
      <4> QED BY <4>2, <4>4 DEF Onwards
    <3>2. CASE E.state # "failed"
      BY <1>1, <2>3, <3>2 DEF BlockOnArtifact
    <3> QED BY <3>1, <3>2
  <2>4. CASE PushFails \/ RecordStaged
    BY <1>1, <1>3, <2>4 DEF PushFails, RecordStaged, Transition, Resting
  <2> QED BY <1>7, <2>1, <2>2, <2>3, <2>4 DEF StageStep
<1>8. CASE WaitStep
  <2>1. CASE TimeOut \/ StopFailing \/ StopClosed \/ Restage \/ Adopt
    BY <1>1, <1>3, <2>1 DEF TimeOut, StopFailing, StopClosed, Restage, Adopt, Transition, Stop, Resting
  <2>2. CASE Unreachable \/ AskGitHub
    BY <1>1, <2>2 DEF Unreachable, AskGitHub, rows
  <2> QED BY <1>8, <2>1, <2>2 DEF WaitStep
<1>9. CASE LandStep
  <2>1. CASE FetchBase \/ Merge \/ MergeFails \/ Confirm \/ CleanUp \/ CloseCard
    BY <1>1, <2>1 DEF FetchBase, Merge, MergeFails, Confirm, CleanUp, CloseCard, rows
  <2>2. CASE ClaimLanding
    BY <1>1, <1>3, <2>2 DEF ClaimLanding, Transition, Resting
  <2>3. CASE RefuseMismatch \/ MergeRefused \/ StopMismatch
    <3>1. loop.pc \in Doubtful /\ loop.pc \notin Resting
      BY <2>3 DEF RefuseMismatch, MergeRefused, StopMismatch, Doubtful, Resting
    <3>2. entry' = entry \/ (E.state = "merging" /\ \E r : entry' = [entry EXCEPT ![loop.e] = r])
      BY <2>3 DEF RefuseMismatch, MergeRefused, StopMismatch, Transition, Stop
    <3> QED BY <1>1, <1>4, <3>1, <3>2 DEF Tracked
  <2>4. CASE Finish
    <3>1. loop.pc \notin Resting /\ loop.e \in Ids /\ E \in Entry
      BY <2>4, InHandType DEF Finish, Resting
    <3> DEFINE r == [E EXCEPT !.state = "merged", !.blocked = FALSE]
    <3>2. r.state = "merged"
      BY <3>1 DEF Entry
    <3>3. entry' = entry \/ entry' = [entry EXCEPT ![loop.e] = r]
      BY <2>4 DEF Finish, Transition
    <3> HIDE DEF r
    <3>4. PICK x \in Ids : x = loop.e
      BY <3>1
    <3> QED BY <1>1, <1>2, <3>2, <3>3, <3>4
  <2>5. CASE Resume /\ entry' # entry
    <3>1. /\ loop.pc \notin Resting /\ PrOf(loop.e).state # "merged" /\ E.state = "merging"
          /\ \E r : entry' = [entry EXCEPT ![loop.e] = r]
      BY <2>5 DEF Resume, Transition, Resting
    <3>2. PICK x \in Ids : x = loop.e
      BY <3>1, InHandType
    <3>3. ~HasLanded(x)
      BY <3>1, <3>2 DEF Tracked, Told, E
    <3> QED BY <1>4, <3>1, <3>2, <3>3
  <2> QED BY <1>1, <1>9, <2>1, <2>2, <2>3, <2>4, <2>5 DEF LandStep
<1> QED BY <1>5, <1>6, <1>7, <1>8, <1>9 DEF LoopStep

(* What the loop does to the remote, but for a landing.                     *)
LEMMA LoopRemote ==
    ASSUME QInv, LoopStep, ~Merge
    PROVE  RemoteGrows /\ MergedStay /\ main' = main
<1>1. UNCHANGED <<main, prs>> => RemoteGrows /\ MergedStay
  BY SameMain DEF MergedStay
<1>2. CASE CleanUp
  <2>1. E.branch \in Branches /\ main' = main
    BY <1>2, InHandType DEF CleanUp, Resting
  <2>2. prs' = prs \/ (HasOpen(E.branch) /\ PrClosed(E.branch))
    BY <1>2 DEF CleanUp, PrClosed
  <2> QED BY <1>1, <2>1, <2>2, Closed, CloseStays
<1>3. CASE Tick \/ RemindDone \/ Pick \/ \E e \in Ids : Remind(e)
  BY <1>1, <1>3 DEF Tick, RemindDone, Pick, Remind, remote
<1>4. CASE StageStep
  BY <1>1, <1>4 DEF StageStep, BeginStaging, GiveUp, CutClean, CutConflicted, CutUndetermined,
              RecordConflict, FileArtifact, BlockOnArtifact, ReportStopped, PushStaged,
              PushFails, RecordStaged, remote
<1>5. CASE WaitStep
  BY <1>1, <1>5 DEF WaitStep, TimeOut, Unreachable, StopFailing, AskGitHub, Restage, StopClosed,
                    Adopt, remote
<1>6. CASE LandStep /\ ~CleanUp
  BY <1>1, <1>6 DEF LandStep, FetchBase, ClaimLanding, RefuseMismatch, MergeFails,
              MergeRefused, Confirm, StopMismatch, Finish, CloseCard, Resume, remote
<1> QED BY <1>2, <1>3, <1>4, <1>5, <1>6 DEF LoopStep

(* GitHub merged it: its row is merging, and the tree is the staged one,    *)
(* because the ruleset wanted the head cut on the very tip.                 *)
LEMMA MergeTracked ==
    ASSUME QInv, Claimed, Tracked, Answered, Merge
    PROVE  Tracked'
<1>1. /\ loop.pc = "merge" /\ loop.pc \notin Resting /\ loop.pc \in Staged
      /\ UNCHANGED <<entry, checks>> /\ Required' = Required
      /\ Mergeable(E.branch, E.pr, loop.cut) /\ Squash(E.branch, E.pr, loop.cut, loop.e)
  <2>1. Required' = Required
    BY SpendType, Kept DEF Merge, Events, Required
  <2> QED BY <2>1 DEF Merge, rows, Resting, Staged
<1>2. /\ loop.e \in Ids /\ E.branch \in Branches /\ E.pr \in 1..Len(prs[E.branch])
      /\ loop.cut \in Commit
  BY <1>1, InHandType DEF QInv, TypeOK, Loop
<1>3. E.state = "merging" /\ E.staged = loop.cut /\ IsCut(loop.cut)
  BY <1>1 DEF Claimed, QInv, Hand
<1>4. loop.cut.base = Tip /\ prs[E.branch][E.pr].state = "open"
  BY <1>1 DEF Mergeable, Answered
<1>5. RemoteGrows
  BY <1>1, <1>2, SquashKept
<1>6. /\ MergedStay
      /\ prs'[E.branch][E.pr]
           = [state |-> "merged", tree |-> Merged(E.branch, loop.cut.work, main[Tip].tree)]
  BY <1>1, <1>2, <1>4, SquashStays
<1>7. loop'.pc = "confirm" /\ loop' = [loop EXCEPT !.pc = "confirm"]
  <2>1. ~Spend("lost")
    BY DEF Answered, Spend
  <2>2. loop \in Loop
    BY DEF QInv, TypeOK
  <2> QED BY <2>1, <2>2 DEF Merge, Goto, Loop
<1>8. \A e \in Ids : e # loop.e => (HasLanded(e)' => HasLanded(e))
  <2> DEFINE m == [tree |-> Merged(E.branch, loop.cut.work, main[Tip].tree), by |-> loop.e,
                   branch |-> E.branch, work |-> loop.cut.work]
  <2>1. main' = Append(main, m) /\ m.by = loop.e
    BY <1>1 DEF Squash
  <2> HIDE DEF m
  <2>2. main \in Base /\ Tip = Len(main) /\ Tip \in Nat
    BY Remote DEF Tip
  <2>3. /\ Len(main') = Len(main) + 1 /\ main'[Len(main) + 1] = m
        /\ \A n \in 1..Len(main) : main'[n] = main[n]
    BY <2>1, <2>2 DEF Base
  <2> QED BY <2>1, <2>2, <2>3 DEF HasLanded, Tip
<1>9. ASSUME NEW e \in Ids, HasLanded(e)'
      PROVE  entry'[e].state = "merged" \/ (entry'[e].state = "merging" /\ Told(e)')
  <2>1. CASE e = loop.e
    <3>1. PICK b, c : b = E.branch /\ c = loop.cut
      OBVIOUS
    <3>2. entry[e].state = "merging" /\ entry[e].branch = b /\ entry[e].staged = c
          /\ entry[e].pr = E.pr
      BY <1>3, <2>1, <3>1 DEF E
    <3>3. TreeOf(b, c)' = TreeOf(b, c)
      BY <1>3, <1>5, <3>1, Remote, Grown
    <3>4. TreeOf(b, c) = Merged(b, c.work, main[Tip].tree)
      BY <1>4, <3>1 DEF TreeOf
    <3>5. PrOf(e)' = prs'[b][E.pr]
      BY <1>1, <3>2 DEF PrOf
    <3>6. PrOf(e)'.state = "merged" /\ PrOf(e)'.tree = TreeOf(b, c)'
      BY <1>6, <3>1, <3>3, <3>4, <3>5
    <3> QED BY <1>1, <3>2, <3>6 DEF Told, TreeOf
  <2>2. CASE e # loop.e
    <3>1. HasLanded(e) /\ Onwards(e)
      BY <1>1, <1>8, <1>9, <2>2 DEF Onwards
    <3> QED BY <1>5, <1>6, <3>1, StaysTold
  <2> QED BY <2>1, <2>2
<1> QED BY <1>7, <1>9 DEF Tracked, Doubtful

(* Where the loop comes to ask, or to doubt, it has not landed.             *)
LEMMA LoopTracked ==
    ASSUME QInv, Claimed, Tracked, Answered, LoopStep
    PROVE  Tracked'
<1>1. CASE Merge
  BY <1>1, MergeTracked
<1>2. CASE ~Merge
  <2>1. RemoteGrows /\ MergedStay /\ main' = main
    BY <1>2, LoopRemote
  <2>2. \A e \in Ids : HasLanded(e) => Onwards(e)
    BY LoopOnwards
  <2>3. \A e \in Ids : HasLanded(e)' => HasLanded(e)
    BY <2>1, NobodyLands
  <2>4. ASSUME loop'.pc \in Doubtful, E'.state = "merging"
        PROVE  loop'.e \in Ids /\ ~HasLanded(loop'.e)
    <3> loop \in Loop /\ entry \in [Ids -> Entry]
      BY DEF QInv, TypeOK
    <3>1. CASE ClaimLanding
      <4>1. PICK x \in Ids : x = loop.e
        BY <3>1, InHandType DEF ClaimLanding, Resting
      <4>2. loop'.e = x
        BY <3>1, <4>1 DEF ClaimLanding, Transition, Goto, Loop
      <4>3. E.state = "testing"
        BY <2>4, <3>1 DEF ClaimLanding, Transition, Goto, Loop, Doubtful
      <4>4. ~HasLanded(x)
        BY <4>1, <4>3 DEF Tracked, E
      <4> QED BY <4>2, <4>4
    <3>2. CASE MergeFails
      <4>1. loop.pc = "merge" /\ loop' = [loop EXCEPT !.pc = "refused"] /\ entry' = entry
        BY <3>2 DEF MergeFails, Goto, rows
      <4>2. loop'.e = loop.e /\ loop.e \in Ids /\ E.state = "merging"
        BY <4>1, InHandType DEF Loop, Resting, Claimed
      <4> QED BY <4>1, <4>2 DEF Tracked, Doubtful
    <3>3. CASE Confirm
      <4>1. /\ loop.pc = "confirm" /\ loop'.e = loop.e /\ entry' = entry /\ loop.pc \in Staged
            /\ loop'.pc = IF PrOf(loop.e).state = "merged"
                             /\ PrOf(loop.e).tree = TreeOf(E.branch, loop.cut)
                          THEN "cleanup" ELSE "mismatch"
        BY <3>3 DEF Confirm, Goto, rows, Loop, Staged
      <4>2. PICK x \in Ids : x = loop.e
        BY <4>1, InHandType DEF Resting
      <4>3. entry[x].state = "merging" /\ entry[x] = E
        BY <2>4, <4>1, <4>2 DEF E
      <4>4. entry[x].staged = loop.cut
        BY <4>1, <4>3 DEF QInv, Hand
      <4>5. ~Told(x)
        BY <2>4, <4>1, <4>2, <4>3, <4>4 DEF Told, Doubtful
      <4>6. ~HasLanded(x)
        BY <4>3, <4>5 DEF Tracked
      <4> QED BY <4>1, <4>2, <4>6
    <3> QED BY <1>2, <2>4, <3>1, <3>2, <3>3, LoopElsewhere
  <2> QED BY <2>1, <2>2, <2>3, <2>4, TrackedKept
<1> QED BY <1>1, <1>2

(* The ruleset stays, and what is not to happen does not.                   *)
LEMMA Spending ==
    ASSUME QInv, [Next]_vars
    PROVE  /\ scene'.strict = scene.strict
           /\ \A w \in Events : scene.events[w] = 0 => scene'.events[w] = 0
<1> DEFINE Falls == \A w \in Events : scene.events[w] = 0 => scene'.events[w] = 0
<1>1. ASSUME NEW what \in Events, Spend(what) PROVE scene'.strict = scene.strict /\ Falls
  <2>1. scene.events \in [Events -> Nat] /\ scene.events[what] > 0
    BY <1>1 DEF QInv, TypeOK, IsScenario, Spend
  <2>2. scene = [required |-> scene.required, strict |-> scene.strict,
                 conflicts |-> scene.conflicts, prs |-> scene.prs, work |-> scene.work,
                 events |-> scene.events]
    BY DEF QInv, TypeOK, IsScenario
  <2>3. scene' = [scene EXCEPT !.events = [scene.events EXCEPT ![what] = @ - 1]]
    BY <1>1 DEF Spend
  <2>4. scene'.strict = scene.strict
        /\ scene'.events = [scene.events EXCEPT ![what] = @ - 1]
    BY <2>2, <2>3
  <2>5. ASSUME NEW w \in Events, scene.events[w] = 0 PROVE scene'.events[w] = 0
    <3>1. w # what
      BY <2>1, <2>5
    <3> QED BY <2>1, <2>4, <2>5, <3>1
  <2> QED BY <2>4, <2>5
<1>2. UNCHANGED scene => scene'.strict = scene.strict /\ Falls
  OBVIOUS
<1>3. UNCHANGED scene \/ \E what \in Events : Spend(what)
  <2>1. CASE LoopStep
    <3>1. CASE Tick \/ RemindDone \/ Pick \/ \E e \in Ids : Remind(e)
      BY <3>1 DEF Tick, RemindDone, Pick, Remind
    <3>2. CASE StageStep
      BY <3>2 DEF StageStep, BeginStaging, GiveUp, CutClean, CutConflicted, CutUndetermined,
                  RecordConflict, FileArtifact, BlockOnArtifact, ReportStopped, PushStaged,
                  PushFails, RecordStaged, Events
    <3>3. CASE WaitStep
      BY <3>3 DEF WaitStep, TimeOut, Unreachable, StopFailing, AskGitHub, Restage, StopClosed, Adopt
    <3>4. CASE LandStep
      BY <3>4 DEF LandStep, FetchBase, ClaimLanding, RefuseMismatch, Merge, MergeFails,
                  MergeRefused, Confirm, StopMismatch, CleanUp, Finish, CloseCard, Resume, Events
    <3> QED BY <2>1, <3>1, <3>2, <3>3, <3>4 DEF LoopStep
  <2>2. CASE AdmitStep
    BY <2>2 DEF AdmitStep, StartPublish, Request, PushPublish, OpenPr, PublishFails, Lookup,
                Repoint, Insert, Events
  <2>3. CASE OperatorStep
    BY <2>3 DEF OperatorStep, Withdraw, RetryRead, RetryWrite, RetryAgain, Events
  <2>4. CASE WorldStep
    BY <2>4 DEF WorldStep, Commits, OutsideMerge, OutsideClose, OutsidePush, CheckReports,
                TimePasses, ResolveConflict, Events
  <2>5. CASE Crash \/ UNCHANGED vars
    BY <2>5 DEF Crash, vars, Events
  <2> QED BY <2>1, <2>2, <2>3, <2>4, <2>5 DEF Next
<1> QED BY <1>1, <1>2, <1>3

(* No answer is lost of the world that loses none.                          *)
LEMMA AnsweredKept == ASSUME QInv, Answered, [Next]_vars PROVE Answered'
BY Spending DEF Answered, Events

(* So every landed row stays on its track.                                  *)
LEMMA TrackedStep ==
    ASSUME QInv, Claimed, Tracked, Answered, op.pc # "again", [Next]_vars
    PROVE  Tracked'
<1>1. CASE LoopStep
  BY <1>1, LoopTracked
<1>2. CASE AdmitStep \/ OperatorStep \/ WorldStep
  BY <1>2, OthersTracked
<1>3. CASE Crash \/ UNCHANGED vars
  <2>1. UNCHANGED <<main, prs, entry>>
    BY <1>3 DEF Crash, vars, rows, remote
  <2>2. RemoteGrows /\ MergedStay
    BY <2>1, SameMain DEF MergedStay
  <2>3. \A e \in Ids : Onwards(e) /\ (HasLanded(e)' => HasLanded(e))
    BY <2>1, NobodyLands DEF Onwards
  <2>4. loop' = loop \/ loop'.pc = "idle"
    BY <1>3 DEF Crash, EndCycle, Idle, vars
  <2>5. ASSUME loop'.pc \in Doubtful, E'.state = "merging"
        PROVE  loop'.e \in Ids /\ ~HasLanded(loop'.e)
    <3>1. loop' = loop /\ loop.pc \notin Resting
      BY <2>4, <2>5 DEF Doubtful, Resting
    <3> QED BY <2>1, <2>5, <3>1, InHandType DEF Tracked, E
  <2> QED BY <2>2, <2>3, <2>5, TrackedKept
<1> QED BY <1>1, <1>2, <1>3 DEF Next

(* A withdrawal that succeeds means the work is not on the base by the      *)
(* queue's hand: withdraw swaps from a state before merging, and a row for  *)
(* which squash_merge succeeded goes from merging to merged, whatever       *)
(* crashes between the two.  This needs that GitHub's answers arrive and    *)
(* its ruleset is strict, and that no retry meets the IntegrityError after  *)
(* which it does not judge the row's state again.                           *)
THEOREM WithdrawnStaysOut ==
    Spec /\ Answered /\ [](op.pc # "again") => []WithdrawnNeverLanded
<1>1. Init => Claimed /\ Tracked
  <2>1. Init => Claimed
    BY DEF Init, Claimed, Idle, NoOp, Absent
  <2>2. ASSUME Init PROVE Tracked
    <3>1. loop.pc = "idle" /\ Tip = 1 /\ main[1].by = 0
      BY <2>2 DEF Init, Idle, Tip
    <3> QED BY <3>1, MergeQueueAssumption DEF Tracked, Doubtful, HasLanded
  <2> QED BY <2>1, <2>2
<1>2. QInv /\ Claimed /\ op.pc # "again" /\ [Next]_vars => Claimed'
  BY ClaimedStep
<1>3. QInv /\ Answered /\ [Next]_vars => Answered'
  BY AnsweredKept
<1>4. QInv /\ Claimed /\ Tracked /\ Answered /\ op.pc # "again" /\ [Next]_vars => Tracked'
  BY TrackedStep
<1>5. Tracked => WithdrawnNeverLanded
  BY DEF Tracked, HasLanded, WithdrawnNeverLanded
<1> QED BY <1>1, <1>2, <1>3, <1>4, <1>5, QueueInvariant, PTL DEF Spec


-----------------------------------------------------------------------------
(* The line.  A row that comes into the line takes a position after every   *)
(* other; one that is in it keeps its place.  The loop picks the first, and *)
(* nothing that happens before it begins to stage puts another before it.   *)

(* A row leaves the line, or stays where it is.                             *)
Stays(e) ==
    /\ entry'[e].pos = entry[e].pos
    /\ entry'[e].state \in ACTIVE_STATES => entry[e].state \in ACTIVE_STATES
    /\ entry'[e].state = "queued" => entry[e].state \in QUEUED_STATES \cup ACTIVE_STATES

(* Or comes in at the end of it.                                            *)
Joins(e) == entry'[e].state = "queued" /\ entry'[e].pos = next_position

(* No two in line have one position.                                        *)
Distinct == \A e, f \in Live : e # f => entry[e].pos # entry[f].pos

(* If it is in line, it is the first.                                       *)
Leads(e) == e \in Live => \A f \in Live : e = f \/ entry[e].pos < entry[f].pos

(* The line is in order, and so is what the loop is about to stage.         *)
Line ==
    /\ Distinct /\ ActiveIsFirst
    /\ loop.pc = "stage" => Leads(loop.e)

(* No operator retries.                                                     *)
Unretried == op.pc = "idle" /\ scene.events["retry"] = 0

(* The next position is after all that were used.                           *)
LEMMA NextAbove ==
    ASSUME QInv
    PROVE  next_position \in Nat /\ \A e \in Ids : entry[e].pos \in Nat /\ entry[e].pos < next_position
<1> DEFINE U == {entry[e].pos : e \in Ids} \cup {0}
           f == [e \in Ids |-> entry[e].pos]
<1>1. f \in [Ids -> Nat] /\ IsFiniteSet(Ids)
  BY MergeQueueAssumption DEF QInv, TypeOK, Entry
<1>2. \A e \in Ids : f[e] = entry[e].pos
  OBVIOUS
<1> HIDE DEF f
<1>3. PICK b \in Nat : \A e \in Ids : f[e] <= b
  BY <1>1, Bounded
<1>4. U \in SUBSET Nat /\ U # {} /\ \A u \in U : u <= b
  BY <1>1, <1>2, <1>3
<1>5. \A e \in Ids : entry[e].pos \in U
  OBVIOUS
<1> HIDE DEF U
<1>6. \E p \in U : \A q \in U : q <= p
  BY <1>4, GreatestExists
<1> DEFINE top == CHOOSE p \in U : \A q \in U : q <= p
<1>7. top \in U /\ \A q \in U : q <= top
  BY <1>6
<1>8. next_position = 1 + top
  BY DEF next_position, U
<1> HIDE DEF top
<1>9. top \in Nat /\ \A e \in Ids : entry[e].pos \in Nat /\ entry[e].pos <= top
  BY <1>4, <1>5, <1>7
<1> QED BY <1>8, <1>9

(* The line, when one row moves.                                            *)
LEMMA LineKept ==
    ASSUME QInv, Distinct, ActiveIsFirst, NEW x \in Ids,
           \A e \in Ids : e # x => Stays(e), Stays(x) \/ Joins(x)
    PROVE  /\ Distinct' /\ ActiveIsFirst'
           /\ \A y \in Ids : Leads(y) /\ Stays(y) => Leads(y)'
<1>1. next_position \in Nat /\ \A e \in Ids : entry[e].pos \in Nat /\ entry[e].pos < next_position
  BY NextAbove
<1>2. ASSUME NEW e \in Ids, e \in Live'
      PROVE  \/ e = x /\ Joins(x) /\ e \notin Active'
             \/ Stays(e) /\ e \in Live /\ (e \in Active' => e \in Active)
  BY <1>2 DEF Live, Active, Stays, Joins, QUEUED_STATES, ACTIVE_STATES
<1>3. \A e \in Live' : e \in Ids
  BY DEF Live
<1>4. Distinct'
  BY <1>1, <1>2, <1>3 DEF Distinct, Stays, Joins
<1>5. ActiveIsFirst'
  <2>1. \A e \in Active' : e \in Live'
    BY DEF Active, Live
  <2> QED BY <1>1, <1>2, <1>3, <2>1 DEF ActiveIsFirst, Stays, Joins
<1>6. \A y \in Ids : Leads(y) /\ Stays(y) => Leads(y)'
  <2> SUFFICES ASSUME NEW y \in Ids, Leads(y), Stays(y), y \in Live',
                      NEW g \in Live', y # g
               PROVE  entry'[y].pos < entry'[g].pos
    BY DEF Leads
  <2>1. y \in Live
    BY DEF Live, Stays, QUEUED_STATES, ACTIVE_STATES
  <2> QED BY <1>1, <1>2, <1>3, <2>1 DEF Leads, Stays, Joins
<1> QED BY <1>4, <1>5, <1>6

(* The line, when none does.                                                *)
LEMMA LineSame ==
    ASSUME Line, UNCHANGED entry, loop' = loop \/ loop'.pc # "stage"
    PROVE  Line'
BY DEF Line, Distinct, ActiveIsFirst, Leads, Live, Active

(* A step of the others.                                                    *)
LEMMA OthersLine ==
    ASSUME QInv, Claimed, Unretried, Line, AdmitStep \/ OperatorStep \/ WorldStep
    PROVE  Line'
<1> DEFINE Moved == \E x \in Ids : /\ \A e \in Ids : e # x => entry'[e] = entry[e]
                                   /\ Stays(x) \/ (Joins(x) /\ entry[x].state = "none")
<1> entry \in [Ids -> Entry]
  BY DEF QInv, TypeOK
<1>1. loop' = loop
  BY OthersPin DEF Unretried
<1>2. entry' = entry \/ Moved
  <2>1. CASE AdmitStep
    <3>1. PICK a \in Admitters :
             \/ \E b \in Branches : StartPublish(a, b) \/ Request(a, b)
             \/ PushPublish(a) \/ OpenPr(a) \/ PublishFails(a)
             \/ Lookup(a) \/ Repoint(a) \/ Insert(a)
      BY <2>1 DEF AdmitStep
    <3>2. CASE \/ \E b \in Branches : StartPublish(a, b) \/ Request(a, b)
               \/ PushPublish(a) \/ OpenPr(a) \/ PublishFails(a) \/ Lookup(a)
      BY <3>2 DEF StartPublish, Request, PushPublish, OpenPr, PublishFails, Lookup, rows
    <3>3. CASE Repoint(a) /\ entry' # entry
      <4>1. PICK x, w : x = adm[a].target /\ w = adm[a].work
        OBVIOUS
      <4>2. /\ entry' = [entry EXCEPT ![x].state = "queued", ![x].blocked = FALSE,
                                      ![x].work = w, ![x].staged = NoCommit, ![x].late = FALSE]
            /\ entry[x].state \in Cancellable /\ x \in Ids
        BY <3>3, <4>1 DEF Repoint, Claimed, QInv, Others, IsRow
      <4>3. entry'[x].state = "queued" /\ entry'[x].pos = entry[x].pos
            /\ \A e \in Ids : e # x => entry'[e] = entry[e]
        BY <4>2 DEF Entry
      <4> QED BY <4>2, <4>3 DEF Stays, Cancellable, QUEUED_STATES, ACTIVE_STATES
    <3>4. CASE Insert(a) /\ entry' # entry
      <4>1. PICK x \in Ids : /\ entry[x].state = "none"
                             /\ entry' = [entry EXCEPT ![x] =
                                  [NoEntry EXCEPT !.state = "queued", !.branch = adm[a].branch,
                                                  !.pr = adm[a].pr, !.work = adm[a].work,
                                                  !.pos = next_position]]
        BY <3>4 DEF Insert
      <4>2. entry'[x].state = "queued" /\ entry'[x].pos = next_position
            /\ \A e \in Ids : e # x => entry'[e] = entry[e]
        BY <4>1 DEF NoEntry
      <4> QED BY <4>1, <4>2 DEF Joins
    <3> QED BY <3>1, <3>2, <3>3, <3>4
  <2>2. CASE OperatorStep
    <3>1. ASSUME NEW x \in Ids, Withdraw(x) PROVE Moved
      <4>1. /\ entry' = [entry EXCEPT ![x].state = "withdrawn", ![x].blocked = FALSE]
        BY <3>1 DEF Withdraw
      <4>2. entry'[x].state = "withdrawn" /\ entry'[x].pos = entry[x].pos
            /\ \A e \in Ids : e # x => entry'[e] = entry[e]
        BY <4>1 DEF Entry
      <4> QED BY <4>2 DEF Stays, ACTIVE_STATES
    <3>2. ~RetryWrite /\ ~RetryAgain /\ \A x \in Ids : ~RetryRead(x)
      BY DEF Unretried, RetryWrite, RetryAgain, RetryRead, Spend
    <3> QED BY <2>2, <3>1, <3>2 DEF OperatorStep
  <2>3. CASE WorldStep
    <3>1. ASSUME NEW x \in Ids, TimePasses(x) PROVE Moved
      <4>1. entry' = [entry EXCEPT ![x].late = TRUE]
        BY <3>1 DEF TimePasses
      <4>2. entry'[x].state = entry[x].state /\ entry'[x].pos = entry[x].pos
            /\ \A e \in Ids : e # x => entry'[e] = entry[e]
        BY <4>1 DEF Entry
      <4> QED BY <4>2 DEF Stays, QUEUED_STATES
    <3> QED BY <2>3, <3>1 DEF WorldStep, Commits, OutsideMerge, OutsideClose, CheckReports,
                              ResolveConflict, OutsidePush, rows
  <2> QED BY <2>1, <2>2, <2>3
<1>3. CASE entry' = entry
  BY <1>1, <1>3, LineSame
<1>4. CASE Moved
  <2>1. PICK x \in Ids : /\ \A e \in Ids : e # x => entry'[e] = entry[e]
                         /\ Stays(x) \/ (Joins(x) /\ entry[x].state = "none")
    BY <1>4
  <2>2. \A e \in Ids : e # x => Stays(e)
    BY <2>1 DEF Stays, QUEUED_STATES
  <2>3. /\ Distinct' /\ ActiveIsFirst'
        /\ \A y \in Ids : Leads(y) /\ Stays(y) => Leads(y)'
    BY <2>1, <2>2, LineKept DEF Line
  <2>4. ASSUME loop'.pc = "stage" PROVE Leads(loop.e)'
    <3>1. PICK y \in Ids : y = loop.e /\ y = loop'.e /\ entry[y].state # "none"
      BY <1>1, <2>4, InHandType DEF Resting, E
    <3>2. Stays(y)
      BY <2>1, <2>2, <3>1
    <3>3. Leads(y)
      BY <1>1, <2>4, <3>1 DEF Line
    <3>4. Leads(y)'
      BY <2>3, <3>2, <3>3
    <3> QED BY <3>1, <3>4 DEF Leads
  <2> QED BY <2>3, <2>4 DEF Line
<1> QED BY <1>2, <1>3, <1>4

(* The loop comes to stage a row by picking it.                             *)
LEMMA StageByPick == ASSUME QInv, LoopStep, ~Pick PROVE loop'.pc # "stage"
<1> USE DEF Goto, EndCycle, Idle, Transition, Stop, Hold, QInv, TypeOK, Loop
<1>1. CASE Tick \/ RemindDone \/ \E e \in Ids : Remind(e)
  BY <1>1 DEF Tick, RemindDone, Remind
<1>2. CASE BeginStaging \/ GiveUp \/ CutClean \/ CutConflicted \/ CutUndetermined
  BY <1>2 DEF BeginStaging, GiveUp, CutClean, CutConflicted, CutUndetermined
<1>3. CASE RecordConflict \/ FileArtifact \/ BlockOnArtifact \/ ReportStopped
  BY <1>3 DEF RecordConflict, FileArtifact, BlockOnArtifact, ReportStopped
<1>4. CASE PushStaged \/ PushFails \/ RecordStaged
  BY <1>4 DEF PushStaged, PushFails, RecordStaged
<1>5. CASE TimeOut \/ Unreachable \/ StopFailing
  BY <1>5 DEF TimeOut, Unreachable, StopFailing
<1>6. CASE AskGitHub
  <2>1. PrOf(loop.e) \in PullRequest
    BY <1>6, InHandType DEF AskGitHub, Resting
  <2>2. PICK v : v = WaitVerdict(PrOf(loop.e), ref[E.branch], checks[E.branch])
    OBVIOUS
  <2>3. v # "stage"
    BY <2>1, <2>2 DEF WaitVerdict, PullRequest
  <2>4. Hold("testing") \/ \E n \in 1..Tip : loop' = [loop EXCEPT !.pc = v, !.base = n]
    BY <1>6, <2>2 DEF AskGitHub
  <2>5. loop \in Loop
    BY DEF QInv, TypeOK
  <2> HIDE DEF QInv, TypeOK
  <2>6. CASE Hold("testing")
    <3>1. loop' = Idle \/ loop' = [loop EXCEPT !.pc = "pick"]
      BY <2>6
    <3> QED BY <2>5, <3>1 DEF Idle
  <2>7. CASE \E n \in 1..Tip : loop' = [loop EXCEPT !.pc = v, !.base = n]
    BY <2>3, <2>5, <2>7
  <2> QED BY <2>4, <2>6, <2>7
<1>7. CASE Restage \/ StopClosed \/ Adopt
  BY <1>7 DEF Restage, StopClosed, Adopt
<1>8. CASE FetchBase \/ ClaimLanding \/ RefuseMismatch \/ Merge \/ MergeFails \/ MergeRefused
  BY <1>8 DEF FetchBase, ClaimLanding, RefuseMismatch, Merge, MergeFails, MergeRefused
<1>9. CASE Confirm \/ StopMismatch \/ CleanUp \/ Finish \/ CloseCard \/ Resume
  BY <1>9 DEF Confirm, StopMismatch, CleanUp, Finish, CloseCard, Resume
<1> QED BY <1>1, <1>2, <1>3, <1>4, <1>5, <1>6, <1>7, <1>8, <1>9
        DEF LoopStep, StageStep, WaitStep, LandStep

(* It picks the first.                                                      *)
LEMMA PickLine == ASSUME QInv, Line, Pick PROVE Line'
<1>1. UNCHANGED entry
  BY DEF Pick, rows
<1>2. CASE loop' = Idle
  BY <1>1, <1>2, LineSame DEF Idle
<1>3. CASE loop' # Idle /\ loop'.pc = "stage"
  <2>1. PICK e \in head_entry :
           loop' = [loop EXCEPT !.e = e, !.seen = @ \cup {e}, !.cut = entry[e].staged,
                                !.pc = StepOf(entry[e].state)]
    BY <1>3 DEF Pick, EndCycle
  <2>2. PICK p : p = StepOf(entry[e].state)
    OBVIOUS
  <2>3. loop'.e = e /\ p = "stage"
    BY <1>3, <2>1, <2>2 DEF QInv, TypeOK, Loop
  <2>4. e \in Live /\ entry[e].state \in QUEUED_STATES \cup ACTIVE_STATES /\ e \in Ids
    BY DEF head_entry, First, Live, Active
  <2>5. entry[e].state = "queued"
    BY <2>2, <2>3, <2>4 DEF StepOf, QUEUED_STATES, ACTIVE_STATES
  <2>6. e \in First(Live)
    BY <2>5 DEF head_entry, First, Active, ACTIVE_STATES
  <2>7. \A f \in Live : entry[e].pos <= entry[f].pos /\ (e # f => entry[e].pos # entry[f].pos)
    BY <2>4, <2>6 DEF First, Line, Distinct
  <2>8. \A f \in Ids : entry[f].pos \in Nat
    BY NextAbove
  <2>9. Leads(e)
    BY <2>4, <2>7, <2>8 DEF Leads, Live
  <2>10. Leads(loop.e)'
    BY <1>1, <2>3, <2>9 DEF Leads, Live
  <2>11. Distinct' /\ ActiveIsFirst'
    BY <1>1 DEF Line, Distinct, ActiveIsFirst, Live, Active
  <2> QED BY <2>10, <2>11 DEF Line
<1>4. CASE loop'.pc # "stage"
  BY <1>1, <1>4, LineSame
<1> QED BY <1>2, <1>3, <1>4

(* It stages what it picked, which still is the first if it is in line.     *)
LEMMA BeginLine == ASSUME QInv, Line, BeginStaging PROVE Line'
<1>1. loop'.pc # "stage"
  BY StageByPick DEF LoopStep, StageStep, Pick, BeginStaging
<1>2. CASE entry' # entry
  <2>1. loop.pc = "stage" /\ E.state = "queued"
    BY <1>2 DEF BeginStaging, Transition
  <2>2. PICK x \in Ids : x = loop.e /\ entry[x].state = "queued" /\ entry \in [Ids -> Entry]
    BY <2>1, InHandType DEF Resting, E
  <2>3. entry' = [entry EXCEPT ![x] = [entry[x] EXCEPT !.state = "staging", !.blocked = FALSE]]
    BY <1>2, <2>2 DEF BeginStaging, Transition, E
  <2>4. /\ entry'[x].state = "staging" /\ entry'[x].pos = entry[x].pos
        /\ \A e \in Ids : e # x => entry'[e] = entry[e]
    BY <2>2, <2>3 DEF Entry
  <2>5. Active = {} /\ Leads(x) /\ x \in Live
    BY <2>1, <2>2 DEF QInv, Hand, Line, Live, QUEUED_STATES
  <2>6. Live' = Live /\ \A e \in Ids : entry'[e].pos = entry[e].pos
    BY <2>2, <2>4 DEF Live, QUEUED_STATES, ACTIVE_STATES
  <2>7. \A e \in Active' : e = x
    BY <2>4, <2>5 DEF Active
  <2>8. \A e \in Live : e \in Ids
    BY DEF Live
  <2>9. Distinct' /\ ActiveIsFirst'
    BY <2>5, <2>6, <2>7, <2>8 DEF Line, Distinct, ActiveIsFirst, Leads
  <2> QED BY <1>1, <2>9 DEF Line
<1> QED BY <1>1, <1>2, LineSame

(* Whatever else it does, its row stays or leaves.                          *)
LEMMA LoopLine == ASSUME QInv, Line, LoopStep PROVE Line'
<1> entry \in [Ids -> Entry]
  BY DEF QInv, TypeOK
<1>1. CASE ~Pick /\ entry' = entry
  BY <1>1, StageByPick, LineSame
<1>2. ASSUME ~Pick, NEW x \in Ids, \A e \in Ids : e # x => entry'[e] = entry[e],
             Stays(x) \/ Joins(x)
      PROVE  Line'
  <2>1. \A e \in Ids : e # x => Stays(e)
    BY <1>2 DEF Stays, QUEUED_STATES
  <2>2. Distinct' /\ ActiveIsFirst'
    BY <1>2, <2>1, LineKept DEF Line
  <2> QED BY <1>2, <2>2, StageByPick DEF Line
<1>3. ASSUME ~Pick, loop.pc \notin Resting, NEW r, E.state \in ACTIVE_STATES, r.pos = E.pos,
             entry' = [entry EXCEPT ![loop.e] = r]
      PROVE  Line'
  <2>1. PICK x \in Ids : x = loop.e
    BY <1>3, InHandType
  <2>2. entry'[x] = r /\ Stays(x) /\ \A e \in Ids : e # x => entry'[e] = entry[e]
    BY <1>3, <2>1 DEF Stays, E
  <2> QED BY <1>2, <1>3, <2>2
<1>4. ASSUME NEW x \in Ids, Remind(x), entry' # entry PROVE Line'
  <2>1. entry' = [entry EXCEPT ![x] = Retried(entry[x], next_position)] /\ ~Pick
    BY <1>4 DEF Remind, Pick
  <2>2. PICK r : r = Retried(entry[x], next_position)
    OBVIOUS
  <2>3. r.state = "queued" /\ r.pos = next_position
    BY <2>2 DEF Retried, Entry
  <2>4. entry'[x] = r /\ \A e \in Ids : e # x => entry'[e] = entry[e]
    BY <2>1, <2>2
  <2> QED BY <1>2, <2>1, <2>3, <2>4 DEF Joins
<1>5. ASSUME BlockOnArtifact, entry' # entry PROVE Line'
  <2>1. PICK x \in Ids : x = loop.e /\ entry[x].state = "failed"
    BY <1>5, InHandType DEF BlockOnArtifact, Resting, E
  <2>2. entry' = [entry EXCEPT ![x].blocked = TRUE, ![x].artifact = TRUE] /\ ~Pick
    BY <1>5, <2>1 DEF BlockOnArtifact, Pick
  <2>3. entry'[x].state = "failed" /\ entry'[x].pos = entry[x].pos
        /\ \A e \in Ids : e # x => entry'[e] = entry[e]
    BY <2>1, <2>2 DEF Entry
  <2> QED BY <1>2, <2>2, <2>3 DEF Stays, ACTIVE_STATES
<1>6. ASSUME loop.pc \notin Resting,
             entry' = entry
             \/ (E.state \in ACTIVE_STATES
                  /\ \E r \in Entry : r.pos = E.pos /\ entry' = [entry EXCEPT ![loop.e] = r]),
             LoopStep
      PROVE  Line'
  <2>1. ~Pick
    BY <1>6 DEF Pick, Resting
  <2> QED BY <1>1, <1>3, <1>6, <2>1
<1> DEFINE Goes == entry' = entry
             \/ (E.state \in ACTIVE_STATES
                  /\ \E r \in Entry : r.pos = E.pos /\ entry' = [entry EXCEPT ![loop.e] = r])
<1>7. CASE StageStep /\ ~BeginStaging
  <2>1. loop.pc \notin Resting
    BY <1>7 DEF StageStep, Resting, GiveUp, CutClean, CutConflicted, CutUndetermined,
                RecordConflict, FileArtifact, BlockOnArtifact, ReportStopped, PushStaged,
                PushFails, RecordStaged
  <2>2. E \in Entry
    BY <2>1, InHandType
  <2>3. CASE GiveUp \/ CutUndetermined \/ RecordConflict
    <3>1. /\ [E EXCEPT !.state = "failed", !.blocked = FALSE] \in Entry
          /\ [E EXCEPT !.state = "failed", !.blocked = FALSE].pos = E.pos
      BY <2>2 DEF Entry, State, TERMINAL_STATES
    <3>2. Goes
      BY <2>3, <3>1 DEF GiveUp, CutUndetermined, RecordConflict, Transition, Stop, ACTIVE_STATES
    <3> QED BY <1>6, <2>1, <3>2
  <2>4. CASE PushFails
    <3>1. CASE E.state = "staging"
      <4>1. E.attempts + 1 \in Nat
        BY <2>2 DEF Entry
      <4>2. /\ [E EXCEPT !.state = "queued", !.attempts = @ + 1] \in Entry
            /\ [E EXCEPT !.state = "queued", !.attempts = @ + 1].pos = E.pos
        BY <2>2, <4>1 DEF Entry, State, QUEUED_STATES
      <4>3. Goes
        BY <2>4, <3>1, <4>2 DEF PushFails, Transition, ACTIVE_STATES
      <4> QED BY <1>6, <2>1, <4>3
    <3>2. CASE E.state # "staging"
      BY <1>6, <2>1, <2>4, <3>2 DEF PushFails, Transition
    <3> QED BY <3>1, <3>2
  <2>5. CASE RecordStaged
    <3> DEFINE r == [E EXCEPT !.state = "testing", !.blocked = FALSE, !.staged = loop.cut,
                              !.attempts = @ + 1, !.late = FALSE]
    <3>1. r \in Entry /\ r.pos = E.pos
      <4>1. E.attempts + 1 \in Nat /\ loop.cut \in Commit
        BY <2>2 DEF Entry, QInv, TypeOK, Loop
      <4> QED BY <2>2, <4>1 DEF Entry, State, ACTIVE_STATES
    <3>2. entry' = entry \/ (E.state = "staging" /\ entry' = [entry EXCEPT ![loop.e] = r])
      BY <2>5 DEF RecordStaged, Transition
    <3> HIDE DEF r
    <3>3. Goes
      BY <3>1, <3>2 DEF ACTIVE_STATES
    <3> QED BY <1>6, <2>1, <3>3
  <2>6. CASE CutClean \/ CutConflicted \/ FileArtifact \/ ReportStopped \/ PushStaged
             \/ (BlockOnArtifact /\ entry' = entry)
    <3>1. entry' = entry
      BY <2>6 DEF CutClean, CutConflicted, FileArtifact, ReportStopped, PushStaged, rows
    <3> QED BY <1>6, <2>1, <3>1
  <2> QED BY <1>5, <1>7, <2>3, <2>4, <2>5, <2>6 DEF StageStep
<1>8. CASE WaitStep
  <2>1. loop.pc \notin Resting
    BY <1>8 DEF WaitStep, Resting, TimeOut, Unreachable, StopFailing, AskGitHub, Restage,
                StopClosed, Adopt
  <2>2. E \in Entry
    BY <2>1, InHandType
  <2>3. CASE TimeOut \/ StopFailing \/ StopClosed
    <3>1. \A s \in {"failed", "timed_out"} :
             /\ [E EXCEPT !.state = s, !.blocked = FALSE] \in Entry
             /\ [E EXCEPT !.state = s, !.blocked = FALSE].pos = E.pos
      BY <2>2 DEF Entry, State, TERMINAL_STATES
    <3>2. Goes
      BY <2>3, <3>1 DEF TimeOut, StopFailing, StopClosed, Transition, Stop, ACTIVE_STATES
    <3> QED BY <1>6, <2>1, <3>2
  <2>4. CASE Restage
    <3> DEFINE r == [E EXCEPT !.state = "queued", !.staged = NoCommit, !.late = FALSE]
    <3>1. r \in Entry /\ r.pos = E.pos
      BY <2>2, IdleType DEF Entry, State, QUEUED_STATES
    <3>2. entry' = entry \/ (E.state = "testing" /\ entry' = [entry EXCEPT ![loop.e] = r])
      BY <2>4 DEF Restage, Transition
    <3> HIDE DEF r
    <3>3. Goes
      BY <3>1, <3>2 DEF ACTIVE_STATES
    <3> QED BY <1>6, <2>1, <3>3
  <2>5. CASE Adopt
    <3>1. [E EXCEPT !.state = "merging"] \in Entry /\ [E EXCEPT !.state = "merging"].pos = E.pos
      BY <2>2 DEF Entry, State, ACTIVE_STATES
    <3>2. Goes
      BY <2>5, <3>1 DEF Adopt, Transition, ACTIVE_STATES
    <3> QED BY <1>6, <2>1, <3>2
  <2>6. CASE Unreachable \/ AskGitHub
    <3>1. entry' = entry
      BY <2>6 DEF Unreachable, AskGitHub, rows
    <3> QED BY <1>6, <2>1, <3>1
  <2> QED BY <1>8, <2>3, <2>4, <2>5, <2>6 DEF WaitStep
<1>9. CASE LandStep
  <2>1. loop.pc \notin Resting
    BY <1>9 DEF LandStep, Resting, FetchBase, ClaimLanding, RefuseMismatch, Merge, MergeFails,
                MergeRefused, Confirm, StopMismatch, CleanUp, Finish, CloseCard, Resume
  <2>2. E \in Entry
    BY <2>1, InHandType
  <2>3. \A s \in {"testing", "merging", "failed", "merged"} :
           /\ [E EXCEPT !.state = s, !.blocked = FALSE] \in Entry
           /\ [E EXCEPT !.state = s, !.blocked = FALSE].pos = E.pos
           /\ [E EXCEPT !.state = s] \in Entry /\ [E EXCEPT !.state = s].pos = E.pos
    BY <2>2 DEF Entry, State, ACTIVE_STATES, TERMINAL_STATES
  <2>4. CASE ClaimLanding \/ RefuseMismatch \/ StopMismatch \/ Finish
    <3>1. Goes
      BY <2>3, <2>4 DEF ClaimLanding, RefuseMismatch, StopMismatch, Finish, Transition, Stop,
                        ACTIVE_STATES
    <3> QED BY <1>6, <2>1, <3>1
  <2>5. CASE MergeRefused \/ Resume
    <3>1. Goes
      BY <2>3, <2>5 DEF MergeRefused, Resume, Transition, Stop, ACTIVE_STATES
    <3> QED BY <1>6, <2>1, <3>1
  <2>6. CASE FetchBase \/ Merge \/ MergeFails \/ Confirm \/ CleanUp \/ CloseCard
    <3>1. entry' = entry
      BY <2>6 DEF FetchBase, Merge, MergeFails, Confirm, CleanUp, CloseCard, rows
    <3> QED BY <1>6, <2>1, <3>1
  <2> QED BY <1>9, <2>4, <2>5, <2>6 DEF LandStep
<1>10. CASE Tick \/ RemindDone \/ \E x \in Ids : Remind(x)
  <2>1. ~Pick
    BY <1>10 DEF Tick, RemindDone, Remind, Pick
  <2>2. Tick \/ RemindDone => entry' = entry
    BY DEF Tick, RemindDone, rows
  <2> QED BY <1>1, <1>4, <1>10, <2>1, <2>2
<1> QED BY <1>7, <1>8, <1>9, <1>10, PickLine, BeginLine DEF LoopStep

(* Every step keeps the line in order.                                      *)
LEMMA LineStep ==
    ASSUME QInv, Claimed, Unretried, Line, [Next]_vars
    PROVE  Line'
<1>1. CASE Crash \/ UNCHANGED vars
  <2>1. entry' = entry /\ (loop' = loop \/ loop'.pc # "stage")
    BY <1>1 DEF Crash, EndCycle, Idle, vars, rows
  <2> QED BY <2>1, LineSame
<1> QED BY <1>1, LoopLine, OthersLine DEF Next

(* An operator who may not retry never comes to the middle of one.          *)
LEMMA UnretriedKept == ASSUME QInv, Unretried, [Next]_vars PROVE Unretried'
<1>1. scene'.events["retry"] = 0
  BY Spending DEF Unretried, Events
<1>2. op' = op
  <2>1. CASE OperatorStep
    <3>1. ~RetryWrite /\ ~RetryAgain /\ \A x \in Ids : ~RetryRead(x)
      BY DEF Unretried, RetryWrite, RetryAgain, RetryRead, Spend
    <3> QED BY <2>1, <3>1 DEF OperatorStep, Withdraw
  <2>2. CASE AdmitStep
    BY <2>2 DEF AdmitStep, StartPublish, Request, PushPublish, OpenPr, PublishFails, Lookup,
                Repoint, Insert
  <2>3. CASE WorldStep
    BY <2>3 DEF WorldStep, Commits, OutsideMerge, OutsideClose, CheckReports, TimePasses,
                ResolveConflict, OutsidePush
  <2>4. CASE Crash \/ UNCHANGED vars
    BY <2>4 DEF Crash, vars
  <2> QED BY <2>1, <2>2, <2>3, <2>4, LoopAlone DEF Next
<1> QED BY <1>1, <1>2 DEF Unretried

(* The queue is first in, first out, whatever is withdrawn, re-pointed,     *)
(* restaged, tried again after its conflict is resolved or left by a crash: *)
(* what head_entry picked is still the first when begin_staging swaps it.   *)
(* Only an operator's retry may come between the two, or claim a position   *)
(* that is no longer the last.                                              *)
THEOREM FirstInFirstOut ==
    Spec /\ scene.events["retry"] = 0 => []ActiveIsFirst
<1>1. Init /\ scene.events["retry"] = 0 => Claimed /\ Line /\ Unretried
  <2>1. Init => Claimed
    BY DEF Init, Claimed, Idle, NoOp, Absent
  <2>2. ASSUME Init PROVE Line /\ op.pc = "idle"
    <3>1. loop.pc = "idle" /\ op.pc = "idle" /\ Live = {} /\ Active = {}
      BY <2>2 DEF Init, Idle, NoOp, Live, Active, NoEntry, QUEUED_STATES, ACTIVE_STATES
    <3> QED BY <3>1 DEF Line, Distinct, ActiveIsFirst
  <2> QED BY <2>1, <2>2 DEF Unretried
<1>2. QInv /\ Claimed /\ Unretried /\ [Next]_vars => Claimed' /\ Unretried'
  BY ClaimedStep, UnretriedKept DEF Unretried
<1>3. QInv /\ Claimed /\ Unretried /\ Line /\ [Next]_vars => Line'
  BY LineStep
<1>4. Line => ActiveIsFirst
  BY DEF Line
<1> QED BY <1>1, <1>2, <1>3, <1>4, QueueInvariant, PTL DEF Spec

-----------------------------------------------------------------------------
(* Reporting.  A row stops and its card is filed in two transactions of one *)
(* cycle; until then the loop has the row in hand.  A card that is there is *)
(* closed only when the pull request merged, or when a reminder puts a row  *)
(* that shares it behind everybody.                                         *)

Stops    == {"failed", "timed_out"}
Filing   == {"file", "block", "report"}
Settling == {"cleanup", "finish", "close"}

(* One pull request, and so one card.                                       *)
Shares(e, f) == /\ entry[f].branch = entry[e].branch
                /\ entry[f].pr = entry[e].pr

Carded(e) == <<entry[e].branch, entry[e].pr>> \in cards

Reported(e) == \/ Carded(e)
               \/ PrOf(e).state = "merged"
               \/ \E f \in Ids : Shares(e, f) /\ entry[f].pos > entry[e].pos

(* Every stop is reported, or about to be.                                  *)
Filed ==
    /\ \A e \in Ids : entry[e].state = "none" => entry[e].pos = 0
    /\ \A e \in Ids : entry[e].state \in Stops =>
          Reported(e) \/ (loop.pc \in Filing /\ loop.e = e)
    /\ loop.pc \in Settling => PrOf(loop.e).state = "merged"

(* Nobody is put before the place it has.                                   *)
Back == \A e \in Ids : entry[e].pos <= entry'[e].pos

(* A row keeps its pull request, and a stopped one its place.               *)
Forth(e) ==
    /\ entry[e].state # "none" =>
          /\ entry'[e].state # "none"
          /\ entry'[e].branch = entry[e].branch /\ entry'[e].pr = entry[e].pr
    /\ entry[e].state = "none" => entry'[e].state # "none" \/ entry'[e].pos = entry[e].pos
    /\ entry'[e].state \in Stops => entry'[e].pos = entry[e].pos

(* What is reported stays so while its card does, or what stands for it.    *)
LEMMA ReportedKept ==
    ASSUME QInv, QInv', Filed, MergedStay, Back, \A x \in Ids : Forth(x),
           NEW e \in Ids, entry[e].state \in Stops, entry'[e].state \in Stops,
           Reported(e), Carded(e) => Carded(e)' \/ Reported(e)'
    PROVE  Reported(e)'
<1>1. /\ entry'[e].branch = entry[e].branch /\ entry'[e].pr = entry[e].pr
      /\ entry'[e].pos = entry[e].pos /\ entry[e].pos \in Nat
  BY DEF Forth, Stops, QInv, TypeOK, Entry
<1>2. entry[e].branch \in Branches /\ entry[e].pr \in 1..Len(prs[entry[e].branch])
  BY DEF QInv, Rows, Stops, IsPr
<1>3. CASE Carded(e)
  BY <1>3 DEF Reported
<1>4. CASE PrOf(e).state = "merged"
  BY <1>1, <1>2, <1>4 DEF Reported, PrOf, MergedStay
<1>5. CASE \E f \in Ids : Shares(e, f) /\ entry[f].pos > entry[e].pos
  <2>1. PICK f \in Ids : Shares(e, f) /\ entry[f].pos > entry[e].pos
    BY <1>5
  <2>2. entry[f].state # "none" /\ entry[f].pos \in Nat
    BY <1>1, <2>1 DEF Filed, QInv, TypeOK, Entry
  <2>3. Shares(e, f)'
    BY <1>1, <2>1, <2>2 DEF Forth, Shares
  <2>4. entry'[f].pos > entry'[e].pos
    <3>1. entry'[f].pos >= entry[f].pos
      BY DEF Back
    <3>2. entry'[f].pos \in Nat
      BY DEF QInv, TypeOK, Entry
    <3> QED BY <1>1, <2>1, <2>2, <3>1, <3>2
  <2> QED BY <2>3, <2>4 DEF Reported
<1> QED BY <1>3, <1>4, <1>5 DEF Reported

(* Nothing that stopped is lost while the loop carries it to its card.      *)
LEMMA FiledKept ==
    ASSUME QInv, QInv', Filed, MergedStay, Back, \A x \in Ids : Forth(x),
           \A e \in Ids : /\ entry[e].state \in Stops /\ entry'[e].state \in Stops /\ Carded(e)
                         => Carded(e)' \/ Reported(e)',
           \A e \in Ids : entry'[e].state \in Stops =>
               entry[e].state \in Stops \/ (loop'.pc \in Filing /\ loop'.e = e),
           loop.pc \in Filing => (loop'.pc \in Filing /\ loop'.e = loop.e) \/ <<E.branch, E.pr>> \in cards',
           loop'.pc \in Settling =>
               /\ loop'.e = loop.e
               /\ loop.pc \in Settling \/ (loop.pc \notin Resting /\ PrOf(loop.e).state = "merged")
    PROVE  Filed'
<1>1. \A e \in Ids : entry'[e].state = "none" => entry'[e].pos = 0
  BY DEF Forth, Filed
<1>2. ASSUME NEW e \in Ids, entry'[e].state \in Stops
      PROVE  Reported(e)' \/ (loop'.pc \in Filing /\ loop'.e = e)
  <2>1. CASE entry[e].state \in Stops /\ Reported(e)
    BY <1>2, <2>1, ReportedKept
  <2>2. CASE entry[e].state \in Stops /\ loop.pc \in Filing /\ loop.e = e
    <3>1. (loop'.pc \in Filing /\ loop'.e = e) \/ <<E.branch, E.pr>> \in cards'
      BY <2>2
    <3>2. <<E.branch, E.pr>> \in cards' => Carded(e)'
      BY <2>2 DEF Forth, Carded, Stops, E
    <3> QED BY <3>1, <3>2 DEF Reported
  <2> QED BY <1>2, <2>1, <2>2 DEF Filed
<1>3. ASSUME loop'.pc \in Settling PROVE PrOf(loop.e)'.state = "merged"
  <2>1. /\ loop'.e = loop.e /\ loop.pc \notin Resting /\ PrOf(loop.e).state = "merged"
    BY <1>3 DEF Filed, Settling, Resting
  <2>2. PICK x \in Ids : /\ x = loop.e /\ x = loop'.e /\ entry[x].state # "none"
                         /\ entry[x].branch \in Branches
                         /\ entry[x].pr \in 1..Len(prs[entry[x].branch])
    BY <2>1, InHandType DEF E
  <2>3. entry'[x].branch = entry[x].branch /\ entry'[x].pr = entry[x].pr
    BY <2>2 DEF Forth
  <2>4. prs[entry[x].branch][entry[x].pr].state = "merged"
    BY <2>1, <2>2 DEF PrOf
  <2>5. prs'[entry[x].branch][entry[x].pr].state = "merged"
    BY <2>2, <2>4 DEF MergedStay
  <2> QED BY <2>2, <2>3, <2>5 DEF PrOf
<1> QED BY <1>1, <1>2, <1>3 DEF Filed

(* Nobody else stops a row, or touches a card.                              *)
LEMMA OthersForth ==
    ASSUME QInv, AdmitStep \/ OperatorStep \/ WorldStep
    PROVE  /\ UNCHANGED <<loop, cards>>
           /\ \A e \in Ids : Forth(e) /\ (entry'[e].state \in Stops => entry[e].state \in Stops)
<1> DEFINE Goes(e) == Forth(e) /\ (entry'[e].state \in Stops => entry[e].state \in Stops)
           Moved == \E x \in Ids : (\A e \in Ids : e # x => entry'[e] = entry[e]) /\ Goes(x)
<1> entry \in [Ids -> Entry]
  BY DEF QInv, TypeOK
<1>1. \A e \in Ids : entry'[e] = entry[e] => Goes(e)
  BY DEF Forth
<1>2. entry' = entry \/ Moved => \A e \in Ids : Goes(e)
  BY <1>1
<1>3. CASE AdmitStep
  <2>1. PICK a \in Admitters :
           \/ \E b \in Branches : StartPublish(a, b) \/ Request(a, b)
           \/ PushPublish(a) \/ OpenPr(a) \/ PublishFails(a)
           \/ Lookup(a) \/ Repoint(a) \/ Insert(a)
    BY <1>3 DEF AdmitStep
  <2>2. UNCHANGED <<loop, cards>>
    BY <2>1 DEF StartPublish, Request, PushPublish, OpenPr, PublishFails, Lookup, Repoint, Insert,
                rows
  <2>3. CASE \/ \E b \in Branches : StartPublish(a, b) \/ Request(a, b)
             \/ PushPublish(a) \/ OpenPr(a) \/ PublishFails(a) \/ Lookup(a)
    BY <1>2, <2>2, <2>3 DEF StartPublish, Request, PushPublish, OpenPr, PublishFails, Lookup, rows
  <2>4. CASE Repoint(a) /\ entry' # entry
    <3>1. PICK x, w : x = adm[a].target /\ w = adm[a].work
      OBVIOUS
    <3>2. /\ entry' = [entry EXCEPT ![x].state = "queued", ![x].blocked = FALSE,
                                    ![x].work = w, ![x].staged = NoCommit, ![x].late = FALSE]
          /\ entry[x].state # "none" /\ x \in Ids
      BY <2>4, <3>1 DEF Repoint, QInv, Others, IsRow
    <3>3. /\ entry'[x].state = "queued"
          /\ entry'[x].branch = entry[x].branch /\ entry'[x].pr = entry[x].pr
          /\ \A e \in Ids : e # x => entry'[e] = entry[e]
      BY <3>2 DEF Entry
    <3>4. Moved
      BY <3>2, <3>3 DEF Forth, Stops
    <3> QED BY <1>2, <2>2, <3>4
  <2>5. CASE Insert(a) /\ entry' # entry
    <3>1. PICK x \in Ids : /\ entry[x].state = "none"
                           /\ entry' = [entry EXCEPT ![x] =
                                [NoEntry EXCEPT !.state = "queued", !.branch = adm[a].branch,
                                                !.pr = adm[a].pr, !.work = adm[a].work,
                                                !.pos = next_position]]
      BY <2>5 DEF Insert
    <3>2. entry'[x].state = "queued" /\ \A e \in Ids : e # x => entry'[e] = entry[e]
      BY <3>1 DEF NoEntry
    <3>3. Moved
      BY <3>1, <3>2 DEF Forth, Stops
    <3> QED BY <1>2, <2>2, <3>3
  <2>6. CASE (Repoint(a) \/ Insert(a)) /\ entry' = entry
    BY <1>2, <2>2, <2>6
  <2> QED BY <2>1, <2>3, <2>4, <2>5, <2>6
<1>4. CASE OperatorStep
  <2>1. ASSUME NEW x \in Ids, Withdraw(x) PROVE Moved /\ UNCHANGED <<loop, cards>>
    <3>1. /\ entry' = [entry EXCEPT ![x].state = "withdrawn", ![x].blocked = FALSE]
          /\ entry[x].state # "none" /\ UNCHANGED <<loop, cards>>
      BY <2>1 DEF Withdraw, Cancellable
    <3>2. /\ entry'[x].state = "withdrawn"
          /\ entry'[x].branch = entry[x].branch /\ entry'[x].pr = entry[x].pr
          /\ \A e \in Ids : e # x => entry'[e] = entry[e]
      BY <3>1 DEF Entry
    <3> QED BY <3>1, <3>2 DEF Forth, Stops
  <2>2. ASSUME RetryWrite, entry' # entry PROVE Moved
    <3>1. PICK x \in Ids : x = op.e /\ entry[x].state # "none"
      BY <2>2 DEF RetryWrite, QInv, Others, IsRow
    <3>2. PICK r : r = Retried(entry[x], op.pos)
      OBVIOUS
    <3>3. entry' = [entry EXCEPT ![x] = r]
      BY <2>2, <3>1, <3>2 DEF RetryWrite
    <3>4. r.state = "queued" /\ r.branch = entry[x].branch /\ r.pr = entry[x].pr
      BY <3>2 DEF Retried, Entry
    <3> QED BY <3>1, <3>3, <3>4 DEF Forth, Stops
  <2>3. RetryWrite => UNCHANGED <<loop, cards>>
    BY DEF RetryWrite
  <2>4. RetryAgain \/ (\E x \in Ids : RetryRead(x)) => UNCHANGED <<entry, loop, cards>>
    BY DEF RetryAgain, RetryRead, rows
  <2> QED BY <1>2, <1>4, <2>1, <2>2, <2>3, <2>4 DEF OperatorStep
<1>5. CASE WorldStep
  <2>1. ASSUME NEW x \in Ids, TimePasses(x) PROVE Moved /\ UNCHANGED <<loop, cards>>
    <3>1. entry' = [entry EXCEPT ![x].late = TRUE] /\ UNCHANGED <<loop, cards>>
      BY <2>1 DEF TimePasses
    <3>2. /\ entry'[x].state = entry[x].state /\ entry'[x].pos = entry[x].pos
          /\ entry'[x].branch = entry[x].branch /\ entry'[x].pr = entry[x].pr
          /\ \A e \in Ids : e # x => entry'[e] = entry[e]
      BY <3>1 DEF Entry
    <3> QED BY <3>1, <3>2 DEF Forth
  <2> QED BY <1>2, <1>5, <2>1 DEF WorldStep, Commits, OutsideMerge, OutsideClose, CheckReports,
                                  ResolveConflict, OutsidePush, rows
<1> QED BY <1>3, <1>4, <1>5

(* So what was reported stays reported.                                     *)
LEMMA OthersFiled ==
    ASSUME QInv, QInv', Filed, Back, AdmitStep \/ OperatorStep \/ WorldStep
    PROVE  Filed'
<1>1. /\ UNCHANGED <<loop, cards>> /\ MergedStay
      /\ \A e \in Ids : Forth(e) /\ (entry'[e].state \in Stops => entry[e].state \in Stops)
  BY OthersForth, OthersRemote
<1>2. \A e \in Ids : entry[e].state # "none" /\ Carded(e) => Carded(e)'
  BY <1>1 DEF Carded, Forth
<1> QED BY <1>1, <1>2, FiledKept DEF Stops

(* What a step of the loop about its row does: it stops it only to file it, *)
(* leaves off filing when the card is there, and settles what has merged.   *)
Follows ==
    /\ loop' = Idle \/ (loop'.e = loop.e /\ loop'.todo = loop.todo)
    /\ loop'.pc = "block" => FileArtifact
    /\ loop.pc \in Filing => loop'.pc \in Filing \/ <<E.branch, E.pr>> \in cards'
    /\ loop'.pc \in Settling => loop.pc \in Settling \/ PrOf(loop.e).state = "merged"
    /\ cards \subseteq cards'
    /\ \/ entry' = entry
       \/ \E r : /\ entry' = [entry EXCEPT ![loop.e] = r] /\ r.state # "none"
                 /\ r.branch = E.branch /\ r.pr = E.pr /\ r.pos = E.pos
                 /\ r.state \in Stops =>
                       E.state \in Stops \/ (loop'.pc \in Filing /\ loop'.e = loop.e)
                 /\ r.blocked => E.blocked \/ loop.pc = "block"

(* Such a step keeps every stop reported, or on its way.                    *)
LEMMA FollowsKept ==
    ASSUME QInv, QInv', Filed, Back, MergedStay, loop.pc \notin Resting, Follows
    PROVE  Filed'
<1> entry \in [Ids -> Entry]
  BY DEF QInv, TypeOK
<1>1. PICK x \in Ids : x = loop.e /\ entry[x] = E /\ entry[x].state # "none"
  BY InHandType DEF E
<1>2. \A e \in Ids : e # x => entry'[e] = entry[e]
  BY <1>1 DEF Follows
<1> DEFINE Writes(r) ==
             /\ entry'[x] = r /\ r.state # "none"
             /\ r.branch = E.branch /\ r.pr = E.pr /\ r.pos = E.pos
             /\ r.state \in Stops => E.state \in Stops \/ (loop'.pc \in Filing /\ loop'.e = x)
<1>3. entry' = entry \/ \E r : Writes(r)
  BY <1>1 DEF Follows
<1>4. \A e \in Ids : /\ Forth(e)
                     /\ entry'[e].state \in Stops =>
                           entry[e].state \in Stops \/ (loop'.pc \in Filing /\ loop'.e = e)
  <2>1. \A e \in Ids : entry'[e] = entry[e] =>
           Forth(e) /\ (entry'[e].state \in Stops => entry[e].state \in Stops)
    BY DEF Forth
  <2>2. entry' # entry =>
           /\ Forth(x)
           /\ entry'[x].state \in Stops =>
                 entry[x].state \in Stops \/ (loop'.pc \in Filing /\ loop'.e = x)
    <3>1. ASSUME NEW r, Writes(r)
          PROVE  /\ Forth(x)
                 /\ entry'[x].state \in Stops =>
                       entry[x].state \in Stops \/ (loop'.pc \in Filing /\ loop'.e = x)
      BY <1>1, <3>1 DEF Forth
    <3> HIDE DEF Writes
    <3> QED BY <1>3, <3>1
  <2> QED BY <1>2, <2>1, <2>2
<1>5. \A e \in Ids : entry[e].state # "none" /\ Carded(e) => Carded(e)'
  BY <1>4 DEF Carded, Forth, Follows
<1>6. loop.pc \in Filing => (loop'.pc \in Filing /\ loop'.e = loop.e) \/ <<E.branch, E.pr>> \in cards'
  BY DEF Follows, Idle, Filing
<1>7. loop'.pc \in Settling =>
         /\ loop'.e = loop.e
         /\ loop.pc \in Settling \/ (loop.pc \notin Resting /\ PrOf(loop.e).state = "merged")
  BY DEF Follows, Idle, Settling
<1> QED BY <1>4, <1>5, <1>6, <1>7, FiledKept DEF Stops

(* A step that stops the row goes on to file its card.                      *)
LEMMA StopFollows ==
    ASSUME QInv, UNCHANGED cards, loop.pc \notin Resting \cup Filing,
           NEW from, NEW to \in Stops, NEW pc \in {"report", "file"},
           Transition(from, [E EXCEPT !.state = to, !.blocked = FALSE], Goto(pc))
    PROVE  Follows
<1>1. loop \in Loop /\ E \in Entry
  BY InHandType DEF QInv, TypeOK
<1> DEFINE r == [E EXCEPT !.state = to, !.blocked = FALSE]
<1>2. \/ entry' = entry /\ loop' = [loop EXCEPT !.pc = "pick"]
      \/ entry' = [entry EXCEPT ![loop.e] = r] /\ loop' = [loop EXCEPT !.pc = pc]
  BY DEF Transition, Goto
<1>3. /\ r.state = to /\ r.branch = E.branch /\ r.pr = E.pr /\ r.pos = E.pos
      /\ r.blocked = FALSE
  BY <1>1 DEF Entry
<1>4. /\ loop'.e = loop.e /\ loop'.todo = loop.todo /\ loop'.pc \in {pc, "pick"}
      /\ entry' = entry \/ (entry' = [entry EXCEPT ![loop.e] = r] /\ loop'.pc = pc)
  BY <1>1, <1>2 DEF Loop
<1> HIDE DEF r
<1>5. loop'.pc \notin Settling \cup {"block"} /\ pc \in Filing /\ loop.pc \notin Filing /\ cards \subseteq cards'
  BY <1>4 DEF Filing, Settling
<1>6. \/ entry' = entry
      \/ \E q : /\ entry' = [entry EXCEPT ![loop.e] = q] /\ q.state # "none"
                /\ q.branch = E.branch /\ q.pr = E.pr /\ q.pos = E.pos
                /\ q.state \in Stops =>
                      E.state \in Stops \/ (loop'.pc \in Filing /\ loop'.e = loop.e)
                /\ q.blocked => E.blocked \/ loop.pc = "block"
  BY <1>3, <1>4, <1>5 DEF Stops
<1> QED BY <1>4, <1>5, <1>6 DEF Follows

(* A step that moves it on, or looks at it, has nothing to file.            *)
LEMMA MoveFollows ==
    ASSUME QInv, UNCHANGED cards, loop.pc \notin Resting \cup Filing, NEW r \in Entry,
           r.state \notin Stops \cup {"none"}, r.branch = E.branch, r.pr = E.pr, r.pos = E.pos,
           r.blocked => E.blocked,
           entry' = entry \/ entry' = [entry EXCEPT ![loop.e] = r],
           NEW pc \in LoopPC, NEW n, pc # "block",
           pc \in Settling => loop.pc \in Settling \/ PrOf(loop.e).state = "merged",
           loop' \in {Idle, [loop EXCEPT !.pc = "pick"], [loop EXCEPT !.pc = pc],
                     [loop EXCEPT !.pc = pc, !.base = n]}
    PROVE  Follows
<1>1. loop \in Loop
  BY DEF QInv, TypeOK
<1>2. loop' = Idle \/ (loop'.e = loop.e /\ loop'.todo = loop.todo /\ loop'.pc \in {pc, "pick"})
  BY <1>1 DEF Loop
<1>3. loop'.pc \in Settling => loop.pc \in Settling \/ PrOf(loop.e).state = "merged"
  BY <1>2 DEF Idle, Settling
<1>4. loop'.pc # "block"
  BY <1>2 DEF Idle
<1> QED BY <1>2, <1>3, <1>4 DEF Follows

(* A step that only looks writes nothing.                                   *)
LEMMA LooksFollow ==
    ASSUME QInv, UNCHANGED <<entry, cards>>, loop.pc \notin Resting \cup Filing,
           NEW pc \in LoopPC, NEW n, NEW c, pc # "block",
           pc \in Settling => loop.pc \in Settling \/ PrOf(loop.e).state = "merged",
           loop' \in {Idle, [loop EXCEPT !.pc = "pick"], [loop EXCEPT !.pc = pc],
                     [loop EXCEPT !.pc = pc, !.base = n], [loop EXCEPT !.pc = pc, !.cut = c]}
    PROVE  Follows
<1>1. loop \in Loop
  BY DEF QInv, TypeOK
<1>2. loop' = Idle \/ (loop'.e = loop.e /\ loop'.todo = loop.todo /\ loop'.pc \in {pc, "pick"})
  BY <1>1 DEF Loop
<1>3. loop'.pc \in Settling => loop.pc \in Settling \/ PrOf(loop.e).state = "merged"
  BY <1>2 DEF Idle, Settling
<1>4. loop'.pc # "block"
  BY <1>2 DEF Idle
<1> QED BY <1>2, <1>3, <1>4 DEF Follows

(* So are the steps that stage,                                             *)
LEMMA StageFollows == ASSUME QInv, StageStep PROVE loop.pc \notin Resting /\ Follows
<1>1. loop.pc \notin Resting
  BY DEF StageStep, Resting, BeginStaging, GiveUp, CutClean, CutConflicted, CutUndetermined,
         RecordConflict, FileArtifact, BlockOnArtifact, ReportStopped, PushStaged,
         PushFails, RecordStaged
<1>2. E \in Entry /\ loop \in Loop
  BY <1>1, InHandType DEF QInv, TypeOK
<1>3. CASE GiveUp \/ CutUndetermined \/ RecordConflict
  <2>1. /\ loop.pc \notin Resting \cup Filing /\ UNCHANGED cards
        /\ \E pc \in {"report", "file"} :
              Transition("staging", [E EXCEPT !.state = "failed", !.blocked = FALSE], Goto(pc))
    BY <1>1, <1>3 DEF GiveUp, CutUndetermined, RecordConflict, Stop, Filing
  <2> QED BY <1>1, <2>1, StopFollows DEF Stops
<1>4. CASE BeginStaging
  <2> DEFINE r == [E EXCEPT !.state = "staging", !.blocked = FALSE]
  <2>1. /\ r \in Entry /\ r.state = "staging" /\ r.branch = E.branch /\ r.pr = E.pr
        /\ r.pos = E.pos /\ r.blocked = FALSE
    BY <1>2 DEF Entry, State, ACTIVE_STATES
  <2>2. /\ entry' = entry \/ entry' = [entry EXCEPT ![loop.e] = r]
        /\ loop' \in {[loop EXCEPT !.pc = "pick"], [loop EXCEPT !.pc = "cut"]}
        /\ UNCHANGED cards /\ loop.pc \notin Filing
    BY <1>4 DEF BeginStaging, Transition, Goto, Filing
  <2> HIDE DEF r
  <2> QED BY <1>1, <2>1, <2>2, MoveFollows DEF Stops, LoopPC, Settling
<1>5. CASE PushFails
  <2>1. CASE E.state = "staging"
    <3> DEFINE r == [E EXCEPT !.state = "queued", !.attempts = @ + 1]
    <3>1. E.attempts + 1 \in Nat
      BY <1>2 DEF Entry
    <3>2. /\ r \in Entry /\ r.state = "queued" /\ r.branch = E.branch /\ r.pr = E.pr
          /\ r.pos = E.pos /\ r.blocked = E.blocked
      BY <1>2, <3>1 DEF Entry, State, QUEUED_STATES
    <3>3. /\ entry' = [entry EXCEPT ![loop.e] = r] /\ loop' = Idle
          /\ UNCHANGED cards /\ loop.pc \notin Filing
      BY <1>5, <2>1 DEF PushFails, Transition, EndCycle, Filing
    <3> HIDE DEF r
    <3> QED BY <1>1, <3>2, <3>3, MoveFollows DEF Stops, LoopPC, Settling
  <2>2. CASE E.state # "staging"
    <3>1. /\ UNCHANGED <<entry, cards>> /\ loop' = [loop EXCEPT !.pc = "pick"]
          /\ loop.pc \notin Filing
      BY <1>5, <2>2 DEF PushFails, Transition, Goto, Filing
    <3> QED BY <1>1, <3>1, LooksFollow DEF LoopPC, Settling
  <2> QED BY <2>1, <2>2
<1>6. CASE RecordStaged
  <2> DEFINE r == [E EXCEPT !.state = "testing", !.blocked = FALSE, !.staged = loop.cut,
                            !.attempts = @ + 1, !.late = FALSE]
  <2>1. E.attempts + 1 \in Nat /\ loop.cut \in Commit
    BY <1>2 DEF Entry, Loop
  <2>2. /\ r \in Entry /\ r.state = "testing" /\ r.branch = E.branch /\ r.pr = E.pr
        /\ r.pos = E.pos /\ r.blocked = FALSE
    BY <1>2, <2>1 DEF Entry, State, ACTIVE_STATES
  <2>3. /\ entry' = entry \/ entry' = [entry EXCEPT ![loop.e] = r]
        /\ loop' \in {Idle, [loop EXCEPT !.pc = "pick"]}
        /\ UNCHANGED cards /\ loop.pc \notin Filing
    BY <1>6 DEF RecordStaged, Transition, Goto, EndCycle, Filing
  <2> HIDE DEF r
  <2> QED BY <1>1, <2>2, <2>3, MoveFollows DEF Stops, LoopPC, Settling
<1>7. CASE CutClean \/ CutConflicted \/ PushStaged
  <2>1. /\ UNCHANGED <<entry, cards>> /\ loop.pc \notin Filing
        /\ \/ loop' = [loop EXCEPT !.pc = "conflicted"] \/ loop' = [loop EXCEPT !.pc = "staged"]
           \/ \E c : loop' = [loop EXCEPT !.pc = "push", !.cut = c]
    BY <1>7 DEF CutClean, CutConflicted, PushStaged, Goto, rows, Filing
  <2> QED BY <1>1, <2>1, LooksFollow DEF LoopPC, Settling
<1>8. CASE FileArtifact
  <2>1. /\ UNCHANGED <<entry, cards>> /\ loop.pc = "file"
        /\ loop' = [loop EXCEPT !.pc = "block"] \/ loop' = [loop EXCEPT !.pc = "report"]
    BY <1>8 DEF FileArtifact, Goto
  <2>2. loop'.e = loop.e /\ loop'.todo = loop.todo /\ loop'.pc \in {"block", "report"}
    BY <1>2, <2>1 DEF Loop
  <2> QED BY <1>1, <1>8, <2>1, <2>2 DEF Follows, Filing, Settling
<1>9. CASE ReportStopped
  <2>1. /\ entry' = entry /\ loop.pc = "report" /\ loop' = [loop EXCEPT !.pc = "pick"]
        /\ cards' = cards \cup {<<E.branch, E.pr>>}
    BY <1>9 DEF ReportStopped, Goto
  <2>2. loop'.e = loop.e /\ loop'.todo = loop.todo /\ loop'.pc = "pick"
    BY <1>2, <2>1 DEF Loop
  <2> QED BY <1>1, <2>1, <2>2 DEF Follows, Settling
<1>10. CASE BlockOnArtifact
  <2>1. /\ UNCHANGED cards /\ loop.pc = "block" /\ loop' = [loop EXCEPT !.pc = "report"]
        /\ \/ entry' = entry
           \/ /\ E.state = "failed"
              /\ entry' = [entry EXCEPT ![loop.e].blocked = TRUE, ![loop.e].artifact = TRUE]
    BY <1>10 DEF BlockOnArtifact, Goto
  <2>2. loop'.e = loop.e /\ loop'.todo = loop.todo /\ loop'.pc = "report"
    BY <1>2, <2>1 DEF Loop
  <2> DEFINE r == [E EXCEPT !.blocked = TRUE, !.artifact = TRUE]
  <2>3. /\ r.state = E.state /\ r.branch = E.branch /\ r.pr = E.pr /\ r.pos = E.pos
    BY <1>2 DEF Entry
  <2>4. entry' = entry \/ (E.state = "failed" /\ entry' = [entry EXCEPT ![loop.e] = r])
    <3>1. entry \in [Ids -> Entry] /\ loop.e \in Ids
      BY <1>1, InHandType
    <3> QED BY <2>1, <3>1 DEF E
  <2> HIDE DEF r
  <2>5. \/ entry' = entry
        \/ \E q : /\ entry' = [entry EXCEPT ![loop.e] = q] /\ q.state # "none"
                  /\ q.branch = E.branch /\ q.pr = E.pr /\ q.pos = E.pos
                  /\ q.state \in Stops =>
                        E.state \in Stops \/ (loop'.pc \in Filing /\ loop'.e = loop.e)
                  /\ q.blocked => E.blocked \/ loop.pc = "block"
    BY <2>1, <2>3, <2>4
  <2> QED BY <1>1, <2>1, <2>2, <2>5 DEF Follows, Filing, Settling
<1> QED BY <1>3, <1>4, <1>5, <1>6, <1>7, <1>8, <1>9, <1>10 DEF StageStep

(* those that wait for the checks,                                          *)
LEMMA WaitFollows == ASSUME QInv, WaitStep PROVE loop.pc \notin Resting /\ Follows
<1>1. loop.pc \notin Resting \cup Filing
  BY DEF WaitStep, Resting, Filing, TimeOut, Unreachable, StopFailing, AskGitHub, Restage,
         StopClosed, Adopt
<1>2. E \in Entry /\ loop \in Loop
  BY <1>1, InHandType DEF QInv, TypeOK
<1>3. CASE TimeOut \/ StopFailing \/ StopClosed
  <2>1. /\ UNCHANGED cards
        /\ \E to \in Stops :
              Transition("testing", [E EXCEPT !.state = to, !.blocked = FALSE], Goto("report"))
    BY <1>3 DEF TimeOut, StopFailing, StopClosed, Stop, Stops
  <2> QED BY <1>1, <2>1, StopFollows
<1>4. CASE Restage
  <2> DEFINE r == [E EXCEPT !.state = "queued", !.staged = NoCommit, !.late = FALSE]
  <2>1. /\ r \in Entry /\ r.state = "queued" /\ r.branch = E.branch /\ r.pr = E.pr
        /\ r.pos = E.pos /\ r.blocked = E.blocked
    BY <1>2, IdleType DEF Entry, State, QUEUED_STATES
  <2>2. /\ entry' = entry \/ entry' = [entry EXCEPT ![loop.e] = r]
        /\ loop' \in {Idle, [loop EXCEPT !.pc = "pick"]} /\ UNCHANGED cards
    BY <1>4 DEF Restage, Transition, Goto, EndCycle
  <2> HIDE DEF r
  <2> QED BY <1>1, <2>1, <2>2, MoveFollows DEF Stops, LoopPC, Settling
<1>5. CASE Adopt
  <2> DEFINE r == [E EXCEPT !.state = "merging"]
  <2>1. /\ r \in Entry /\ r.state = "merging" /\ r.branch = E.branch /\ r.pr = E.pr
        /\ r.pos = E.pos /\ r.blocked = E.blocked
    BY <1>2 DEF Entry, State, ACTIVE_STATES
  <2>2. /\ entry' = entry \/ entry' = [entry EXCEPT ![loop.e] = r]
        /\ loop' \in {[loop EXCEPT !.pc = "pick"], [loop EXCEPT !.pc = "confirm"]}
        /\ UNCHANGED cards
    BY <1>5 DEF Adopt, Transition, Goto
  <2> HIDE DEF r
  <2> QED BY <1>1, <2>1, <2>2, MoveFollows DEF Stops, LoopPC, Settling
<1>6. CASE Unreachable
  <2>1. UNCHANGED <<entry, cards>> /\ loop' \in {Idle, [loop EXCEPT !.pc = "pick"]}
    BY <1>6 DEF Unreachable, Hold, EndCycle, Goto, rows
  <2> QED BY <1>1, <2>1, LooksFollow DEF LoopPC, Settling
<1>7. CASE AskGitHub
  <2>1. PrOf(loop.e) \in PullRequest
    BY <1>1, InHandType
  <2>2. PICK v : v = WaitVerdict(PrOf(loop.e), ref[E.branch], checks[E.branch])
    OBVIOUS
  <2>3. v \in {"adopt", "closed", "moved", "failing", "hold", "land"}
    BY <2>1, <2>2 DEF WaitVerdict, PullRequest
  <2>4. /\ UNCHANGED <<entry, cards>>
        /\ Hold("testing") \/ (v # "hold" /\ \E n \in 1..Tip : loop' = [loop EXCEPT !.pc = v, !.base = n])
    BY <1>7, <2>2 DEF AskGitHub, rows
  <2>5. CASE Hold("testing")
    <3>1. loop' \in {Idle, [loop EXCEPT !.pc = "pick"]}
      BY <2>5 DEF Hold, EndCycle, Goto
    <3> QED BY <1>1, <2>4, <3>1, LooksFollow DEF LoopPC, Settling
  <2>6. ASSUME v # "hold", NEW n \in 1..Tip, loop' = [loop EXCEPT !.pc = v, !.base = n]
        PROVE  Follows
    <3>1. v \in LoopPC /\ v # "block" /\ v \notin Settling
      BY <2>3, <2>6 DEF LoopPC, Settling
    <3> QED BY <1>1, <2>4, <2>6, <3>1, LooksFollow
  <2> QED BY <1>1, <2>4, <2>5, <2>6
<1> QED BY <1>1, <1>3, <1>4, <1>5, <1>6, <1>7 DEF WaitStep

(* and those that land.                                                     *)
LEMMA LandFollows == ASSUME QInv, LandStep, ~CloseCard PROVE loop.pc \notin Resting /\ Follows
<1>1. loop.pc \notin Resting \cup Filing
  BY DEF LandStep, Resting, Filing, FetchBase, ClaimLanding, RefuseMismatch, Merge, MergeFails,
         MergeRefused, Confirm, StopMismatch, CleanUp, Finish, CloseCard, Resume
<1>2. E \in Entry /\ loop \in Loop
  BY <1>1, InHandType DEF QInv, TypeOK
<1> DEFINE Tests(pc) == \/ entry' = entry /\ loop' = [loop EXCEPT !.pc = "pick"]
                        \/ /\ entry' = [entry EXCEPT ![loop.e] = [E EXCEPT !.state = "testing"]]
                           /\ loop' = [loop EXCEPT !.pc = pc]
<1>4. ASSUME UNCHANGED cards, NEW pc \in {"wait", "moved"}, Tests(pc) PROVE Follows
  <2> DEFINE r == [E EXCEPT !.state = "testing"]
  <2>1. /\ r \in Entry /\ r.state = "testing" /\ r.branch = E.branch /\ r.pr = E.pr
        /\ r.pos = E.pos /\ r.blocked = E.blocked
    BY <1>2 DEF Entry, State, ACTIVE_STATES
  <2>2. /\ entry' = entry \/ entry' = [entry EXCEPT ![loop.e] = r]
        /\ loop' \in {[loop EXCEPT !.pc = "pick"], [loop EXCEPT !.pc = pc]}
    BY <1>4
  <2> HIDE DEF r
  <2> QED BY <1>1, <1>4, <2>1, <2>2, MoveFollows DEF Stops, LoopPC, Settling
<1>5. CASE RefuseMismatch \/ StopMismatch
  <2>1. /\ UNCHANGED cards
        /\ Transition("merging", [E EXCEPT !.state = "failed", !.blocked = FALSE], Goto("report"))
    BY <1>5 DEF RefuseMismatch, StopMismatch, Stop
  <2> QED BY <1>1, <2>1, StopFollows DEF Stops
<1>6. CASE MergeRefused
  <2>1. UNCHANGED cards
    BY <1>6 DEF MergeRefused
  <2>2. \/ Transition("merging", [E EXCEPT !.state = "testing"], Goto("moved"))
        \/ Transition("merging", [E EXCEPT !.state = "failed", !.blocked = FALSE], Goto("report"))
    BY <1>6 DEF MergeRefused, Stop
  <2>3. CASE Transition("merging", [E EXCEPT !.state = "testing"], Goto("moved"))
    <3>1. Tests("moved")
      BY <2>3 DEF Transition, Goto
    <3> QED BY <1>1, <1>4, <2>1, <3>1
  <2> QED BY <1>1, <2>1, <2>2, <2>3, StopFollows DEF Stops
<1>7. CASE Resume
  <2>1. CASE UNCHANGED entry /\ loop' = [loop EXCEPT !.pc = "confirm"]
    <3>1. UNCHANGED cards
      BY <1>7 DEF Resume
    <3> QED BY <1>1, <2>1, <3>1, LooksFollow DEF LoopPC, Settling
  <2>2. CASE Transition("merging", [E EXCEPT !.state = "testing"], Goto("wait"))
    <3>1. UNCHANGED cards
      BY <1>7 DEF Resume
    <3>2. Tests("wait")
      BY <2>2 DEF Transition, Goto
    <3> QED BY <1>1, <1>4, <3>1, <3>2
  <2>3. \/ UNCHANGED entry /\ loop' = [loop EXCEPT !.pc = "confirm"]
        \/ Transition("merging", [E EXCEPT !.state = "testing"], Goto("wait"))
    <3>1. Goto("confirm") => loop' = [loop EXCEPT !.pc = "confirm"]
      BY DEF Goto
    <3> QED BY <1>7, <3>1 DEF Resume
  <2> QED BY <2>1, <2>2, <2>3
<1>8. CASE ClaimLanding
  <2> DEFINE r == [E EXCEPT !.state = "merging", !.blocked = FALSE]
  <2>1. /\ r \in Entry /\ r.state = "merging" /\ r.branch = E.branch /\ r.pr = E.pr
        /\ r.pos = E.pos /\ r.blocked = FALSE
    BY <1>2 DEF Entry, State, ACTIVE_STATES
  <2>2. /\ entry' = entry \/ entry' = [entry EXCEPT ![loop.e] = r]
        /\ loop' \in {[loop EXCEPT !.pc = "pick"], [loop EXCEPT !.pc = "merge"]}
        /\ UNCHANGED cards
    BY <1>8 DEF ClaimLanding, Transition, Goto
  <2> HIDE DEF r
  <2> QED BY <1>1, <2>1, <2>2, MoveFollows DEF Stops, LoopPC, Settling
<1>9. CASE Finish
  <2> DEFINE r == [E EXCEPT !.state = "merged", !.blocked = FALSE]
  <2>1. /\ r \in Entry /\ r.state = "merged" /\ r.branch = E.branch /\ r.pr = E.pr
        /\ r.pos = E.pos /\ r.blocked = FALSE
    BY <1>2 DEF Entry, State, TERMINAL_STATES
  <2>2. /\ entry' = entry \/ entry' = [entry EXCEPT ![loop.e] = r]
        /\ loop' \in {[loop EXCEPT !.pc = "pick"], [loop EXCEPT !.pc = "close"]}
        /\ UNCHANGED cards /\ loop.pc = "finish"
    BY <1>9 DEF Finish, Transition, Goto
  <2> HIDE DEF r
  <2> QED BY <1>1, <2>1, <2>2, MoveFollows DEF Stops, LoopPC, Settling
<1>10. CASE Confirm
  <2>1. /\ UNCHANGED <<entry, cards>>
        /\ \/ PrOf(loop.e).state = "merged" /\ loop' = [loop EXCEPT !.pc = "cleanup"]
           \/ loop' = [loop EXCEPT !.pc = "mismatch"]
    BY <1>10 DEF Confirm, Goto, rows
  <2> QED BY <1>1, <2>1, LooksFollow DEF LoopPC, Settling
<1>11. CASE CleanUp
  <2>1. UNCHANGED <<entry, cards>> /\ loop.pc = "cleanup" /\ loop' = [loop EXCEPT !.pc = "finish"]
    BY <1>11 DEF CleanUp, Goto, rows
  <2> QED BY <1>1, <2>1, LooksFollow DEF LoopPC, Settling
<1>12. CASE FetchBase \/ Merge \/ MergeFails
  <2>1. /\ UNCHANGED <<entry, cards>>
        /\ \E pc \in {"claim", "moved", "confirm", "refused"} : loop' = [loop EXCEPT !.pc = pc]
    BY <1>12 DEF FetchBase, Merge, MergeFails, Goto, rows
  <2> QED BY <1>1, <2>1, LooksFollow DEF LoopPC, Settling
<1> QED BY <1>1, <1>5, <1>6, <1>7, <1>8, <1>9, <1>10, <1>11, <1>12 DEF LandStep

(* A reminder closes a card two rows may share: the one it puts back stands *)
(* behind the other from then on.                                           *)
LEMMA RemindFiled ==
    ASSUME QInv, QInv', Filed, Back, NEW x \in Ids, Remind(x)
    PROVE  Filed'
<1> entry \in [Ids -> Entry]
  BY DEF QInv, TypeOK
<1>1. /\ loop.pc = "remind" /\ loop' = [loop EXCEPT !.todo = @ \ {x}] /\ prs' = prs
      /\ \/ UNCHANGED <<entry, cards>>
         \/ /\ entry[x].state \in RETRYABLE
            /\ entry' = [entry EXCEPT ![x] = Retried(entry[x], next_position)]
            /\ cards' = cards \ {<<entry[x].branch, entry[x].pr>>}
  BY DEF Remind, remote
<1>2. loop'.pc = "remind" /\ MergedStay
  BY <1>1 DEF QInv, TypeOK, Loop, MergedStay
<1>3. CASE UNCHANGED <<entry, cards>>
  <2>1. \A e \in Ids : Forth(e) /\ (Carded(e) => Carded(e)')
    BY <1>3 DEF Forth, Carded
  <2> QED BY <1>1, <1>2, <1>3, <2>1, FiledKept DEF Filing, Settling
<1>4. CASE /\ entry[x].state \in RETRYABLE
           /\ entry' = [entry EXCEPT ![x] = Retried(entry[x], next_position)]
           /\ cards' = cards \ {<<entry[x].branch, entry[x].pr>>}
  <2>1. PICK r : r = Retried(entry[x], next_position)
    OBVIOUS
  <2>2. /\ r.state = "queued" /\ r.pos = next_position
        /\ r.branch = entry[x].branch /\ r.pr = entry[x].pr
    BY <2>1 DEF Retried, Entry
  <2>3. entry'[x] = r /\ \A e \in Ids : e # x => entry'[e] = entry[e]
    BY <1>4, <2>1
  <2>4. \A e \in Ids : Forth(e) /\ (entry'[e].state \in Stops => e # x /\ entry[e].state \in Stops)
    BY <1>4, <2>2, <2>3 DEF Forth, Stops
  <2>5. ASSUME NEW e \in Ids, entry'[e].state \in Stops, Carded(e)
        PROVE  Carded(e)' \/ Reported(e)'
    <3>1. e # x /\ entry'[e] = entry[e]
      BY <2>3, <2>4, <2>5
    <3>2. CASE Shares(e, x)
      <4>1. Shares(e, x)'
        BY <2>2, <2>3, <3>1, <3>2 DEF Shares
      <4>2. entry'[x].pos > entry'[e].pos
        BY <2>2, <2>3, <3>1, NextAbove
      <4> QED BY <4>1, <4>2 DEF Reported
    <3>3. CASE ~Shares(e, x)
      BY <1>4, <2>5, <3>1, <3>3 DEF Carded, Shares
    <3> QED BY <3>2, <3>3
  <2> QED BY <1>1, <1>2, <2>4, <2>5, FiledKept DEF Filing, Settling
<1> QED BY <1>1, <1>3, <1>4

(* The loop closes the card of a pull request that merged.                  *)
LEMMA CloseFiled == ASSUME QInv, QInv', Filed, CloseCard PROVE Filed'
<1>1. /\ loop.pc = "close" /\ loop' = [loop EXCEPT !.pc = "pick"] /\ UNCHANGED <<entry, prs>>
      /\ cards' = cards \ {<<E.branch, E.pr>>} /\ PrOf(loop.e).state = "merged"
  BY DEF CloseCard, Goto, remote, Filed, Settling
<1>2. loop'.pc = "pick" /\ MergedStay /\ Back /\ \A e \in Ids : Forth(e)
  <2>1. \A e \in Ids : entry[e].pos \in Nat
    BY DEF QInv, TypeOK, Entry
  <2> QED BY <1>1, <2>1 DEF QInv, TypeOK, Loop, MergedStay, Back, Forth
<1>3. ASSUME NEW e \in Ids, Carded(e) PROVE Carded(e)' \/ Reported(e)'
  <2>1. CASE entry[e].branch = E.branch /\ entry[e].pr = E.pr
    <3>1. PrOf(e).state = "merged"
      BY <1>1, <2>1 DEF PrOf, E
    <3> QED BY <1>1, <3>1 DEF Reported, PrOf
  <2>2. CASE ~(entry[e].branch = E.branch /\ entry[e].pr = E.pr)
    BY <1>1, <1>3, <2>2 DEF Carded
  <2> QED BY <2>1, <2>2
<1> QED BY <1>1, <1>2, <1>3, FiledKept DEF Filing, Settling

(* Between two rows the loop has nothing to file.                           *)
LEMMA CycleFiled ==
    ASSUME QInv, QInv', Filed, Tick \/ RemindDone \/ Pick PROVE Filed'
<1>1. loop.pc \in Resting /\ UNCHANGED <<entry, cards, prs>>
  BY DEF Tick, RemindDone, Pick, rows, remote, Resting
<1>2. loop'.pc \notin Settling
  <2>1. CASE Pick
    <3>1. loop' = Idle \/ \E e \in head_entry :
             loop' = [loop EXCEPT !.e = e, !.seen = @ \cup {e}, !.cut = entry[e].staged,
                                  !.pc = StepOf(entry[e].state)]
      BY <2>1 DEF Pick, EndCycle
    <3>2. CASE loop' = Idle
      BY <3>2 DEF Idle, Settling
    <3>3. ASSUME NEW e \in head_entry,
                 loop' = [loop EXCEPT !.e = e, !.seen = @ \cup {e}, !.cut = entry[e].staged,
                                      !.pc = StepOf(entry[e].state)]
          PROVE  loop'.pc \notin Settling
      <4>1. entry[e].state \in {"queued", "staging", "testing", "merging"}
        BY DEF head_entry, First, Active, Live, QUEUED_STATES, ACTIVE_STATES
      <4>2. StepOf(entry[e].state) \in {"stage", "cut", "wait", "resume"}
        BY <4>1 DEF StepOf
      <4>3. loop'.pc = StepOf(entry[e].state)
        BY <3>3 DEF QInv, TypeOK, Loop
      <4> QED BY <4>2, <4>3 DEF Settling
    <3> QED BY <3>1, <3>2, <3>3
  <2>2. CASE Tick \/ RemindDone
    <3>1. loop \in Loop
      BY DEF QInv, TypeOK
    <3> QED BY <2>2, <3>1 DEF Tick, RemindDone, Goto, Idle, Loop, Settling
  <2> QED BY <2>1, <2>2
<1>3. MergedStay /\ Back /\ \A e \in Ids : Forth(e) /\ (Carded(e) => Carded(e)')
  <2>1. \A e \in Ids : entry[e].pos \in Nat
    BY DEF QInv, TypeOK, Entry
  <2> QED BY <1>1, <2>1 DEF MergedStay, Back, Forth, Carded
<1> QED BY <1>1, <1>2, <1>3, FiledKept DEF Resting, Filing

(* The loop loses no stop.                                                  *)
LEMMA LoopFiled == ASSUME QInv, QInv', Filed, Back, LoopStep PROVE Filed'
<1>1. MergedStay
  <2>1. CASE Merge
    <3>1. /\ E.branch \in Branches /\ E.pr \in 1..Len(prs[E.branch]) /\ loop.e \in Ids \cup {0}
          /\ loop.cut \in Commit
      BY <2>1, InHandType DEF Merge, Resting, QInv, TypeOK, Loop
    <3> QED BY <2>1, <3>1, SquashStays DEF Merge, Mergeable
  <2> QED BY <2>1, LoopRemote
<1>2. CASE StageStep \/ WaitStep \/ (LandStep /\ ~CloseCard)
  BY <1>1, <1>2, StageFollows, WaitFollows, LandFollows, FollowsKept
<1> QED BY <1>2, RemindFiled, CloseFiled, CycleFiled DEF LoopStep

(* An entry that stopped is not forgotten: what stops it goes on to file    *)
(* its card in the same cycle, and nothing takes the card away but a        *)
(* landing of the pull request, or a reminder for a row that shares it.     *)
(* This needs that the server does not die between the two, and that no     *)
(* retry writes a position older than the one its row was given meanwhile.  *)
THEOREM StopsAreReported ==
    Spec /\ scene.events["crash"] = 0 /\ [][Back]_vars => []StoppedIsReported
<1> DEFINE Uncrashed == scene.events["crash"] = 0
<1>1. Init => Filed
  <2> SUFFICES ASSUME Init PROVE Filed
    OBVIOUS
  <2>1. loop.pc = "idle" /\ \A e \in Ids : entry[e].state = "none" /\ entry[e].pos = 0
    BY DEF Init, Idle, NoEntry
  <2> QED BY <2>1 DEF Filed, Stops, Settling
<1>2. QInv /\ Uncrashed /\ [Next]_vars => Uncrashed'
  BY Spending DEF Events
<1>3. QInv /\ QInv' /\ Filed /\ Uncrashed /\ [Next]_vars /\ [Back]_vars => Filed'
  <2> SUFFICES ASSUME QInv, QInv', Filed, Uncrashed, [Next]_vars, [Back]_vars PROVE Filed'
    OBVIOUS
  <2>1. CASE UNCHANGED vars
    BY <2>1 DEF vars, rows, remote, Filed, Reported, Carded, Shares, PrOf
  <2>2. CASE Next /\ Back
    <3>1. ~Crash
      BY DEF Crash, Spend
    <3> QED BY <2>2, <3>1, LoopFiled, OthersFiled DEF Next
  <2> QED BY <2>1, <2>2
<1>4. Filed => StoppedIsReported
  BY DEF Filed, StoppedIsReported, Reported, Carded, Shares, Stops, Filing
<1> QED BY <1>1, <1>2, <1>3, <1>4, QueueInvariant, PTL DEF Spec

(* Places.  A row is put behind everybody, or where a retry found the end   *)
(* of the line when it read it.                                             *)
LEMMA Places ==
    ASSUME QInv, [Next]_vars, ~RetryWrite, NEW e \in Ids
    PROVE  \/ entry'[e].pos = entry[e].pos
           \/ /\ entry'[e].pos = next_position
              /\ entry[e].state = "none" \/ (Remind(e) /\ entry' # entry)
<1> DEFINE Placed == \/ entry'[e].pos = entry[e].pos
                     \/ /\ entry'[e].pos = next_position
                        /\ entry[e].state = "none" \/ (Remind(e) /\ entry' # entry)
<1> entry \in [Ids -> Entry]
  BY DEF QInv, TypeOK
<1>1. entry' = entry => Placed
  OBVIOUS
<1>2. CASE StageStep \/ WaitStep \/ (LandStep /\ ~CloseCard)
  <2>1. Follows /\ loop.pc \notin Resting
    BY <1>2, StageFollows, WaitFollows, LandFollows
  <2>2. PICK x \in Ids : x = loop.e /\ entry[x] = E
    BY <2>1, InHandType DEF E
  <2>3. ASSUME NEW r, entry' = [entry EXCEPT ![loop.e] = r], r.pos = E.pos
        PROVE  entry'[e].pos = entry[e].pos
    BY <2>2, <2>3
  <2> QED BY <2>1, <2>3 DEF Follows
<1>3. CASE CloseCard \/ Tick \/ RemindDone \/ Pick \/ Crash \/ UNCHANGED vars
  BY <1>1, <1>3 DEF CloseCard, Tick, RemindDone, Pick, Crash, vars, rows
<1>4. ASSUME NEW x \in Ids, Remind(x), entry' # entry PROVE Placed
  <2>1. PICK r : r = Retried(entry[x], next_position)
    OBVIOUS
  <2>2. entry' = [entry EXCEPT ![x] = r]
    BY <1>4, <2>1 DEF Remind
  <2>3. r.pos = next_position
    BY <2>1 DEF Retried, Entry
  <2> QED BY <1>4, <2>2, <2>3
<1>5. CASE AdmitStep
  <2>1. PICK a \in Admitters :
           \/ \E b \in Branches : StartPublish(a, b) \/ Request(a, b)
           \/ PushPublish(a) \/ OpenPr(a) \/ PublishFails(a)
           \/ Lookup(a) \/ Repoint(a) \/ Insert(a)
    BY <1>5 DEF AdmitStep
  <2>2. CASE \/ \E b \in Branches : StartPublish(a, b) \/ Request(a, b)
             \/ PushPublish(a) \/ OpenPr(a) \/ PublishFails(a) \/ Lookup(a)
    BY <1>1, <2>2 DEF StartPublish, Request, PushPublish, OpenPr, PublishFails, Lookup, rows
  <2>3. CASE Repoint(a) /\ entry' # entry
    <3>1. PICK x, w : x = adm[a].target /\ w = adm[a].work
      OBVIOUS
    <3>2. entry' = [entry EXCEPT ![x].state = "queued", ![x].blocked = FALSE,
                                 ![x].work = w, ![x].staged = NoCommit, ![x].late = FALSE]
      BY <2>3, <3>1 DEF Repoint
    <3> QED BY <3>2 DEF Entry
  <2>4. CASE Insert(a) /\ entry' # entry
    <3>1. PICK x \in Ids : /\ entry[x].state = "none"
                           /\ entry' = [entry EXCEPT ![x] =
                                [NoEntry EXCEPT !.state = "queued", !.branch = adm[a].branch,
                                                !.pr = adm[a].pr, !.work = adm[a].work,
                                                !.pos = next_position]]
      BY <2>4 DEF Insert
    <3>2. entry'[x].pos = next_position /\ (e # x => entry'[e] = entry[e])
      BY <3>1 DEF NoEntry
    <3> QED BY <3>1, <3>2
  <2> QED BY <1>1, <2>1, <2>2, <2>3, <2>4
<1>6. CASE OperatorStep
  <2>1. ASSUME NEW x \in Ids, Withdraw(x) PROVE Placed
    BY <2>1 DEF Withdraw, Entry
  <2> QED BY <1>1, <1>6, <2>1 DEF OperatorStep, RetryRead, RetryAgain, rows
<1>7. CASE WorldStep
  <2>1. ASSUME NEW x \in Ids, TimePasses(x) PROVE Placed
    BY <2>1 DEF TimePasses, Entry
  <2> QED BY <1>1, <1>7, <2>1 DEF WorldStep, Commits, OutsideMerge, OutsideClose, CheckReports,
                                  ResolveConflict, OutsidePush, rows
<1> QED BY <1>1, <1>2, <1>3, <1>4, <1>5, <1>6, <1>7 DEF Next, LoopStep

(* While nobody closes a conflict ticket, a blocked row has one open, so no *)
(* reminder retries it, and a retry finds its row where it read it.         *)
Unresolved ==
    /\ scene.events["resolve"] = 0
    /\ \A e \in Ids : entry[e].blocked => artifact[e] = "open"
    /\ \A e \in loop.todo : artifact[e] = "open"
    /\ loop.pc = "block" => artifact[loop.e] = "open"
    /\ op.pc # "idle" => entry[op.e].pos <= op.pos

(* Nobody else blocks a row.                                                *)
LEMMA OthersBlock ==
    ASSUME QInv, AdmitStep \/ OperatorStep \/ WorldStep, NEW e \in Ids, entry'[e].blocked
    PROVE  entry[e].blocked
<1> entry \in [Ids -> Entry]
  BY DEF QInv, TypeOK
<1>1. CASE AdmitStep
  <2>1. PICK a \in Admitters :
           \/ \E b \in Branches : StartPublish(a, b) \/ Request(a, b)
           \/ PushPublish(a) \/ OpenPr(a) \/ PublishFails(a)
           \/ Lookup(a) \/ Repoint(a) \/ Insert(a)
    BY <1>1 DEF AdmitStep
  <2>2. CASE Repoint(a) /\ entry' # entry
    <3>1. PICK x, w : x = adm[a].target /\ w = adm[a].work
      OBVIOUS
    <3>2. entry' = [entry EXCEPT ![x].state = "queued", ![x].blocked = FALSE,
                                 ![x].work = w, ![x].staged = NoCommit, ![x].late = FALSE]
      BY <2>2, <3>1 DEF Repoint
    <3> QED BY <3>2 DEF Entry
  <2>3. CASE Insert(a) /\ entry' # entry
    <3>1. PICK x \in Ids : entry' = [entry EXCEPT ![x] =
                                [NoEntry EXCEPT !.state = "queued", !.branch = adm[a].branch,
                                                !.pr = adm[a].pr, !.work = adm[a].work,
                                                !.pos = next_position]]
      BY <2>3 DEF Insert
    <3>2. ~entry'[x].blocked /\ (e # x => entry'[e] = entry[e])
      BY <3>1 DEF NoEntry
    <3> QED BY <3>2
  <2> QED BY <2>1, <2>2, <2>3 DEF StartPublish, Request, PushPublish, OpenPr, PublishFails, Lookup, rows
<1>2. CASE OperatorStep
  <2>1. ASSUME NEW x \in Ids, Withdraw(x) PROVE entry[e].blocked
    BY <2>1 DEF Withdraw, Entry
  <2>2. ASSUME RetryWrite, entry' # entry PROVE entry[e].blocked
    <3>1. PICK r, x : r = Retried(entry[op.e], op.pos) /\ x = op.e
      OBVIOUS
    <3>2. entry' = [entry EXCEPT ![x] = r] /\ x \in Ids
      BY <2>2, <3>1 DEF RetryWrite, QInv, Others, IsRow
    <3>3. ~r.blocked
      BY <3>1, <3>2 DEF Retried, Entry
    <3> QED BY <3>2, <3>3
  <2> QED BY <1>2, <2>1, <2>2 DEF OperatorStep, RetryRead, RetryAgain, rows
<1>3. CASE WorldStep
  <2>1. ASSUME NEW x \in Ids, TimePasses(x) PROVE entry[e].blocked
    BY <2>1 DEF TimePasses, Entry
  <2> QED BY <1>3, <2>1 DEF WorldStep, Commits, OutsideMerge, OutsideClose, CheckReports,
                            ResolveConflict, OutsidePush, rows
<1> QED BY <1>1, <1>2, <1>3

(* The loop blocks a row on the ticket it has just opened, and reminds of   *)
(* blocked ones alone.                                                      *)
LEMMA UnresolvedByLoop ==
    ASSUME QInv, Unresolved, LoopStep
    PROVE  /\ \A e \in Ids : entry'[e].blocked => artifact'[e] = "open"
           /\ \A e \in loop'.todo : artifact'[e] = "open"
           /\ loop'.pc = "block" => artifact'[loop'.e] = "open"
<1> loop \in Loop /\ entry \in [Ids -> Entry] /\ artifact \in [Ids -> {"none", "open", "done"}]
  BY DEF QInv, TypeOK
<1>1. CASE StageStep \/ WaitStep \/ (LandStep /\ ~CloseCard)
  <2>1. Follows /\ loop.pc \notin Resting
    BY <1>1, StageFollows, WaitFollows, LandFollows
  <2>2. PICK x \in Ids : x = loop.e /\ entry[x] = E
    BY <2>1, InHandType DEF E
  <2>3. artifact' = artifact \/ (FileArtifact /\ artifact' = [artifact EXCEPT ![x] = "open"])
    BY <1>1, <2>2 DEF StageStep, WaitStep, LandStep, BeginStaging, GiveUp, CutClean, CutConflicted,
              CutUndetermined, RecordConflict, FileArtifact, BlockOnArtifact, ReportStopped,
              PushStaged, PushFails, RecordStaged, TimeOut, Unreachable, AskGitHub, StopFailing,
              Restage, StopClosed, Adopt, FetchBase, ClaimLanding, RefuseMismatch, Merge,
              MergeFails, MergeRefused, Confirm, StopMismatch, CleanUp, Finish, Resume, rows
  <2>4. \A e \in Ids : artifact[e] = "open" => artifact'[e] = "open"
    BY <2>3
  <2>5. ASSUME NEW e \in Ids, entry'[e].blocked PROVE artifact'[e] = "open"
    <3>1. ASSUME NEW r, entry' = [entry EXCEPT ![loop.e] = r],
                 r.blocked => E.blocked \/ loop.pc = "block"
          PROVE  artifact'[e] = "open"
      BY <2>2, <2>4, <2>5, <3>1 DEF Unresolved
    <3>2. CASE entry' = entry
      BY <2>4, <2>5, <3>2 DEF Unresolved
    <3> QED BY <2>1, <3>1, <3>2 DEF Follows
  <2>6. \A e \in loop'.todo : artifact'[e] = "open"
    BY <2>1, <2>4 DEF Follows, Idle, Unresolved, Loop
  <2>7. ASSUME loop'.pc = "block" PROVE artifact'[loop'.e] = "open"
    <3>1. FileArtifact /\ loop'.e = x
      BY <2>1, <2>2, <2>7 DEF Follows, Idle
    <3>2. artifact' = [artifact EXCEPT ![x] = "open"]
      BY <2>2, <2>7, <3>1 DEF FileArtifact, Goto, Loop
    <3> QED BY <3>1, <3>2
  <2> QED BY <2>5, <2>6, <2>7
<1>2. CASE CloseCard \/ RemindDone \/ Pick
  <2>1. UNCHANGED <<entry, artifact>>
    BY <1>2 DEF CloseCard, RemindDone, Pick, rows
  <2>2. loop'.todo \subseteq loop.todo /\ loop'.pc # "block"
    <3>1. CASE CloseCard \/ RemindDone
      BY <3>1 DEF CloseCard, RemindDone, Goto, Loop
    <3>2. CASE Pick /\ loop' = Idle
      BY <3>2 DEF Idle
    <3>3. ASSUME NEW e \in head_entry,
                 loop' = [loop EXCEPT !.e = e, !.seen = @ \cup {e}, !.cut = entry[e].staged,
                                      !.pc = StepOf(entry[e].state)]
          PROVE  loop'.todo \subseteq loop.todo /\ loop'.pc # "block"
      <4>1. entry[e].state \in {"queued", "staging", "testing", "merging"}
        BY DEF head_entry, First, Active, Live, QUEUED_STATES, ACTIVE_STATES
      <4>2. StepOf(entry[e].state) \in {"stage", "cut", "wait", "resume"}
        BY <4>1 DEF StepOf
      <4>3. loop'.pc = StepOf(entry[e].state) /\ loop'.todo = loop.todo
        BY <3>3 DEF Loop
      <4> QED BY <4>2, <4>3
    <3> QED BY <1>2, <3>1, <3>2, <3>3 DEF Pick, EndCycle
  <2> QED BY <2>1, <2>2 DEF Unresolved
<1>3. CASE Tick
  <2>1. /\ loop'.todo \subseteq {e \in Ids : entry[e].blocked} /\ loop'.pc = "remind"
        /\ UNCHANGED <<entry, artifact>>
    BY <1>3 DEF Tick, Idle, rows
  <2> QED BY <2>1 DEF Unresolved
<1>4. ASSUME NEW x \in Ids, Remind(x)
      PROVE  /\ UNCHANGED <<entry, artifact>> /\ loop'.todo \subseteq loop.todo
             /\ loop'.pc # "block"
  <2>1. /\ loop.pc = "remind" /\ x \in loop.todo /\ loop' = [loop EXCEPT !.todo = @ \ {x}]
        /\ artifact' = artifact /\ (artifact[x] = "open" => entry' = entry)
    BY <1>4 DEF Remind, First
  <2> QED BY <2>1 DEF Unresolved, Loop
<1> QED BY <1>1, <1>2, <1>3, <1>4 DEF LoopStep, Unresolved

(* And every step leaves it so.                                             *)
LEMMA UnresolvedStep == ASSUME QInv, Unresolved, [Next]_vars PROVE Unresolved'
<1>1. scene'.events["resolve"] = 0
  BY Spending DEF Unresolved, Events
<1>2. /\ \A e \in Ids : entry'[e].blocked => artifact'[e] = "open"
      /\ \A e \in loop'.todo : artifact'[e] = "open"
      /\ loop'.pc = "block" => artifact'[loop'.e] = "open"
  <2>1. CASE AdmitStep \/ OperatorStep \/ WorldStep
    <3>1. artifact' = artifact
      <4>1. \A e \in Ids : ~ResolveConflict(e)
        BY DEF Unresolved, ResolveConflict, Spend
      <4> QED BY <2>1, <4>1 DEF AdmitStep, StartPublish, Request, PushPublish, OpenPr, PublishFails,
                  Lookup, Repoint, Insert, OperatorStep, Withdraw, RetryRead, RetryWrite, RetryAgain,
                  WorldStep, Commits, OutsideMerge, OutsideClose, CheckReports, TimePasses,
                  OutsidePush, rows
    <3>2. loop' = loop
      BY <2>1, OthersForth
    <3> QED BY <2>1, <3>1, <3>2, OthersBlock DEF Unresolved
  <2>2. CASE Crash \/ UNCHANGED vars
    BY <2>2 DEF Crash, EndCycle, Idle, vars, rows, Unresolved
  <2> QED BY <2>1, <2>2, UnresolvedByLoop DEF Next
<1>3. op'.pc # "idle" => entry'[op'.e].pos <= op'.pos
  <2>1. ASSUME op'.pc # "idle", op' = op, ~RetryWrite PROVE entry'[op.e].pos <= op.pos
    <3>1. op.e \in Ids /\ entry[op.e].state # "none"
      BY <2>1 DEF QInv, Others, IsRow
    <3>2. PICK x \in Ids : x = op.e
      BY <3>1
    <3>3. ~(Remind(x) /\ entry' # entry)
      BY DEF Remind, First, Unresolved
    <3>4. entry'[x].pos = entry[x].pos
      BY <2>1, <3>1, <3>2, <3>3, Places
    <3> QED BY <2>1, <3>2, <3>4 DEF Unresolved
  <2>2. ASSUME RetryWrite, op'.pc # "idle" PROVE entry'[op'.e].pos <= op'.pos
    <3>1. op' = [op EXCEPT !.pc = "again"] /\ entry' = entry /\ op.pc # "idle" /\ op \in Op
      BY <2>2 DEF RetryWrite, NoOp, QInv, TypeOK
    <3> QED BY <3>1 DEF Unresolved, Op
  <2>3. CASE RetryAgain /\ op'.pc # "idle"
    <3>1. /\ op' = [op EXCEPT !.pc = "write", !.from = entry[op.e].state, !.pos = next_position]
          /\ entry' = entry /\ op.e \in Ids /\ op \in Op
      BY <2>3 DEF RetryAgain, NoOp, rows, QInv, TypeOK, Others, IsRow
    <3>2. op'.e = op.e /\ op'.pos = next_position
      BY <3>1 DEF Op
    <3> QED BY <3>1, <3>2, NextAbove
  <2>4. ASSUME NEW x \in Ids, RetryRead(x) PROVE entry'[op'.e].pos <= op'.pos
    <3>1. op'.e = x /\ op'.pos = next_position /\ entry' = entry
      BY <2>4 DEF RetryRead, rows
    <3> QED BY <3>1, NextAbove
  <2>5. CASE op' = op /\ ~RetryWrite
    BY <2>1, <2>5
  <2>6. CASE AdmitStep
    <3>1. op' = op
      BY <2>6 DEF AdmitStep, StartPublish, Request, PushPublish, OpenPr, PublishFails, Lookup,
                  Repoint, Insert
    <3> QED BY <2>2, <2>5, <3>1
  <2>7. CASE WorldStep
    BY <2>2, <2>5, <2>7 DEF WorldStep, Commits, OutsideMerge, OutsideClose, CheckReports, TimePasses,
                      ResolveConflict, OutsidePush
  <2>8. CASE OperatorStep
    BY <2>2, <2>3, <2>4, <2>5, <2>8 DEF OperatorStep, Withdraw
  <2>9. CASE LoopStep \/ Crash \/ UNCHANGED vars
    BY <2>2, <2>5, <2>9, LoopAlone DEF Crash, vars
  <2> QED BY <2>6, <2>7, <2>8, <2>9 DEF Next
<1> QED BY <1>1, <1>2, <1>3 DEF Unresolved

(* Nobody jumps the line where operators do not retry, or nobody closes a   *)
(* conflict ticket: a retry then finds its row where it stood when it read  *)
(* the end of the line, and everybody else is put behind all.               *)
THEOREM RowsMoveBack ==
    Spec /\ (scene.events["retry"] = 0 \/ scene.events["resolve"] = 0) => [][Back]_vars
<1> DEFINE Orderly == Unretried \/ Unresolved
<1>1. Init /\ (scene.events["retry"] = 0 \/ scene.events["resolve"] = 0) => Orderly
  <2>1. Init => op.pc = "idle" /\ loop.pc = "idle" /\ loop.todo = {}
                /\ \A e \in Ids : ~entry[e].blocked
    BY DEF Init, NoOp, Idle, NoEntry
  <2> QED BY <2>1 DEF Unretried, Unresolved
<1>2. QInv /\ Orderly /\ [Next]_vars => Orderly'
  BY UnretriedKept, UnresolvedStep
<1>3. ASSUME QInv, Orderly, [Next]_vars PROVE [Back]_vars
  <2> HIDE DEF Orderly
  <2>1. next_position \in Nat /\ \A e \in Ids : entry[e].pos \in Nat /\ entry[e].pos < next_position
    BY <1>3, NextAbove
  <2>2. CASE ~RetryWrite
    <3>1. \A e \in Ids : entry'[e].pos \in {entry[e].pos, next_position}
      BY <1>3, <2>2, Places
    <3> QED BY <2>1, <3>1 DEF Back
  <2>3. CASE RetryWrite
    <3>1. Unresolved
      BY <1>3, <2>3 DEF RetryWrite, Unretried, Orderly
    <3>2. CASE entry' = entry
      BY <2>1, <3>2 DEF Back
    <3>3. CASE entry' # entry
      <4>1. PICK r, x : r = Retried(entry[op.e], op.pos) /\ x = op.e
        OBVIOUS
      <4>2. entry' = [entry EXCEPT ![x] = r] /\ x \in Ids /\ entry[x] \in Entry /\ entry \in [Ids -> Entry]
        BY <1>3, <2>3, <3>3, <4>1 DEF RetryWrite, QInv, Others, IsRow, TypeOK
      <4>3. r.pos = op.pos
        BY <4>1, <4>2 DEF Retried, Entry
      <4>4. entry[x].pos <= op.pos
        BY <2>3, <3>1, <4>1 DEF RetryWrite, Unresolved
      <4> QED BY <2>1, <4>2, <4>3, <4>4 DEF Back
    <3> QED BY <3>2, <3>3
  <2> QED BY <2>2, <2>3
<1> QED BY <1>1, <1>2, <1>3, QueueInvariant, PTL DEF Spec

=============================================================================
