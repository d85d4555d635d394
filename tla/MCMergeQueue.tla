---------------------------- MODULE MCMergeQueue ----------------------------
(* Small instances of MergeQueue for TLC.                                   *)
EXTENDS MergeQueue, TLC

CONSTANTS b1, b2, a1, a2

Twins == Permutations(Branches) \cup Permutations(Admitters)

(* n tickets land, and each of S happens once.                              *)
World(n, S) == [x \in Events |-> IF x = "commit" THEN n ELSE IF x \in S THEN 1 ELSE 0]

(* One required check, and a ruleset that wants an up-to-date head.         *)
Plain(events) == [required |-> {"tests"}, strict |-> TRUE, conflicts |-> FALSE, prs |-> 1,
                  work |-> 1, events |-> events]

(* Both may land on one branch.                                             *)
Twice(events) == [Plain(events) EXCEPT !.work = 2]

Conflicting(events) == [Plain(events) EXCEPT !.conflicts = TRUE]

(* Two of them, and a ruleset that does not.                                *)
Lax(events) == [Plain(events) EXCEPT !.required = {"tests", "ux"}, !.strict = FALSE,
                                     !.prs = 2]

(* Somebody closes a conflict ticket, the server restarts; or an operator   *)
(* withdraws.                                                               *)
Recovery ==
    {Conflicting(World(2, {"resolve", "crash"})),
     Twice(World(2, {"withdraw"}))}

(* Operators withdraw and retry, and one of GitHub's answers is lost; or    *)
(* people push to the base, merge and close pull requests, and queue a      *)
(* ticket by hand; or two publishes overlap.                                *)
OperatorsOrPeople ==
    {Conflicting(World(2, {"withdraw", "retry", "lost"})),
     Lax(World(1, {"outside", "merge", "close", "request"})),
     Twice(World(2, {"overlap"}))}

(* GitHub merges and the answer is lost; an operator withdraws.             *)
LostMerge == {Plain(World(1, {"lost", "withdraw"}))}
=============================================================================
