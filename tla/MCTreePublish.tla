---------------------------- MODULE MCTreePublish ----------------------------
(* Small instances of TreePublish for TLC.                                  *)
EXTENDS TreePublish

CONSTANTS r1, l1, w1

Once(S) == [x \in Events |-> IF x \in S THEN 1 ELSE 0]

(* A drain, or a completion that publishes on its own thread and a failure  *)
(* nobody gets to see; a thread that cannot start, a restart.               *)
Troubles == {Once({"drain", "unstarted", "restart"}),
             Once({"complete", "unrecorded", "unstarted", "restart"})}
=============================================================================
