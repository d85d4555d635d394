--------------------------- MODULE MCRunLifecycle ---------------------------
(* Small instances of RunLifecycle.  A scenario names the events that may   *)
(* happen, each once (a start, a crash, a cancelled run, ...) and whichever *)
(* it does not name never happens.                                          *)
EXTENDS RunLifecycle

Happens(S) == [e \in Events |-> IF e \in S THEN 1 ELSE 0]

Twice(e, S) == [Happens(S) EXCEPT ![e] = 2]

(* Superseded by a second start, or by a restart; driven and retried; the   *)
(* board and a drive on one stage; a stop, a drain, a ps that does not      *)
(* answer, a lease missed, both of them; a drive ended from outside, a      *)
(* completion that raises.                                                  *)
Troubles ==
    {Twice("start", {}),
     Happens({"start", "drive"}),
     Happens({"start", "crash", "mute"}),
     Happens({"start", "missed", "mute"}),
     Happens({"start", "drain", "missed", "raise"}),
     Happens({"drive", "retry", "crash"}),
     Happens({"drive", "cancel", "crash", "mute"}),
     Happens({"drive", "over", "missed"}),
     Happens({"drive", "over", "mute"}),
     Happens({"drive", "over", "crash"}),
     Happens({"drive", "raise", "missed", "drain"})}
=============================================================================
