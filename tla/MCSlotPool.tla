----------------------------- MODULE MCSlotPool -----------------------------
(* Small instances of SlotPool for TLC.                                     *)
EXTENDS SlotPool

CONSTANTS k1, k2

Scene(timer, pool, webs, tickets, happens) ==
    [timer |-> timer, pool |-> pool, webs |-> webs, tickets |-> tickets,
     events |-> [x \in Events |-> IF x \in DOMAIN happens THEN happens[x] ELSE 0]]

(* Two requests at a time, and the pass only runs at boot.                  *)
Races ==
    {Scene(FALSE, 2, 2, Tickets, [start |-> 2]),
     Scene(FALSE, 2, 2, {k1}, [start |-> 2, add |-> 1]),
     Scene(FALSE, 1, 2, Tickets, [start |-> 2, add |-> 1]),
     Scene(FALSE, 2, 2, Tickets, [start |-> 1, add |-> 1, crash |-> 1])}

(* The pass runs, one request at a time, and one thing goes wrong.          *)
Repairs ==
    {Scene(TRUE, 1, 1, Tickets, [add |-> 2]),
     Scene(TRUE, 1, 1, {k1}, [start |-> 1, add |-> 1, refuse |-> 1]),
     Scene(TRUE, 1, 1, {k1}, [add |-> 1, block |-> 2, overlap |-> 1]),
     Scene(TRUE, 1, 1, Tickets, [start |-> 1, cancel |-> 1, overlap |-> 1]),
     Scene(TRUE, 1, 2, {k1}, [start |-> 1, cancel |-> 1, refuse |-> 1]),
     Scene(TRUE, 1, 2, Tickets, [start |-> 1, slow |-> 1, overlap |-> 1]),
     Scene(TRUE, 2, 1, Tickets, [add |-> 1, drain |-> 1, overlap |-> 1]),
     Scene(TRUE, 2, 1, Tickets, [start |-> 1, drain |-> 1, overlap |-> 1]),
     Scene(TRUE, 2, 1, Tickets, [add |-> 1, crash |-> 1, overlap |-> 1]),
     Scene(TRUE, 2, 1, Tickets, [start |-> 1, crash |-> 1, overlap |-> 1])}

RacesAndRepairs == Races \cup Repairs
=============================================================================
