-------------------------- MODULE MCCapacityLedger --------------------------
(* Small instances of CapacityLedger for TLC.                               *)
EXTENDS CapacityLedger, TLC

CONSTANTS a, b, c, s, l1, l2, l3, l4

(* One priced resource besides the lease slots; prices of one or two units. *)
Ask(pool, n) == [pool |-> pool, price |-> [d \in Dim |-> IF d = "slots" THEN 1 ELSE n]]
Nest(pool, n) == [pool |-> pool, price |-> [d \in Dim |-> IF d = "slots" THEN 0 ELSE n]]

Both(cpus, slots) == [q \in Pool |-> [d \in Dim |-> IF d = "slots" THEN slots ELSE cpus]]

Cpus == {"cpus"}

(* The machine: one unit of each.                                           *)
OneSlot == {Both(1, 1)}

(* Claimants that differ in nothing.                                        *)
Interchangeable == Permutations(Proc) \cup Permutations(Lease)

(* Two holders, and two processes nested in their work that may be killed.  *)
FamilyRoles == [p \in Proc |-> IF p \in {a, b} THEN {"reserve"} ELSE {"nest", "die"}]
FamilyPrices == {Ask("docker", 2), Ask("host", 1)}
NestedPrices == {Nest("docker", 1), Nest("host", 2)}
ThreeCpus == {Both(3, 2)}
FamilySymmetry == Permutations({a, b}) \cup Permutations({c, s}) \cup Permutations(Lease)

(* Two claimants that may be killed, and the reconcile timer.               *)
RecoveryRoles == [p \in Proc |-> IF p = s THEN {"sweep"} ELSE {"reserve", "reclaim", "die"}]
LightPrices == {Ask("host", 1)}

(* Everything that may end a lease: a waiter that reclaims, gives up or is   *)
(* killed, a CLI waiter that sweeps, an operator; a machine that shrinks    *)
(* and grows, lapsed leases, contention.                                    *)
AnyRoles == [p \in Proc |->
    CASE p = a -> {"reserve", "reclaim", "giveup", "die"}
      [] p = b -> {"reserve", "sweep"}
      [] OTHER -> {"operate"}]
DockerPrices == {Ask("docker", 1)}
Resized == {Both(2, 2), Both(1, 1)}
LeaseSymmetry == Permutations(Lease)
=============================================================================
