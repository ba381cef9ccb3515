-------------------------------- MODULE Clock --------------------------------
(* Date.now(), which the components that keep times read. *)
EXTENDS Integers

CONSTANT MaxNow         \* bound

ASSUME ClockAssumption == MaxNow \in Nat

VARIABLE now

Tick == now < MaxNow /\ now' = now + 1
=============================================================================
