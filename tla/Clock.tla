------------------------------- MODULE Clock -------------------------------
(* The wall clock the services read with Date.now(), up to a bound.         *)
EXTENDS Naturals

CONSTANT MaxTime   \* bound on the clock

ASSUME MaxTimeAssumption == MaxTime \in Nat

VARIABLE now

ClockInit == now = 0
Tick      == now < MaxTime /\ now' = now + 1
=============================================================================
