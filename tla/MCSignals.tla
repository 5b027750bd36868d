----------------------------- MODULE MCSignals -----------------------------
(* A small instance of Signals for TLC. *)
EXTENDS Signals

CONSTANTS a1, a2, a3, t1, s1, s2

ThreeActors == {a1, a2, a3}
OneTimer == {t1}
TwoStates == {s1, s2}

\* Two watch a third; one watches and has a timer; two watch each other.
SmallPlans ==
  {[watch |-> {<<a1, a3>>, <<a2, a3>>}, schedule |-> {}, end |-> {a1, a3}],
   [watch |-> {<<a1, a3>>}, schedule |-> {a1}, end |-> {a1, a3}],
   [watch |-> {<<a1, a2>>, <<a2, a1>>}, schedule |-> {}, end |-> {a1, a2}]}
=============================================================================
