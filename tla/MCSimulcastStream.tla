------------------------- MODULE MCSimulcastStream -------------------------
(* Two layers, as in the tests of lib.rs, with rates in small units: an    *)
(* estimate of 1 affords no layer, and two of them half of the lowest.     *)
EXTENDS SimulcastStream

MCCost == [t \in Tiers |-> CASE t = "Low" -> 3 [] t = "Mid" -> 6 [] t = "High" -> 10]
============================================================================
