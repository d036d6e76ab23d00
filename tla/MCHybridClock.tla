--------------------------- MODULE MCHybridClock ---------------------------
(* HybridClock for TLC: at most Held stamps are held at once.              *)
EXTENDS HybridClock, FiniteSets

CONSTANT Held       \* bound: how many stamps the store holds at once

FewStamps == Cardinality(stamps) <= Held
=============================================================================
