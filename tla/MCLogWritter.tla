---------------------------- MODULE MCLogWritter ----------------------------
(* LogWritter on small instances. *)
EXTENDS LogWritter, TLC

(* Lengths on both sides of NotifySize, so that the order in which the      *)
(* entries come decides when the memtable gets over it.                     *)
MCMessageLen == [m \in Messages |-> IF m = 1 THEN 3 ELSE 1]

Sym == Permutations(Writers)
=============================================================================
