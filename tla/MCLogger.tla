------------------------------ MODULE MCLogger ------------------------------
(* Logger on small instances. *)
EXTENDS Logger
MCMessageLen == [m \in Messages |-> IF m = 1 THEN 3 ELSE 1]
=============================================================================
