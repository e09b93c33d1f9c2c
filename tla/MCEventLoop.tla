---------------------------- MODULE MCEventLoop ----------------------------
(* Three programs: descriptors only, timers only, and one of each.          *)
EXTENDS EventLoop
MCPrograms ==
    {[fds |-> {1, 3}, timers |-> {}], [fds |-> {}, timers |-> {"once", "cron"}],
     [fds |-> {1}, timers |-> {"once"}]}
=============================================================================
