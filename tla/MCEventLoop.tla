---------------------------- MODULE MCEventLoop ----------------------------
(***************************************************************************)
(* A small program on the loop: a descriptor, a Defer source and two timers *)
(* of one clock.                                                            *)
(***************************************************************************)
EXTENDS EventLoop

CONSTANTS io, defer, t1, t2

MCSource == {io, defer, t1, t2}
MCType == [s \in MCSource |-> CASE s = io -> "Io" [] s = defer -> "Defer" [] OTHER -> "TimerMonotonic"]
\* Priorities of the repository: a control socket, the engine's source, and timers, which
\* keep the default: any two of one clock compare equal.
MCPrio == [s \in MCSource |-> CASE s = io -> -50 [] s = defer -> -10 [] OTHER -> 0]
\* Descriptors are enabled for good, timers once; Defer sources both ways.
MCModes == [s \in MCSource |-> CASE s = io -> {"On"} [] s = defer -> {"On", "OneShot"} [] OTHER -> {"OneShot"}]
MCDelay == [s \in MCSource |-> 1]
=============================================================================
