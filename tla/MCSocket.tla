------------------------------ MODULE MCSocket ------------------------------
(***************************************************************************)
(* Instances of Socket for TLC: units without commands, with one command   *)
(* of each kind, and with two where the queue matters.                     *)
(***************************************************************************)
EXTENDS Socket

each(n) == [k \in SocketCommand |-> n]
SomeConfigs ==
  [cmds : {each(0), each(1), [each(0) EXCEPT !.StartPre = 2],
           [each(0) EXCEPT !.StartPost = 1, !.StopPost = 1],
           [each(0) EXCEPT !.StopPre = 2, !.StopPost = 2]}, accept : {FALSE}]
    \cup {[cmds |-> each(1), accept |-> TRUE]}
=============================================================================
