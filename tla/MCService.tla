------------------------------ MODULE MCService ------------------------------
(***************************************************************************)
(* Instances of Service for TLC: a service of each type, with one command  *)
(* or two where the order of commands matters.                             *)
(***************************************************************************)
EXTENDS Service

commands(n) == [k \in ServiceCommand |-> n]

Simple == [type |-> "simple", cmds |-> commands(1), restart |-> "always", remain |-> FALSE,
           pidfile |-> FALSE, watchdog |-> FALSE, messages |-> {}]
Posting == [Simple EXCEPT !.cmds = [commands(0) EXCEPT !.Start = 1, !.StartPost = 1]]
Bare == [Simple EXCEPT !.cmds = [commands(0) EXCEPT !.Start = 1]]
Notifying == [Simple EXCEPT !.type = "notify", !.cmds = [@ EXCEPT !.Condition = 0, !.StartPre = 0],
                            !.messages = {"READY", "STOPPING", "MAINPID"}]
Oneshot == [Simple EXCEPT !.type = "oneshot", !.restart = "on-failure", !.remain = TRUE,
                          !.cmds = [@ EXCEPT !.Start = 2, !.StartPre = 2, !.Reload = 0]]
Empty == [Oneshot EXCEPT !.cmds = [commands(0) EXCEPT !.StopPost = 2, !.StartPost = 1]]
Forking == [Simple EXCEPT !.type = "forking", !.restart = "on-failure",
                          !.cmds = [@ EXCEPT !.StartPre = 0, !.Reload = 2]]
PidFile == [Forking EXCEPT !.pidfile = TRUE,
                           !.cmds = [@ EXCEPT !.StartPost = 0, !.Reload = 0, !.StopPost = 2],
                           !.messages = {"MAINPID"}]
Watched == [Bare EXCEPT !.watchdog = TRUE, !.restart = "on-watchdog",
                        !.messages = {"WATCHDOG=1", "WATCHDOG=trigger", "WATCHDOG_USEC=0", "WATCHDOG_USEC=1"}]

\* Without ExecStart=, but with a message that it stops; without watchdog, but with a
\* message that triggers it.
Quitting == [Oneshot EXCEPT !.cmds = [commands(0) EXCEPT !.StopPost = 1], !.messages = {"STOPPING"}]
Triggered == [Bare EXCEPT !.messages = {"WATCHDOG=trigger"}]

AllServices ==
  {Simple, Posting, Bare, Notifying, Oneshot, Empty, Forking, PidFile, Watched, Quitting, Triggered}
JustWatched == {[Watched EXCEPT !.messages = {}]}
JustBare == {Bare}
JustOneshot == {Oneshot}
=============================================================================
