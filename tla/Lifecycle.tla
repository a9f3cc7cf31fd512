------------------------------ MODULE Lifecycle ------------------------------
(***************************************************************************)
(* Process 1 (exts/init) and the manager it supervises (core/bin main.rs,  *)
(* keep_alive, manager): fork, the keep-alive connection with its messages *)
(* and counters, re-execution after a crash, a hang or a request, the      *)
(* unrecoverable mode, and the commands that end the manager's main loop.  *)
(*                                                                         *)
(* init takes a batch of events from epoll and handles them one by one; it *)
(* is blocked while it waits for the manager to connect.  An incarnation   *)
(* of the manager is a number modulo MaxInc; nothing else is bounded: any  *)
(* number of crashes, signals and re-executions.                           *)
(***************************************************************************)
EXTENDS Naturals, Sequences, FiniteSets

CONSTANTS
  MaxInc,      \* incarnations told apart
  TimeOut,     \* Param.time_out, in ticks of time_wait
  AcceptCount  \* ACCEPT_COUNT + 1, how often accept may time out

ASSUME LifecycleAssumption == MaxInc \in Nat \ {0, 1} /\ TimeOut \in Nat \ {0} /\ AcceptCount \in Nat \ {0}

NoConn == MaxInc
Inc == 0..(MaxInc - 1)
InitState == {"Reexec", "RunRecover", "RunUnRecover"}

\* The bytes of one recv are one message, or several that came together: "mixed".
Message == {"MANAGEABLE", "UNMANAGEABLE", "ALIVE"}
Buffer == Message \cup {"empty", "mixed"}
Command == {"reboot", "poweroff", "halt", "suspend", "daemon-reload", "daemon-reexec"}

VARIABLES
  init,     \* RunTime and Alive
  batch,    \* the events of the last epoll_wait that are not handled yet, and who handles them
  sys,      \* the manager process
  backlog,  \* connections that nobody has accepted
  buf,      \* what each incarnation has sent and init has not read
  open,     \* incarnations whose end of the connection is open
  sigs,     \* signals pending for init
  tick,     \* the timer has expired
  rebooted  \* reboot(2) was called

fvars == <<init, batch, sys, backlog, buf, open, sigs, tick, rebooted>>

Stuck == {"crashing", "hung", "paused"}
Proc == {"boot", "starting", "running", "reloading", "rebooting", "zombie", "gone"} \cup Stuck
InitRec == [state : InitState, need_reexec : BOOLEAN, conn : Inc \cup {NoConn},
            mcount : 0..TimeOut, acount : 0..TimeOut, wait : {"no", "create", "reexec"},
            tries : 0..AcceptCount, frozen : BOOLEAN]

FInit ==
  /\ init = [state |-> "Reexec", need_reexec |-> FALSE, conn |-> NoConn, mcount |-> 0, acount |-> 0,
             wait |-> "create", tries |-> 0, frozen |-> FALSE]
  /\ batch = [f |-> "Reexec", todo |-> {}]
  /\ sys = [proc |-> "boot", inc |-> 0, rt |-> FALSE]
  /\ backlog = <<>> /\ buf = [i \in Inc |-> "empty"] /\ open = {}
  /\ sigs = {} /\ tick = FALSE /\ rebooted = FALSE

-----------------------------------------------------------------------------
(* init: accept, poll, and the three loops. *)

Working == ~ init.frozen /\ init.wait = "no"
Freeze == [init EXCEPT !.frozen = TRUE]

\* wait_alive: the oldest connection in the queue, whoever made it.
Accept ==
  /\ ~ init.frozen /\ init.wait # "no" /\ backlog # <<>>
  /\ init' = [init EXCEPT !.conn = Head(backlog), !.wait = "no", !.tries = 0]
  /\ backlog' = Tail(backlog)
  /\ UNCHANGED <<batch, sys, buf, open, sigs, tick, rebooted>>

\* Mutant: a manager that does not connect is signalled again.
connect_failed_retry(i) ==
  IF i.wait = "reexec" THEN [i EXCEPT !.wait = "no", !.tries = 0]
  ELSE [i EXCEPT !.frozen = TRUE]

\* A manager that was forked and does not connect is the end, one that was told to
\* execute itself anew is given up.
connect_failed(i) ==
  IF i.wait = "reexec" THEN [i EXCEPT !.wait = "no", !.tries = 0, !.state = "RunUnRecover"]
  ELSE [i EXCEPT !.frozen = TRUE]

AcceptTimeout ==
  /\ ~ init.frozen /\ init.wait # "no" /\ backlog = <<>>
  /\ init' = IF init.tries + 1 < AcceptCount THEN [init EXCEPT !.tries = @ + 1] ELSE connect_failed(init)
  /\ UNCHANGED <<batch, sys, backlog, buf, open, sigs, tick, rebooted>>

\* reexec_manager: counters, connection, the signal, then wait_connect.  A zombie still
\* takes the signal, a process that was reaped does not.
reexec_manager ==
  LET i == [init EXCEPT !.need_reexec = FALSE, !.mcount = 0, !.acount = 0, !.conn = NoConn]
  IN  IF sys.proc = "gone"
      THEN init' = [i EXCEPT !.state = "RunUnRecover"] /\ UNCHANGED sys
      ELSE /\ init' = [i EXCEPT !.wait = "reexec"]
           /\ sys' = [sys EXCEPT !.rt = @ \/ sys.proc # "zombie"]

Reexec ==
  /\ Working /\ batch.todo = {} /\ init.state = "Reexec" /\ init.need_reexec
  /\ reexec_manager
  /\ UNCHANGED <<batch, backlog, buf, open, sigs, tick, rebooted>>

\* epoll_wait: everything that is ready.
hup == init.conn \notin open
ready ==
  (IF init.conn = NoConn THEN {} ELSE IF hup THEN {"hup"} ELSE IF buf[init.conn] # "empty" THEN {"in"} ELSE {})
    \cup (IF tick THEN {"time"} ELSE {}) \cup (IF sigs # {} THEN {"sig"} ELSE {})

Wait ==
  /\ Working /\ batch.todo = {} /\ ready # {}
  /\ ~ (init.state = "Reexec" /\ init.need_reexec)
  /\ batch' = [f |-> init.state, todo |-> ready]
  /\ UNCHANGED <<init, sys, backlog, buf, open, sigs, tick, rebooted>>

Take(e) == Working /\ e \in batch.todo

\* ep_event_err_proc: the connection is given up and the rest of the batch dropped.  An
\* event of a connection that was replaced hits the new one, which has its number.
Hup ==
  /\ Take("hup")
  /\ batch' = [batch EXCEPT !.todo = IF init.conn = NoConn THEN @ \ {"hup"} ELSE {}]
  /\ init' = IF init.conn = NoConn THEN Freeze ELSE [init EXCEPT !.conn = NoConn, !.state = "RunUnRecover"]
  /\ UNCHANGED <<sys, backlog, buf, open, sigs, tick, rebooted>>

\* What the three loops make of a message; one they do not know, or several at once, is
\* dropped.
on_message(i, f, b) ==
  CASE f = "Reexec" /\ b = "UNMANAGEABLE" -> [i EXCEPT !.need_reexec = TRUE]
    [] f = "Reexec" /\ b = "MANAGEABLE" /\ ~ i.need_reexec ->
         [i EXCEPT !.state = "RunRecover", !.mcount = 0, !.acount = 0]
    [] f = "RunRecover" /\ b = "UNMANAGEABLE" ->
         [i EXCEPT !.mcount = 0, !.state = "Reexec", !.need_reexec = TRUE]
    [] f = "RunRecover" /\ b = "ALIVE" -> [i EXCEPT !.acount = 0]
    [] f = "RunUnRecover" /\ b = "ALIVE" -> [i EXCEPT !.mcount = 0, !.acount = 0]
    [] OTHER -> i

\* recv_nowait fails when there is nothing to read, which is the end of init.
Recv ==
  /\ Take("in")
  /\ batch' = [batch EXCEPT !.todo = @ \ {"in"}]
  /\ IF init.conn = NoConn \/ buf[init.conn] = "empty"
     THEN init' = (IF init.conn = NoConn THEN init ELSE Freeze) /\ UNCHANGED buf
     ELSE /\ init' = on_message(init, batch.f, buf[init.conn])
          /\ buf' = [buf EXCEPT ![init.conn] = "empty"]
  /\ UNCHANGED <<sys, backlog, open, sigs, tick, rebooted>>

\* Mutant: a silent manager is only noticed while it is starting.
on_time_lenient(i, f) ==
  CASE f = "Reexec" -> IF i.mcount + 1 >= TimeOut THEN [i EXCEPT !.mcount = TimeOut, !.need_reexec = TRUE]
                       ELSE [i EXCEPT !.mcount = @ + 1]
    [] OTHER -> [i EXCEPT !.acount = IF @ + 1 >= TimeOut THEN 0 ELSE @ + 1]

\* A tick in each loop.  (A counter past its limit has the effect of one at it.)
on_time(i, f) ==
  CASE f = "Reexec" -> IF i.mcount + 1 >= TimeOut THEN [i EXCEPT !.mcount = TimeOut, !.need_reexec = TRUE]
                       ELSE [i EXCEPT !.mcount = @ + 1]
    [] f = "RunRecover" -> IF i.acount + 1 >= TimeOut
                           THEN [i EXCEPT !.acount = TimeOut, !.state = "Reexec", !.need_reexec = TRUE]
                           ELSE [i EXCEPT !.acount = @ + 1]
    [] f = "RunUnRecover" -> [i EXCEPT !.acount = IF @ + 1 >= TimeOut THEN 0 ELSE @ + 1]

Time ==
  /\ Take("time")
  /\ batch' = [batch EXCEPT !.todo = @ \ {"time"}]
  /\ tick' = FALSE
  /\ init' = on_time(init, batch.f)
  /\ UNCHANGED <<sys, backlog, buf, open, sigs, rebooted>>

\* recycle_zombie reaps every child that has ended.
recycle_zombie == sys' = IF sys.proc = "zombie" THEN [sys EXCEPT !.proc = "gone"] ELSE sys

\* The restart signal where nothing is recovered any more: kill, fork, wait_connect.
\* What the old manager had connected stays in the queue.
create_sysmaster ==
  /\ sys' = [proc |-> "boot", inc |-> (sys.inc + 1) % MaxInc, rt |-> FALSE]
  /\ open' = {}
  /\ buf' = [buf EXCEPT ![(sys.inc + 1) % MaxInc] = "empty"]
  /\ init' = [init EXCEPT !.conn = NoConn, !.wait = "create"]

\* read_signals takes one; the lowest number first.
Signal(s) ==
  /\ Take("sig") /\ s \in sigs /\ ("chld" \in sigs => s = "chld")
  /\ batch' = [batch EXCEPT !.todo = @ \ {"sig"}]
  /\ sigs' = sigs \ {s}
  /\ CASE s = "chld" -> recycle_zombie /\ UNCHANGED <<init, open, buf>>
       [] s = "restart" /\ batch.f # "RunUnRecover" ->
            /\ init' = [init EXCEPT !.state = "Reexec", !.need_reexec = TRUE]
            /\ UNCHANGED <<sys, open, buf>>
       [] s = "restart" /\ batch.f = "RunUnRecover" -> create_sysmaster
       [] s = "unrecover" ->
            /\ init' = IF batch.f # "RunUnRecover" THEN [init EXCEPT !.state = "RunUnRecover"] ELSE init
            /\ UNCHANGED <<sys, open, buf>>
  /\ UNCHANGED <<backlog, tick, rebooted>>

Tick == ~ tick /\ tick' = TRUE /\ UNCHANGED <<init, batch, sys, backlog, buf, open, sigs, rebooted>>

\* An administrator signals init.
Administrator ==
  \E s \in {"restart", "unrecover"} :
    /\ s \notin sigs /\ sigs' = sigs \cup {s}
    /\ UNCHANGED <<init, batch, sys, backlog, buf, open, tick, rebooted>>

-----------------------------------------------------------------------------
(* The manager. *)

Register ==
  /\ sys.proc = "boot" /\ ~ sys.rt
  /\ sys' = [sys EXCEPT !.proc = "starting"]
  /\ UNCHANGED <<init, batch, backlog, buf, open, sigs, tick, rebooted>>

dies == /\ sys' = [sys EXCEPT !.proc = "zombie", !.rt = FALSE]
        /\ open' = {}
        /\ sigs' = sigs \cup {"chld"}

\* The signal of reexec_manager: fatal before register_reexe_signal, then do_reexecute,
\* in which the old connection stays open.
Deliver ==
  /\ sys.rt
  /\ IF sys.proc = "boot" THEN dies /\ UNCHANGED buf
     ELSE /\ sys' = [proc |-> "boot", inc |-> (sys.inc + 1) % MaxInc, rt |-> FALSE]
          /\ open' = open \ {(sys.inc + 1) % MaxInc}
          /\ buf' = [buf EXCEPT ![(sys.inc + 1) % MaxInc] = "empty"]
          /\ UNCHANGED sigs
  /\ UNCHANGED <<init, batch, backlog, tick, rebooted>>

\* A message is lost when init has closed its end.
listening == init.conn = sys.inc \/ \E k \in 1..Len(backlog) : backlog[k] = sys.inc
send(msg) == buf' = IF ~ listening THEN buf
                    ELSE [buf EXCEPT ![sys.inc] = IF @ = "empty" THEN msg ELSE "mixed"]

\* KeepAlive::new: connect, MANAGEABLE.  Without init's socket the manager ends.
Connect ==
  /\ sys.proc = "starting" /\ ~ sys.rt
  /\ IF init.frozen THEN dies /\ UNCHANGED <<backlog, buf>>
     ELSE /\ sys' = [sys EXCEPT !.proc = "running"]
          /\ backlog' = Append(backlog, sys.inc)
          /\ open' = open \cup {sys.inc}
          /\ buf' = [buf EXCEPT ![sys.inc] = "MANAGEABLE"]
          /\ UNCHANGED sigs
  /\ UNCHANGED <<init, batch, tick, rebooted>>

KeepAlive ==
  /\ sys.proc = "running" /\ ~ sys.rt
  /\ send("ALIVE")
  /\ UNCHANGED <<init, batch, sys, backlog, open, sigs, tick, rebooted>>

\* A fault: the handler of install_crash_handler (installed when switch.debug exists), an
\* endless loop, or the end of the process.
Fault ==
  /\ sys.proc \in {"starting", "running", "reloading", "rebooting"} /\ ~ sys.rt
  /\ \/ /\ sys' = [sys EXCEPT !.proc = IF sys.proc = "starting" THEN "hung" ELSE "crashing"]
        /\ UNCHANGED <<open, sigs>>
     \/ sys' = [sys EXCEPT !.proc = "hung"] /\ UNCHANGED <<open, sigs>>
     \/ dies
  /\ UNCHANGED <<init, batch, backlog, buf, tick, rebooted>>

\* crash() returns to the faulting instruction, and is called again.
CrashHandler ==
  /\ sys.proc = "crashing" /\ ~ sys.rt
  /\ send("UNMANAGEABLE")
  /\ UNCHANGED <<init, batch, sys, backlog, open, sigs, tick, rebooted>>

\* sctl: reboot, poweroff and halt are all sent as Shutdown.
sent_action(c) == IF c \in {"reboot", "poweroff", "halt"} THEN "Shutdown" ELSE c

State == {"ReLoad", "ReExecute", "Suspend", "PowerOff"}

\* SysComm::execute and MngrComm::execute; main_loop leaves rloop on any state but Ok.
manager_state(c) == CASE sent_action(c) = "Shutdown"      -> "PowerOff"
                      [] sent_action(c) = "daemon-reload" -> "ReLoad"
                      [] sent_action(c) = "daemon-reexec" -> "ReExecute"
                      [] sent_action(c) = "suspend"       -> "Suspend"

Execute(c) ==
  /\ sys.proc = "running" /\ ~ sys.rt
  /\ CASE manager_state(c) = "ReLoad"    -> sys' = [sys EXCEPT !.proc = "reloading"] /\ UNCHANGED buf
       [] manager_state(c) = "ReExecute" -> sys' = [sys EXCEPT !.proc = "paused"] /\ send("UNMANAGEABLE")
       [] OTHER                          -> sys' = [sys EXCEPT !.proc = "rebooting"] /\ UNCHANGED buf
  /\ UNCHANGED <<init, batch, backlog, open, sigs, tick, rebooted>>

Reload ==
  /\ sys.proc = "reloading" /\ ~ sys.rt
  /\ sys' = [sys EXCEPT !.proc = "running"]
  /\ UNCHANGED <<init, batch, backlog, buf, open, sigs, tick, rebooted>>

\* kill_all_pids(15), which the manager has blocked; wait_pids until the timeout, since
\* the manager's own pid is among the pids; kill_all_pids(9), which spares only process 1.
kill_all_pids == dies

\* Manager::reboot; reboot(2) would come after kill_all_pids.
Reboot ==
  /\ sys.proc = "rebooting" /\ ~ sys.rt
  /\ kill_all_pids
  /\ rebooted' = (rebooted \/ sys.proc' = "rebooting")
  /\ UNCHANGED <<init, batch, backlog, buf, tick>>

InitNext == Accept \/ AcceptTimeout \/ Reexec \/ Wait \/ Hup \/ Recv \/ Time
              \/ \E s \in {"chld", "restart", "unrecover"} : Signal(s)
SysNext == Register \/ Deliver \/ Connect \/ CrashHandler \/ Reload \/ Reboot

FNext ==
  \/ Accept \/ AcceptTimeout \/ Reexec \/ Wait \/ Hup \/ Recv \/ Time \/ Tick \/ Administrator
  \/ Register \/ Deliver \/ Connect \/ KeepAlive \/ Fault \/ CrashHandler \/ Reload \/ Reboot
  \/ \E s \in {"chld", "restart", "unrecover"} : Signal(s)
  \/ \E c \in Command : Execute(c)

FSpec == FInit /\ [][FNext]_fvars

\* init and the manager are scheduled, the timer runs.
FLive == FSpec /\ WF_fvars(InitNext) /\ WF_fvars(SysNext) /\ WF_fvars(Tick)

-----------------------------------------------------------------------------
(* Properties. *)

FTypeOK ==
  /\ init \in InitRec /\ sys \in [proc : Proc, inc : Inc, rt : BOOLEAN]
  /\ batch \in [f : InitState, todo : SUBSET {"in", "hup", "time", "sig"}]
  /\ backlog \in Seq(Inc) /\ Len(backlog) <= MaxInc
  /\ buf \in [Inc -> Buffer] /\ open \subseteq Inc
  /\ sigs \subseteq {"chld", "restart", "unrecover"} /\ tick \in BOOLEAN /\ rebooted \in BOOLEAN

\* As long as init recovers the manager, the messages it acts on are those of the
\* manager that runs now, not of an earlier incarnation whose connection was queued.
ConnectionIsCurrent ==
  ~ init.frozen /\ init.state # "RunUnRecover" /\ init.wait = "no" /\ init.conn # NoConn
    => init.conn = sys.inc

\* «The registration signal is at the beginning and has the highest priority!»
\* (main.rs:46): no signal of reexec_manager meets a manager that has not got that far.
NotKilledInBoot == ~ (sys.proc = "boot" /\ sys.rt)

\* A manager that crashed, hangs or waits to be executed anew while init recovers it
\* does not stay like that: it is executed anew, or init gives up, whatever messages
\* were merged or lost.
Supervised ==
  (init.state = "RunRecover" /\ sys.proc \in Stuck)
    ~> (sys.proc \notin Stuck \/ init.state = "RunUnRecover" \/ init.frozen)

\* «[system] reboot the system» (exts/sctl/src/main.rs:82).
SystemReboots == (sys.proc = "rebooting") ~> (rebooted \/ sys.proc \in {"crashing", "hung", "boot"})
=============================================================================
