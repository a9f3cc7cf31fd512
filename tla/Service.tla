------------------------------ MODULE Service ------------------------------
(***************************************************************************)
(* The state machine of one service (coms/service/src/mng.rs): the calls   *)
(* the job engine makes, exits of its processes, notifications, the PID    *)
(* file, the watchdog and the restart timer.                               *)
(*                                                                         *)
(* A handler runs to its end, so each is one action; the enter_* functions *)
(* it chains are operators from a service to the set of its outcomes,      *)
(* which differ where a process may or may not be spawned or be found.     *)
(*                                                                         *)
(* Processes: main and control are watched and are alive, or have exited   *)
(* with a result that SIGCHLD has not delivered yet.  `other' says whether *)
(* the cgroup holds a process besides them; one the service stops watching *)
(* is among those, and its exit concerns nobody.                           *)
(***************************************************************************)
EXTENDS UnitCalls, Naturals

ServiceState == {"Dead", "Condition", "StartPre", "Start", "StartPost", "Running", "Exited",
                 "Reload", "Stop", "StopSigterm", "StopPost", "AutoRestart", "Failed"}
ServiceCommand == {"Condition", "StartPre", "Start", "StartPost", "Reload", "Stop", "StopPost"}
ExitResult == {"Success", "FailureExitCode", "FailureSignal"}
ServiceResult == ExitResult \cup {"FailureProtocol", "FailureResources", "FailureTimeout",
                                  "FailureWatchdog", "FailureStartLimitHit"}
Process == {"none", "alive"} \cup ExitResult

Message == {"READY", "STOPPING", "MAINPID", "WATCHDOG=1", "WATCHDOG=trigger",
            "WATCHDOG_USEC=0", "WATCHDOG_USEC=1"}

\* The unit file: the number of commands of each kind, and the settings.
Config == [type : {"simple", "forking", "oneshot", "notify"}, cmds : [ServiceCommand -> 0..2],
           restart : {"no", "on-success", "on-failure", "on-watchdog", "on-abnormal",
                      "on-abort", "always"},
           remain : BOOLEAN, pidfile : BOOLEAN, watchdog : BOOLEAN,
           messages : SUBSET Message]  \* what the processes may send to the notify socket

CONSTANTS
  Configs,   \* the services considered
  Faults     \* may a command fail to be spawned, the PID file fail to be watched?

\* service_verify
service_verify(c) ==
  /\ c.cmds.Start = 0 => c.remain /\ c.type = "oneshot"
  /\ c.cmds.Start > 1 => c.type = "oneshot"
  /\ c.type = "oneshot" => c.restart \notin {"always", "on-success"}

ASSUME ServiceAssumption ==
  /\ \A c \in Configs : c \in Config /\ service_verify(c)
  /\ Faults \in BOOLEAN

VARIABLES
  conf,       \* the unit file
  m,          \* ServiceMng, ServicePid and RunningData
  stop_job,   \* UmIf::has_stop_job: a Stop of the unit waits in the engine
  stopped,    \* the last call of the engine was a stop
  did         \* what the last handler showed to the engine

svars == <<conf, m, stop_job, stopped, did>>

\* m.path: the sub-states the handler under way has reported.  m.stored: the length
\* of control_command in the last record db_update wrote.
Mng == [state : ServiceState, result : ServiceResult,
        main : Process, known : BOOLEAN, control : Process, other : BOOLEAN,
        main_command : 0..2, control_command : 0..2,
        notify_state : {"Unknown", "Ready", "Stopping"},
        forbid_restart : BOOLEAN, timer : BOOLEAN, inotify : BOOLEAN,
        watchdog : BOOLEAN, override : {"none", "on", "off"},
        panic : BOOLEAN, stored : 0..2, path : {<<>>}]

\* to_unit_active_state, in the sub-states of UnitCalls.
sub_state(s) ==
  CASE s.state = "Dead"    -> "dead"
    [] s.state = "Failed"  -> "failed"
    [] s.state \in {"Running", "Exited"} -> "active"
    [] s.state = "Reload"  -> "reloading"
    [] s.state \in {"Stop", "StopSigterm", "StopPost"} -> "stopping"
    [] s.state = "AutoRestart" -> IF s.timer THEN "autorestart" ELSE "restarting"
    [] OTHER -> "starting"

Starting == {"Condition", "StartPre", "Start", "StartPost"}
Stopping == {"Stop", "StopSigterm", "StopPost"}

-----------------------------------------------------------------------------
(* Processes and commands. *)

Then(S, Op(_)) == UNION {Op(s) : s \in S}

alive(p) == p = "alive"
cgroup_good(s) == alive(s.main) \/ alive(s.control) \/ s.other

\* process_util::alive takes the fourth field of /proc/<pid>/stat, the parent, for the
\* state: a main process that has exited and is not reaped yet counts as alive.
main_alive(s) == alive(s.main) \/ s.main \in ExitResult
service_alive(s) == IF s.known THEN main_alive(s) ELSE cgroup_good(s)

unwatch_main(s) == [s EXCEPT !.main = "none", !.other = @ \/ alive(s.main)]
unwatch_control(s) == [s EXCEPT !.control = "none", !.other = @ \/ s.control = "alive"]
set_main(s) == [unwatch_main(s) EXCEPT !.main = "alive", !.known = TRUE]

\* ServicePid::set_control overwrites: nobody waits for the process it held.
set_control(s) == [unwatch_control(s) EXCEPT !.control = "alive"]

\* start_service: the process is running, or nothing is.
spawned(yes, no) == yes \cup IF Faults THEN no ELSE {}

\* control_command_fill: a kind without commands leaves the queue as it is.
control_command_fill(s, k) ==
  IF conf.cmds[k] = 0 THEN s ELSE [s EXCEPT !.control_command = conf.cmds[k]]
pop_control(s) == [s EXCEPT !.control_command = @ - 1]
clear_control(s) == [s EXCEPT !.control_command = 0]

\* The result is kept once it is a failure.
set_result(s, res) == IF s.result = "Success" THEN [s EXCEPT !.result = res] ELSE s

\* Mutants: the main process is kept in every state; Stop is left out of the
\* states that keep the control process.
set_state_keeping_main(s, st) ==
  LET s1 == IF st \in Starting \cup {"Reload"} \cup Stopping THEN s
            ELSE clear_control(unwatch_control(s))
      s2 == [s1 EXCEPT !.state = st]
  IN  [s2 EXCEPT !.path = Append(@, sub_state(s2))]
set_state_without_stop(s, st) ==
  LET s1 == IF st \in Starting \cup {"Reload", "StopSigterm", "StopPost"} THEN s
            ELSE clear_control(unwatch_control(s))
      s2 == [s1 EXCEPT !.state = st]
  IN  [s2 EXCEPT !.path = Append(@, sub_state(s2))]

\* set_state: some states let go of the main or of the control process.  The
\* unit is told of every call.
set_state(s, st) ==
  LET s1 == IF st \in {"Start", "StartPost", "Running", "Reload"} \cup Stopping THEN s
            ELSE [unwatch_main(s) EXCEPT !.main_command = 0]
      s2 == IF st \in Starting \cup {"Reload"} \cup Stopping THEN s1
            ELSE clear_control(unwatch_control(s1))
      s3 == [s2 EXCEPT !.state = st]
  IN  [s3 EXCEPT !.path = Append(@, sub_state(s3))]

\* The common shape of the enter_* functions with commands of kind k: run the
\* first and wait for it in state st, or go on with none; fail if it cannot run.
popped(s, k) == pop_control(control_command_fill(s, k))
run_control(s, k, st, none, fail) ==
  IF control_command_fill(s, k).control_command = 0 THEN none
  ELSE spawned({set_state(set_control(popped(s, k)), st)}, fail)

-----------------------------------------------------------------------------
(* The enter_* functions, from the last to the first. *)

\* Mutant: forbid_restart is not looked at.
shall_restart_forbidden(s) == conf.restart = "always" \/ s.result # "Success"

shall_restart(s) ==
  /\ ~ s.forbid_restart
  /\ CASE conf.restart = "no"          -> FALSE
       [] conf.restart = "on-success"  -> s.result = "Success"
       [] conf.restart = "on-failure"  -> s.result # "Success"
       [] conf.restart = "on-watchdog" -> s.result = "FailureWatchdog"
       [] conf.restart = "on-abnormal" -> s.result \notin {"Success", "FailureExitCode"}
       [] conf.restart = "on-abort"    -> s.result = "FailureSignal"
       [] OTHER                        -> TRUE

\* Mutant: the restart is announced before the end.
enter_dead_swapped(s, res, force_restart) ==
  LET s1 == set_result(s, res)
      end == IF s1.result = "Success" THEN "Dead" ELSE "Failed"
  IN  {IF force_restart /\ ~ stop_job /\ shall_restart(s1)
         THEN set_state(set_state([s1 EXCEPT !.timer = TRUE], "AutoRestart"), end)
         ELSE [set_state(s1, end) EXCEPT !.forbid_restart = FALSE]}

enter_dead(s, res, force_restart) ==
  LET s1 == set_result(s, res)
      again == force_restart /\ ~ stop_job /\ shall_restart(s1)
      s2 == set_state(s1, IF s1.result = "Success" THEN "Dead" ELSE "Failed")
      s3 == IF again THEN set_state([s2 EXCEPT !.timer = TRUE], "AutoRestart") ELSE s2
  IN  {[s3 EXCEPT !.forbid_restart = FALSE]}

\* enter_signal of FinalSigterm, FinalSigkill: kill_context never fails and nobody
\* waits for the processes to go.  Its result argument is not used.
enter_signal_final(s) == enter_dead(s, "Success", TRUE)

enter_stop_post(s, res) ==
  LET s1 == set_result(s, res) IN
  run_control(s1, "StopPost", "StopPost", enter_signal_final(s1),
              enter_signal_final(popped(s1, "StopPost")))

\* enter_signal of StopSigterm, StopSigkill or StopWatchdog.
enter_signal(s, res) == enter_stop_post(s, "Success")

enter_stop(s, res) ==
  LET s1 == set_result(s, res) IN
  run_control(s1, "Stop", "Stop", enter_signal(s1, "Success"),
              enter_signal(popped(s1, "Stop"), "FailureResources"))

enter_running(s, res) ==
  LET s1 == set_result(unwatch_control(s), res) IN
  CASE s1.result # "Success" -> enter_signal(s1, res)
    [] s1.result = "Success" /\ service_alive(s1)
         -> {set_state(s1, IF s1.notify_state = "Stopping" THEN "StopSigterm" ELSE "Running")}
    [] s1.result = "Success" /\ ~ service_alive(s1) /\ conf.remain -> {set_state(s1, "Exited")}
    [] OTHER -> enter_stop(s1, res)

\* WATCHDOG_USEC= of a notification overrides WatchdogSec=; 0 stops the watchdog.
restart_watchdog(s) ==
  [s EXCEPT !.watchdog = IF s.override = "none" THEN conf.watchdog ELSE s.override = "on"]

enter_start_post(s) ==
  LET s1 == restart_watchdog(unwatch_control(s)) IN
  run_control(s1, "StartPost", "StartPost", enter_running(s1, "Success"),
              {popped(s1, "StartPost")})

enter_start(s) ==
  LET s1 == [unwatch_main(unwatch_control(clear_control(s))) EXCEPT
               !.main_command = conf.cmds.Start]
      child == set_control(pop_control(control_command_fill(s1, "Start")))
      run == set_main([s1 EXCEPT !.main_command = @ - 1])
  IN
  CASE conf.cmds.Start = 0       -> enter_start_post(set_state(s1, "Start"))
    [] conf.type = "simple"      -> spawned(enter_start_post(run),
                                            enter_signal(s1, "FailureResources"))
    [] conf.type = "forking"     -> spawned({set_state(child, "Start")},
                                            enter_signal(s1, "FailureResources"))
    [] OTHER                     -> spawned({set_state(run, "Start")},
                                            enter_signal(s1, "FailureResources"))

unavailable(s) == enter_dead(s, "FailureResources", TRUE)

enter_prestart(s) ==
  LET s1 == unwatch_control(s) IN
  run_control(s1, "StartPre", "StartPre", enter_start(s1), unavailable(popped(s1, "StartPre")))

enter_condition(s) ==
  run_control(s, "Condition", "Condition", enter_prestart(s), unavailable(popped(s, "Condition")))

enter_reload(s) ==
  LET s1 == unwatch_control(clear_control(s)) IN
  run_control(s1, "Reload", "Reload", enter_running(s1, "Success"),
              enter_running(popped(s1, "Reload"), "Success"))

-----------------------------------------------------------------------------
(* The main process, when the service does not spawn it. *)

\* A process of the cgroup becomes the main one; others are left, or not.
adopt(s) ==
  IF ~ s.other THEN {}
  ELSE {[set_main(s) EXCEPT !.other = more \/ alive(s.main)] : more \in BOOLEAN}

\* guess_main_pid looks for a process of the cgroup whose parent is the parent of the
\* manager; set_child_reaper makes orphans children of the manager itself, so it finds
\* none, and pid 0 is no main process.
guess_main_pid(s) == {s}

\* load_pid_file: fails, finds the main process, or a new one (the file is taken
\* to name processes of the service only).
load_pid_file_new(s) == IF conf.pidfile THEN adopt(s) ELSE {}
load_pid_file_ok(s) ==
  load_pid_file_new(s) \cup IF conf.pidfile /\ s.main # "none" THEN {s} ELSE {}

\* retry_pid_file, when the file can be loaded.
retry_pid_file(s) ==
  Then(load_pid_file_ok(s), LAMBDA x : enter_running([x EXCEPT !.inotify = FALSE], "Success"))

\* watch_pid_file and demand_pid_file: the file is watched, which may find it at
\* once, or that fails.
watch_pid_file(s) ==
  LET watched == [s EXCEPT !.inotify = TRUE] IN {watched} \cup retry_pid_file(watched)
watch_fails(s) == IF Faults THEN {[s EXCEPT !.inotify = FALSE]} ELSE {}

-----------------------------------------------------------------------------
(* do_sigchld_event *)

todo(s) == {[s EXCEPT !.panic = TRUE]}

or_signal(res, s, go) == IF res = "Success" THEN go ELSE enter_signal(s, res)

\* The main process is gone and so is all of the cgroup.
main_gone(s, res) ==
  CASE s.state = "Dead" -> todo(s)
    [] s.state = "Start" /\ conf.type = "oneshot" -> or_signal(res, s, enter_start_post(s))
    [] s.state = "Start" /\ conf.type = "notify"  -> enter_signal(s, res)
    [] s.state = "Start" /\ conf.type \in {"simple", "forking"} -> enter_running(s, res)
    [] s.state \in {"StartPost", "Reload"} /\ s.control # "none" -> enter_stop(s, res)
    [] s.state = "Running"     -> enter_running(s, res)
    [] s.state = "StopSigterm" -> enter_stop_post(s, res)
    [] OTHER -> {s}

\* Mutant: the next command is run without a look whether there is one.
sigchld_main_unguarded(s, res) ==
  LET s1 == set_result([s EXCEPT !.main = "none", !.main_command = @ - 1], res) IN
  IF res = "Success" /\ conf.type = "oneshot" THEN {set_main(s1)} ELSE main_gone(s1, res)

sigchld_main(s, res) ==
  LET s1 == set_result([s EXCEPT !.main = "none"], res)
      next == [s1 EXCEPT !.main_command = @ - 1]
      s2 == [s1 EXCEPT !.main_command = 0]
  IN  load_pid_file_new(s) \cup
      IF s1.main_command > 0 /\ res = "Success" /\ conf.type = "oneshot"
        THEN spawned({set_main(next)}, {next})
        ELSE IF cgroup_good(s2) THEN {s2} ELSE main_gone(s2, res)

\* A start command of a forking service has ended well.  With a PIDFile= that can
\* be loaded, or commands to run after the start, enter_start_post is called twice.
forked(s) ==
  LET post == conf.cmds.StartPost > 0
      twice(x) == Then(enter_start_post(x), enter_start_post)
      no_protocol(x) == enter_signal(x, "FailureProtocol")
  IN
  IF ~ conf.pidfile THEN Then(guess_main_pid(s), enter_start_post)
  ELSE Then(load_pid_file_ok(s), twice) \cup
       IF post THEN twice(s)
       ELSE Then(watch_pid_file(s), LAMBDA x : IF cgroup_good(x) THEN {x} ELSE no_protocol(x))
              \cup Then(watch_fails(s), no_protocol)

\* The commands after the start have ended; if they failed, the service goes on
\* after it was signalled as if they had not.
start_posted(s) ==
  LET run(x) == enter_running(x, "Success") IN
  IF ~ conf.pidfile THEN Then(guess_main_pid(s), run)
  ELSE Then(load_pid_file_ok(s), run) \cup
       Then(watch_pid_file(s),
            LAMBDA x : IF cgroup_good(x) THEN {x} ELSE enter_stop(x, "FailureProtocol"))
         \cup Then(watch_fails(s), LAMBDA x : enter_signal(x, "FailureProtocol"))

\* Mutant: nothing follows the commands of ExecStop=.
sigchld_control_stop_ignored(s, res) ==
  LET s1 == clear_control([s EXCEPT !.control = "none"]) IN
  IF s.state = "StopPost" THEN enter_signal_final(s1) ELSE {s1}

sigchld_control(s, res) ==
  LET s1 == [s EXCEPT !.control = "none"]
      s2 == clear_control(s1)
  IN
  IF s1.control_command > 0 /\ res = "Success"
    THEN spawned({set_control(pop_control(s1))}, {pop_control(s1)})
    ELSE CASE s.state = "Condition"   -> or_signal(res, s2, enter_prestart(s2))
           [] s.state = "StartPre"    -> or_signal(res, s2, enter_start(s2))
           [] s.state = "Start" /\ conf.type = "forking" -> or_signal(res, s2, forked(s2))
           [] s.state = "StartPost"
                -> Then(IF res = "Success" THEN {s2} ELSE enter_signal(s2, res), start_posted)
           [] s.state = "Running"     -> todo(s2)
           [] s.state = "Reload"      -> enter_running(s2, res)
           [] s.state = "Stop"        -> enter_signal(s2, res)
           [] s.state = "StopSigterm" -> enter_stop_post(s2, res)
           [] s.state = "StopPost"    -> enter_signal_final(s2)
           [] OTHER -> {s2}

\* do_notify_message; a datagram with several assignments is taken for several.
do_notify_message(s, msg) ==
  CASE msg = "MAINPID" /\ s.state \in {"Start", "StartPost", "Running"} -> {s} \cup adopt(s)
    [] msg = "READY"
         -> LET r == [s EXCEPT !.notify_state = "Ready"] IN
            IF conf.type = "notify" /\ s.state = "Start" THEN enter_start_post(r) ELSE {r}
    [] msg = "STOPPING"
         -> LET r == [s EXCEPT !.notify_state = "Stopping"] IN
            {IF s.state = "Running" THEN set_state(r, "StopSigterm") ELSE r}
    [] msg = "WATCHDOG=1"       -> {restart_watchdog(s)}
    [] msg = "WATCHDOG=trigger" -> enter_signal(s, "FailureWatchdog")
    [] msg = "WATCHDOG_USEC=0"  -> {restart_watchdog([s EXCEPT !.override = "off"])}
    [] msg = "WATCHDOG_USEC=1"  -> {restart_watchdog([s EXCEPT !.override = "on"])}
    [] OTHER -> {s}

-----------------------------------------------------------------------------
(* The handlers. *)

NewMng == [state |-> "Dead", result |-> "Success", main |-> "none", known |-> FALSE,
           control |-> "none", other |-> FALSE, main_command |-> 0, control_command |-> 0,
           notify_state |-> "Unknown", forbid_restart |-> FALSE,
           timer |-> FALSE, inotify |-> FALSE, watchdog |-> FALSE, override |-> "none",
           panic |-> FALSE, stored |-> 0, path |-> <<>>]

shown(call, err, path) == [call |-> call, err |-> err, path |-> path]
quiet_step == shown("none", "Ok", <<>>)

SInit ==
  /\ conf \in Configs
  /\ m = NewMng
  /\ stop_job = FALSE
  /\ stopped = FALSE
  /\ did = quiet_step

\* A handler ends in one of `outcomes'; db_update says whether it saves the state.
Handler(call, err, outcomes, db_update) ==
  /\ ~ m.panic
  /\ \E s \in outcomes :
       /\ m' = [s EXCEPT !.path = <<>>, !.stored = IF db_update THEN s.control_command ELSE @]
       /\ did' = shown(call, err, s.path)
  /\ UNCHANGED conf

\* ServiceUnit::start: start_check, then start_action.
StartCall ==
  /\ sub_state(m) \notin {"active", "reloading"}
  /\ \/ /\ m.state \in Stopping
        /\ Handler("start", "EAgain", {m}, FALSE)
        /\ UNCHANGED stopped
     \/ /\ m.state \in Starting
        /\ Handler("start", "Ok", {m}, FALSE)
        /\ UNCHANGED stopped
     \/ /\ m.state \notin Starting \cup Stopping
        /\ Handler("start", "ECanceled", enter_dead(m, "FailureStartLimitHit", FALSE), FALSE)
        /\ UNCHANGED stopped
     \/ /\ m.state \notin Starting \cup Stopping
        /\ Handler("start", "Ok", enter_condition([m EXCEPT !.result = "Success"]), TRUE)
        /\ stopped' = FALSE
  /\ UNCHANGED stop_job

\* stop_action
StopCall ==
  /\ LET s == [m EXCEPT !.forbid_restart = TRUE] IN
     Handler("stop", "Ok", IF m.state \in Starting \cup {"Reload"} THEN enter_signal(s, "Success")
                           ELSE enter_stop(s, "Success"), TRUE)
  /\ stopped' = TRUE
  /\ stop_job' = FALSE

\* reload_action, which Unit::reload calls when can_reload.
ReloadCall ==
  /\ sub_state(m) = "active"
  /\ conf.cmds.Reload > 0
  /\ Handler("reload", "Ok", enter_reload(m), TRUE)
  /\ UNCHANGED <<stop_job, stopped>>

\* sigchld_event
SigchldMain ==
  /\ m.main \in ExitResult
  /\ Handler("sigchld", "Ok", sigchld_main(m, m.main), TRUE)
  /\ UNCHANGED <<stop_job, stopped>>

SigchldControl ==
  /\ m.control \in ExitResult
  /\ Handler("sigchld", "Ok", sigchld_control(m, m.control), TRUE)
  /\ UNCHANGED <<stop_job, stopped>>

\* notify_message, of a process that is not reaped yet.
NotifyMessage(msg) ==
  /\ msg \in conf.messages
  /\ m.main # "none" \/ m.control # "none" \/ m.other
  /\ Handler("notify", "Ok", do_notify_message(m, msg), TRUE)
  /\ UNCHANGED <<stop_job, stopped>>

\* ServiceMonitorData::do_dispatch, in whatever state the service is.
WatchdogFires ==
  /\ m.watchdog
  /\ Handler("watchdog", "Ok", enter_signal([m EXCEPT !.watchdog = FALSE], "FailureWatchdog"),
             FALSE)
  /\ UNCHANGED <<stop_job, stopped>>

\* enter_restart: the restart is accepted by the engine, or refused.
enter_restart(s) ==
  {s} \cup IF stop_job THEN {} ELSE enter_dead(s, "FailureResources", FALSE)

\* ServiceTimer::do_dispatch
TimerFires ==
  /\ m.timer
  /\ LET s == [m EXCEPT !.timer = FALSE] IN
     Handler("timer", "Ok",
             CASE m.state = "AutoRestart" -> enter_restart(s)
               [] m.state = "Running"     -> enter_stop(s, "FailureTimeout")
               [] OTHER                   -> todo(s),
             FALSE)
  /\ UNCHANGED <<stop_job, stopped>>

\* PathIntofy::do_dispatch
PidFileChanged ==
  /\ m.inotify
  /\ Handler("pidfile", "Ok",
             retry_pid_file(m) \cup watch_pid_file(m)
               \cup Then(watch_fails(m), LAMBDA x : enter_signal(x, "FailureResources")),
             TRUE)
  /\ UNCHANGED <<stop_job, stopped>>

-----------------------------------------------------------------------------
(* What happens around the service. *)

Around(s) ==
  /\ ~ m.panic
  /\ m' = s
  /\ did' = quiet_step
  /\ UNCHANGED <<conf, stopped>>

\* A Stop of the unit comes into the engine, or is cancelled.
StopJob == Around(m) /\ stop_job' = ~ stop_job

\* A process of the service forks a child that outlives it.
Fork == /\ cgroup_good(m) /\ ~ m.other
        /\ Around([m EXCEPT !.other = TRUE]) /\ UNCHANGED stop_job

OtherExits == /\ m.other
              /\ Around([m EXCEPT !.other = FALSE]) /\ UNCHANGED stop_job

MainExits ==
  /\ m.main = "alive"
  /\ \E res \in ExitResult : Around([m EXCEPT !.main = res])
  /\ UNCHANGED stop_job

ControlExits ==
  /\ m.control = "alive"
  /\ \E res \in ExitResult : Around([m EXCEPT !.control = res])
  /\ UNCHANGED stop_job

SNext ==
  \/ StartCall \/ StopCall \/ ReloadCall
  \/ SigchldMain \/ SigchldControl
  \/ \E msg \in Message : NotifyMessage(msg)
  \/ WatchdogFires \/ TimerFires \/ PidFileChanged
  \/ StopJob \/ Fork \/ OtherExits \/ MainExits \/ ControlExits

\* The event loop delivers every exit, and a command does not run forever.
SSpec ==
  /\ SInit /\ [][SNext]_svars
  /\ WF_svars(SigchldMain) /\ WF_svars(SigchldControl) /\ WF_svars(ControlExits)

-----------------------------------------------------------------------------
(* Properties. *)

\* The variables have the types of ServiceMng, ServicePid and RunningData.
STypeOK ==
  /\ conf \in Configs
  /\ m \in Mng
  /\ stop_job \in BOOLEAN /\ stopped \in BOOLEAN

\* do_sigchld_event never meets the two states it has only a todo!() for: a dead
\* service holds no main process and a running one no control process.
SigchldSafe ==
  /\ m.main # "none" => m.state # "Dead"
  /\ m.control # "none" => m.state # "Running"

\* A state that is left when a command ends is never entered, or kept, without a
\* command that runs (set_state lets go of processes, the enter_* functions
\* overwrite them), unless the service waits for its PID file there.
CommandRunning ==
  m.state \in {"Condition", "StartPre", "StartPost", "Reload", "Stop", "StopPost"}
    => m.control # "none" \/ m.inotify

\* The processes a service holds are those its state calls for: the two together.
ProcessesFollowState == SigchldSafe /\ CommandRunning

\* No watchdog and no PID file can come back to this service.
undisturbed(c) ==
  /\ ~ c.watchdog /\ ~ c.pidfile
  /\ c.messages \cap {"WATCHDOG=trigger", "WATCHDOG_USEC=1"} = {}

\* stop_action forbids a restart, and that holds until the stop is over whatever
\* is delivered in between: a stopped service does not restart by itself.
StopHonoured == stopped /\ undisturbed(conf) => m.state # "AutoRestart"

\* The first report of a call and the last state are all the engine sees of it.
seen(path) ==
  IF path = <<>> THEN <<>>
  ELSE IF path[1] = path[Len(path)] THEN <<path[1]>> ELSE <<path[1], path[Len(path)]>>

\* What the service reports by itself is a report of the model of units, or two.
paths(s) ==
  {<<>>} \cup IF undisturbed(conf) /\ conf.cmds.StartPost = 0 THEN own_paths(s) ELSE stray_paths(s)
chained(s, path) ==
  \E k \in 0..Len(path) :
    /\ SubSeq(path, 1, k) \in paths(s)
    /\ SubSeq(path, k + 1, Len(path)) \in paths(after(s, SubSeq(path, 1, k)))

\* What a step shows the engine, in a report or in the reply to a call.
Expected ==
  LET s == sub_state(m)
      path == did'.path
  IN
  CASE did'.call = "start"  -> reply(did'.err, seen(path)) \in sub_start(s)
    [] did'.call = "stop"   -> reply("Ok", seen(path)) \in sub_stop
    [] did'.call = "reload" -> reply("Ok", seen(path)) \in unit_reload(s)
    [] did'.call = "timer"  -> chained(s, path) \/ path = <<"failed">>
    [] OTHER                -> chained(s, path)

\* What the calls return and report, and what the service reports by itself, is
\* what the job engine is modelled to expect of a unit.
InEnvelope == [][Expected]_svars

\* A stop comes to an end when commands do: the service is dead or failed, unless
\* it is called or messages come again and again.
StopEnds ==
  \/ []<>(did.call \in {"start", "stop", "reload", "notify"})
  \/ (stopped /\ undisturbed(conf)) ~> (m.state \in {"Dead", "Failed"} \/ m.panic)

\* The restart timer fires for a service that waits for its restart: do_dispatch
\* has a todo!() for the others, and stops a service that runs.
TimerExpected == ~ m.panic

\* control_command_update: a record with control commands left names their type.
RecordLoads == m.stored = 0

\* Restart=on-watchdog: a service the watchdog ends is restarted.
WatchdogRestarts ==
  [][did'.call = "watchdog" /\ conf.restart = "on-watchdog" /\ m.state = "Running"
     /\ conf.cmds.StopPost = 0 /\ ~ stop_job /\ ~ stopped
       => m'.state = "AutoRestart"]_svars
=============================================================================
