------------------------------ MODULE UnitCalls ------------------------------
(***************************************************************************)
(* A unit as the job engine meets it: Unit::start, stop and reload         *)
(* (core/bin/unit/entry/uentry.rs) with what they return and the changes   *)
(* of active state they report before they return, and the changes the     *)
(* unit reports on its own.  What the sub-unit behind them may do is the   *)
(* envelope of the service manager (coms/service/src/mng.rs), the richest  *)
(* of the sub-units.                                                       *)
(***************************************************************************)
EXTENDS JobEntry, Sequences

\* The sub-unit states the engine's behaviour depends on.  "autorestart" has
\* its restart timer running, in "restarting" the timer has fired.
SubState == {"dead", "failed", "starting", "active", "reloading", "stopping",
             "autorestart", "restarting"}

active_state(s) ==
  CASE s = "dead"      -> "InActive"
    [] s = "failed"    -> "Failed"
    [] s = "active"    -> "Active"
    [] s = "reloading" -> "Reloading"
    [] s = "stopping"  -> "DeActivating"
    [] OTHER           -> "Activating"

\* A reply: the error a call returns, and the states it went through.
reply(err, path) == [err |-> err, path |-> path]

\* enter_dead with a restart to follow.
Restarting == {<<"dead", "autorestart">>, <<"failed", "autorestart">>}

AllStartPaths ==
  {<<"starting">>, <<"active">>, <<"stopping">>, <<"dead">>, <<"failed">>,
   <<"starting", "active">>, <<"starting", "stopping">>} \cup Restarting

CONSTANT StartPaths     \* what a start of a stopped sub-unit may go through
ASSUME StartPathsAssumption == StartPaths \subseteq AllStartPaths

\* ServiceUnit::start: start_check, then start_action.
sub_start(s) ==
  CASE s = "stopping" -> {reply("EAgain", <<>>)}
    [] s = "starting" -> {reply("Ok", <<>>)}
    [] OTHER          -> {reply("ECanceled", <<"failed">>)}
                           \cup {reply("Ok", p) : p \in StartPaths}

\* A unit that is not loaded, or whose conditions do not hold, is refused.
unit_start(s) ==
  IF active_state(s) \in {"Active", "Reloading"} THEN {reply("EAlready", <<>>)}
  ELSE {reply("EInval", <<>>)} \cup sub_start(s)

\* ServiceUnit::stop: stop_action with forbid_restart.
sub_stop == {reply("Ok", <<"stopping">>), reply("Ok", <<"dead">>), reply("Ok", <<"failed">>)}

unit_stop(s, force) ==
  IF ~force /\ is_inactive_or_failed(active_state(s))
    THEN {reply("EAlready", <<>>)} ELSE sub_stop

unit_reload(s) ==
  {reply("EBadR", <<>>)} \cup
  CASE s = "reloading" -> {reply("EAgain", <<>>)}
    [] s = "active"    -> {reply("Ok", <<"reloading">>), reply("Ok", <<"active">>),
                           reply("Ok", <<"stopping">>)}
    [] OTHER           -> {reply("ENoExec", <<>>)}

unit_verify(s) ==
  CASE active_state(s) \in {"Active", "Reloading"} -> {reply("EAlready", <<>>)}
    [] active_state(s) = "Activating"              -> {reply("EAgain", <<>>)}
    [] OTHER                                       -> {reply("EBadR", <<>>)}

\* job_trigger_unit
job_trigger_unit(s, run_kind, force) ==
  CASE run_kind = "Start"  -> unit_start(s)
    [] run_kind = "Stop"   -> unit_stop(s, force)
    [] run_kind = "Reload" -> unit_reload(s)
    [] run_kind = "Verify" -> unit_verify(s)
    [] OTHER               -> {reply("EAlready", <<>>)}

\* What the sub-unit may report by itself: a process exits, a notification comes
\* in.  set_state reports a step from one starting (active, stopping) state to the
\* next as well; enter_dead reports twice when it restarts.
Ends == {<<"dead">>, <<"failed">>} \cup Restarting

own_paths(s) ==
  CASE s = "starting" -> {<<"starting">>, <<"active">>, <<"stopping">>} \cup Ends
    [] s \in {"active", "reloading"} -> {<<"active">>, <<"stopping">>} \cup Ends
    [] s = "stopping" -> {<<"stopping">>} \cup Ends
    [] OTHER -> {}

\* A watchdog is not stopped, and a PID file not forgotten, when the unit ends:
\* they may stop, or make active, one that has been dead for long.  So does the
\* handler of a failed ExecStartPost=, which goes on after it has ended the unit; and one
\* that enters StartPost twice takes a command that is left of the first stop for its own.
stray_paths(s) ==
  own_paths(s) \cup {<<"active">>, <<"stopping">>} \cup Ends
  \cup IF s = "stopping" THEN {<<"starting">>} ELSE {}

after(s, path) == IF path = <<>> THEN s ELSE path[Len(path)]
=============================================================================
