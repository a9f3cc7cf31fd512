------------------------------- MODULE Socket -------------------------------
(***************************************************************************)
(* A socket unit (coms/socket/src): its state machine, the descriptors of  *)
(* its ports, their sources in the event loop, and the service that the    *)
(* first client activates.                                                 *)
(*                                                                         *)
(* A handler runs to its end and is one action.  The enter_* functions are *)
(* operators from a unit to the set of its outcomes, which differ where a  *)
(* system call may fail.  A descriptor is "open", "none" (-1), or "closed":*)
(* the port still holds the number of a descriptor that is gone.  A source *)
(* is "on" exactly while its descriptor is registered with epoll.          *)
(***************************************************************************)
EXTENDS Naturals, FiniteSets

SocketState == {"Dead", "StartPre", "StartPost", "Listening", "Running", "StopPre",
                "StopPost", "Failed", "StateMax"}
SocketCommand == {"StartPre", "StartPost", "StopPre", "StopPost"}
SocketResult == {"Success", "FailureResources", "FailureExitCode", "FailureStartLimitHit"}

\* SectionSocket: the number of commands of each kind, and Accept=.
Config == [cmds : [SocketCommand -> 0..2], accept : BOOLEAN]

CONSTANTS
  Port,       \* the ListenStream=, ListenDatagram=, ... of the unit
  Stream,     \* the ports that accept connections
  Configs,    \* the unit files considered
  Faults,     \* may a command, a descriptor or the service fail to be started?
  MaxStarts,  \* bound: calls of start
  MaxReexecs  \* bound: re-executions of the manager

ASSUME SocketAssumption ==
  /\ Stream \subseteq Port /\ IsFiniteSet(Port)
  /\ Configs \subseteq Config
  /\ Faults \in BOOLEAN /\ MaxStarts \in Nat /\ MaxReexecs \in Nat

VARIABLES
  conf,      \* SocketConfig: the unit file
  load,      \* UnitRef: "no" before the load, else the service "found", "none" or "failed"
  u,         \* SocketMngData, SocketPid and the ports
  rec,       \* the stored record, SocketReMng
  waiting,   \* ports with a client or a datagram that nobody has taken yet
  pending,   \* ports the event loop is going to dispatch
  service,   \* "inactive", "starting" or "active"
  stop_job,  \* UmIf::has_stop_job
  starts, reexecs

kvars == <<conf, load, u, rec, waiting, pending, service, stop_job, starts, reexecs>>

\* u.stale: processes still watched although the unit holds another control pid.
\* u.flushed: the ports a flush has emptied; u.cold: watched by entry_coldplug.
\* u.stranded (history): the command popped last could not be spawned, and run_next left
\* the unit in its state with no process to wait for.
Unit == [state : SocketState, result : SocketResult, control : BOOLEAN, stale : Nat,
         control_command : 0..2, fd : [Port -> {"none", "open", "closed"}],
         source : [Port -> {"none", "off", "on"}], flushed : SUBSET Port,
         cold : BOOLEAN, stranded : BOOLEAN, panic : BOOLEAN]

NewUnit == [state |-> "StateMax", result |-> "Success", control |-> FALSE, stale |-> 0,
            control_command |-> 0, fd |-> [p \in Port |-> "none"],
            source |-> [p \in Port |-> "none"], flushed |-> {}, cold |-> FALSE,
            stranded |-> FALSE, panic |-> FALSE]

Starting == {"StartPre", "StartPost"}
Stopping == {"StopPre", "StopPost"}
is_active(s) == s.state \in {"Listening", "Running"}

Then(S, Op(_)) == UNION {Op(s) : s \in S}
panic(s) == [s EXCEPT !.panic = TRUE]

-----------------------------------------------------------------------------
(* Ports and their sources. *)

\* epoll_ctl fails for a descriptor that is gone or, when added, is there already.
watch_fds(s) ==
  IF \E p \in Port : s.fd[p] = "closed" \/ (s.fd[p] = "open" /\ s.source[p] = "on")
  THEN panic(s)
  ELSE [s EXCEPT !.source = [p \in Port |-> IF s.fd[p] = "open" THEN "on" ELSE @[p]]]

gone(s) == \E p \in Port : s.source[p] = "on" /\ s.fd[p] # "open"

unwatch_fds(s) ==
  IF gone(s) THEN panic(s) ELSE [s EXCEPT !.source = [p \in Port |-> "off"], !.cold = FALSE]

close_fds(s) ==
  IF gone(s) THEN panic(s)
  ELSE [s EXCEPT !.source = [p \in Port |-> "none"], !.fd = [p \in Port |-> "none"],
                 !.cold = FALSE]

\* open_port leaves a descriptor it has as it is.  One port that fails closes all.
open_port(fd) == IF fd = "none" THEN "open" ELSE fd
open_fds(s) == [s EXCEPT !.fd = [p \in Port |-> open_port(@[p])]]

\* The ports whose address takes connections, socket_listen made them listen.
can_accept(p) == p \in Stream

\* flush_accept closes the port's own descriptor once it has accepted a client;
\* flush_fd reads what a port without connections holds.
flush_accept(p, fd) == IF p \in waiting /\ fd = "open" THEN "closed" ELSE fd
flush_fd(s) == {p \in waiting : s.fd[p] = "open"}

flush_ports(s) ==
  [s EXCEPT !.fd = [p \in Port |-> IF can_accept(p) THEN flush_accept(p, @[p]) ELSE @[p]],
            !.flushed = @ \cup flush_fd(s)]

-----------------------------------------------------------------------------
(* Commands and states. *)

unwatch_control(s) == [s EXCEPT !.control = FALSE]
set_result(s, res) == IF s.result = "Success" THEN [s EXCEPT !.result = res] ELSE s

\* SocketSpawn::start_socket and set_control; the process held before stays watched.
start_socket(s) ==
  [s EXCEPT !.control = TRUE, !.stale = IF s.control THEN @ + 1 ELSE @, !.stranded = FALSE]

\* Mutant: the ports stay watched in every state.
set_state_watched(s, st) ==
  LET s1 == [s EXCEPT !.state = st]
      s2 == IF st \in Starting \cup Stopping THEN s1 ELSE unwatch_control(s1)
  IN  IF st \in {"StartPost", "Listening", "Running", "StopPre"} THEN s2 ELSE close_fds(s2)

set_state(s, st) ==
  LET s1 == [s EXCEPT !.state = st]
      s2 == IF st \in Starting \cup Stopping THEN s1 ELSE unwatch_control(s1)
      s3 == IF st = "Listening" THEN s2 ELSE unwatch_fds(s2)
  IN  IF s3.panic \/ st \in {"StartPost", "Listening", "Running", "StopPre"} THEN s3
      ELSE close_fds(s3)

\* control_command_fill and _pop: a kind without commands leaves the queue as it is.
filled(s, k) == IF conf.cmds[k] = 0 THEN s.control_command ELSE conf.cmds[k]
popped(s, k) == [s EXCEPT !.control_command = filled(s, k) - 1]

\* Run the first command of kind k in state k, or go on with none, or fail.
run_command(s, k, none, fail) ==
  IF filled(s, k) = 0 THEN none
  ELSE {set_state(start_socket(popped(s, k)), k)} \cup IF Faults THEN fail ELSE {}

enter_dead(s, res) ==
  LET s1 == set_result(s, res)
  IN  {set_state(s1, IF s1.result = "Success" THEN "Dead" ELSE "Failed")}

\* enter_signal of FinalSigterm, then of FinalSigkill: nobody waits for the processes.
enter_signal_final(s, res) == enter_dead(set_result(s, res), "Success")

\* enter_stop_post does not let go of the process it may still have.
enter_stop_post(s, res) ==
  LET s1 == set_result(s, res)
  IN  run_command(s1, "StopPost", enter_signal_final(s1, "Success"),
                  enter_signal_final(popped(s1, "StopPost"), "FailureResources"))

\* enter_signal of StopPreSigterm, then of StopPreSigkill.
enter_signal(s, res) == enter_stop_post(set_result(s, res), "Success")

enter_stop_pre(s, res) ==
  LET s1 == unwatch_control(set_result(s, res))
  IN  run_command(s1, "StopPre", enter_stop_post(s1, "Success"),
                  enter_stop_post(popped(s1, "StopPre"), "FailureResources"))

\* Mutant: the ports are not watched.
enter_listening_unwatched(s) == {set_state(s, "Listening")}

enter_listening(s) ==
  LET s1 == watch_fds(IF conf.accept THEN s ELSE flush_ports(s)) IN {IF s1.panic THEN s1 ELSE set_state(s1, "Listening")}

enter_start_post(s) ==
  LET s1 == unwatch_control(s)
  IN  run_command(s1, "StartPost", enter_listening(s1),
                  enter_stop_pre(popped(s1, "StartPost"), "FailureResources"))

enter_start_chown(s) ==
  enter_start_post(open_fds(s))
    \cup IF Faults THEN enter_stop_pre(close_fds(s), "FailureResources") ELSE {}

enter_start_pre(s) ==
  LET s1 == unwatch_control(s)
  IN  run_command(s1, "StartPre", enter_start_chown(s1),
                  enter_dead(popped(s1, "StartPre"), "FailureResources"))

\* enter_running of descriptor -1, the only one dispatch_io passes (the accepted one
\* is a variable of an inner block).
\* A service that cannot be started ends the socket.
enter_running(s) ==
  CASE stop_job -> {flush_ports(s)}
    [] ~ stop_job /\ service # "inactive" -> {set_state(s, "Running")}
    [] ~ stop_job /\ service = "inactive" /\ load = "none" -> enter_stop_pre(s, "FailureResources")
    [] OTHER -> {set_state(s, "Running")}
                  \cup IF Faults THEN enter_stop_pre(s, "FailureResources") ELSE {}

-----------------------------------------------------------------------------
(* Calls, events and the manager. *)

KInit ==
  /\ conf \in Configs
  /\ load = "no"
  /\ u = NewUnit
  /\ rec = NewUnit
  /\ waiting = {} /\ pending = {}
  /\ service = "inactive" /\ stop_job = FALSE
  /\ starts = 0 /\ reexecs = 0

\* A client whose port was closed or flushed is gone.
heard(s) == {p \in waiting : s.fd[p] = "open"} \ s.flushed

\* db_update: what the record keeps of the unit.
db_insert(s) == [s EXCEPT !.source = NewUnit.source, !.cold = FALSE, !.panic = FALSE]

Outcome(S, saved) ==
  \E s \in S :
    /\ u' = [s EXCEPT !.flushed = {}]
    /\ waiting' = heard(s)
    /\ rec' = IF saved /\ ~ s.panic THEN db_insert([s EXCEPT !.flushed = {}]) ELSE rec

\* A unit whose ports are all accepted for it needs no service of its own.
no_accept_socket == ~ conf.accept \/ \E p \in Port : ~ can_accept(p)

\* socket_add_extras: the service of the unit, named by Service= or like the unit, and
\* the default dependencies; either may fail.
load_related_unit == {"found"} \cup IF Faults THEN {"failed"} ELSE {}
add_default_dependencies(found) == {found} \cup IF Faults THEN {"failed"} ELSE {}
socket_add_extras ==
  UNION {add_default_dependencies(f) : f \in IF no_accept_socket THEN load_related_unit ELSE {"none"}}

\* SocketConfig::load: a file, a Service= or a Listen= that does not parse.
config_load == {"parsed"} \cup IF Faults THEN {"failed"} ELSE {}

Load ==
  /\ load = "no"
  /\ \E c \in config_load : load' \in IF c = "parsed" THEN socket_add_extras ELSE {c}
  /\ UNCHANGED <<conf, u, rec, waiting, pending, service, stop_job, starts, reexecs>>

\* SocketUnit::start, called by the unit unless it is active: start_check and start_action.
Start ==
  /\ ~ u.panic /\ load \in {"found", "none"} /\ ~ is_active(u) /\ u.state \notin Starting \cup Stopping
  /\ starts < MaxStarts
  /\ starts' = starts + 1
  /\ \/ Outcome(enter_start_pre(u), TRUE)
     \/ Faults /\ Outcome(enter_dead(u, "FailureStartLimitHit"), FALSE)
  /\ UNCHANGED <<conf, load, pending, service, stop_job, reexecs>>

\* SocketUnit::stop: a stop of a unit that is starting is signalled, not stored, and
\* answered with EAgain.
Stop ==
  /\ ~ u.panic /\ stop_job /\ u.state \notin Stopping \cup {"Dead", "Failed"}
  /\ IF u.state \in Starting THEN Outcome(enter_signal(u, "Success"), FALSE)
     ELSE Outcome(enter_stop_pre(u, "Success"), TRUE)
  /\ UNCHANGED <<conf, load, pending, service, stop_job, starts, reexecs>>

\* A Stop of the unit is queued with the job engine, or has left it.  A unit that was
\* never started counts as deactivating (StateMax) and is stopped like an active one.
StopJob ==
  /\ ~ u.panic /\ load \in {"found", "none"}
  /\ IF stop_job THEN u.state \in {"Dead", "Failed"} ELSE u.state \notin {"Dead", "Failed"}
  /\ stop_job' = ~ stop_job
  /\ UNCHANGED <<conf, load, u, rec, waiting, pending, service, starts, reexecs>>

\* run_next: a command that cannot be spawned is only logged, and nothing follows it.
run_next(s) ==
  LET s1 == [s EXCEPT !.control_command = @ - 1]
  IN  {start_socket(s1)} \cup IF Faults THEN {[s1 EXCEPT !.stranded = TRUE]} ELSE {}

\* Mutant: nothing follows ExecStopPre=.
sigchld_event_ignored(s, res) ==
  CASE s.state = "StartPre"  -> enter_start_chown(s)
    [] s.state = "StartPost" -> enter_listening(s)
    [] s.state = "StopPost"  -> enter_dead(s, res)
    [] OTHER -> {s}

sigchld_event(s, res) ==
  CASE s.control_command > 0 /\ res = "Success" -> run_next(s)
    [] OTHER ->
       CASE s.state = "StartPre"  -> IF res = "Success" THEN enter_start_chown(s)
                                     ELSE enter_signal_final(s, res)
         [] s.state = "StartPost" -> IF res = "Success" THEN enter_listening(s)
                                     ELSE enter_stop_pre(s, res)
         [] s.state = "StopPre"   -> enter_stop_post(s, res)
         [] s.state = "StopPost"  -> enter_dead(s, res)
         [] OTHER -> {panic(s)}

\* SIGCHLD of the control process, or of one the unit forgot to stop watching.
SigchldControl ==
  /\ ~ u.panic /\ u.control
  /\ \E res \in {"Success", "FailureExitCode"} :
       Outcome(sigchld_event([u EXCEPT !.control = FALSE], res), TRUE)
  /\ UNCHANGED <<conf, load, pending, service, stop_job, starts, reexecs>>

SigchldStale ==
  /\ ~ u.panic /\ u.stale > 0
  /\ \E res \in {"Success", "FailureExitCode"} :
       Outcome(sigchld_event([u EXCEPT !.stale = @ - 1], res), TRUE)
  /\ UNCHANGED <<conf, load, pending, service, stop_job, starts, reexecs>>

\* SocketMngPort::dispatch: the port was pending; in the meantime it may have been
\* turned off, or deleted, which the event loop does not survive.
\* With Accept= the client is taken, and its descriptor lost.
dispatch_io(p) ==
  IF u.state # "Listening" THEN UNCHANGED <<u, rec, waiting, service>>
  ELSE /\ Outcome(enter_running([u EXCEPT !.flushed = IF conf.accept THEN {p} \cap Stream ELSE {}]), TRUE)
       /\ service' = IF u'.state = "Running" /\ service = "inactive" THEN "starting" ELSE service

\* accept() fails: dispatch_io returns before enter_running, and the client waits on.
accept_fails(p) ==
  /\ Faults /\ conf.accept /\ can_accept(p)
  /\ u.state = "Listening" /\ u.source[p] = "on"

DispatchRefused(p) ==
  /\ ~ u.panic /\ p \in pending /\ accept_fails(p)
  /\ pending' = pending \ {p}
  /\ UNCHANGED <<conf, load, u, rec, waiting, service, stop_job, starts, reexecs>>

Dispatch(p) ==
  /\ ~ u.panic /\ p \in pending
  /\ pending' = pending \ {p}
  /\ CASE u.source[p] = "on"   -> dispatch_io(p)
       [] u.source[p] = "off"  -> UNCHANGED <<u, rec, waiting, service>>
       [] u.source[p] = "none" -> u' = panic(u) /\ UNCHANGED <<rec, waiting, service>>
  /\ UNCHANGED <<conf, load, stop_job, starts, reexecs>>

\* epoll_wait reports the ports that can be read; a port is reported again in every
\* round, so one entry stands for all.
Poll ==
  /\ ~ u.panic
  /\ {p \in waiting : u.source[p] = "on"} \ pending # {}
  /\ pending' = pending \cup {p \in waiting : u.source[p] = "on"}
  /\ UNCHANGED <<conf, load, u, rec, waiting, service, stop_job, starts, reexecs>>

\* The manager is executed anew, with recovery switched on: db_map from the record, with
\* fd_take of the descriptors that are left.
db_map(s) ==
  LET s1 == [rec EXCEPT !.control = s.control, !.stale = s.stale,
               !.fd = [p \in Port |-> IF rec.fd[p] = "open" /\ s.fd[p] # "open" THEN "closed"
                                      ELSE rec.fd[p]]]
  IN  IF rec.control_command > 0 THEN panic(s1) ELSE s1

\* make_consistent: had a handler of the unit only begun when the manager crashed, the unit
\* is restarted, and the stop of that restart is forced: stop_action in whatever state.
make_consistent(s) == IF s.panic THEN {} ELSE enter_stop_pre(s, "Success")

\* entry_coldplug watches the ports in whatever state.
entry_coldplug(s) ==
  IF s.panic THEN s ELSE [watch_fds(s) EXCEPT !.cold = s.state # "Listening"]

Reexec ==
  /\ ~ u.panic /\ reexecs < MaxReexecs
  /\ reexecs' = reexecs + 1
  /\ \/ u' = entry_coldplug(db_map(u)) /\ rec' = rec
     \/ \E s \in make_consistent(db_map(u)) :
          u' = entry_coldplug(s) /\ rec' = IF s.panic THEN rec ELSE db_insert(s)
  /\ waiting' = {p \in waiting : u'.fd[p] = "open"}
  /\ pending' = {}
  /\ UNCHANGED <<conf, load, service, stop_job, starts>>

-----------------------------------------------------------------------------
(* The clients and the service, from outside. *)

Connect ==
  \E p \in Port : /\ ~ u.panic /\ u.fd[p] = "open"
                  /\ waiting' = waiting \cup {p}
                  /\ UNCHANGED <<conf, load, u, rec, pending, service, stop_job, starts, reexecs>>

\* The service got the descriptors (collect_fds) and takes the clients.
ServiceStarted ==
  /\ ~ u.panic /\ service = "starting"
  /\ service' = "active"
  /\ waiting' = {}
  /\ UNCHANGED <<conf, load, u, rec, pending, stop_job, starts, reexecs>>

ServiceEnds ==
  /\ ~ u.panic /\ service \in {"starting", "active"} /\ Faults
  /\ service' = "inactive"
  /\ UNCHANGED <<conf, load, u, rec, waiting, pending, stop_job, starts, reexecs>>

\* A manager that has aborted is started again by process 1, not by this unit.
Aborted == u.panic /\ UNCHANGED kvars

KNext ==
  \/ Load \/ Start \/ Stop \/ StopJob \/ SigchldControl \/ SigchldStale \/ Poll \/ Reexec
  \/ Connect \/ ServiceStarted \/ ServiceEnds \/ Aborted
  \/ \E p \in Port : Dispatch(p) \/ DispatchRefused(p)

KSpec == KInit /\ [][KNext]_kvars

\* The event loop serves what is pending, a command ends, the engine calls; accept() does
\* not fail for ever.
KFair ==
  /\ WF_kvars(Poll) /\ WF_kvars(SigchldControl) /\ WF_kvars(Stop) /\ WF_kvars(ServiceStarted)
  /\ \A p \in Port : SF_kvars(Dispatch(p))

KLive == KSpec /\ KFair

-----------------------------------------------------------------------------
(* Properties. *)

\* Every variable has its type.
KTypeOK ==
  /\ conf \in Configs /\ load \in {"no", "found", "none", "failed"}
  /\ u \in Unit /\ rec \in Unit
  /\ waiting \subseteq Port /\ pending \subseteq Port
  /\ service \in {"inactive", "starting", "active"} /\ stop_job \in BOOLEAN
  /\ starts \in 0..MaxStarts /\ reexecs \in 0..MaxReexecs

\* What the descriptors and the event loop know agrees with the state, through every
\* order of calls, exits, clients, failures and re-executions: a listening unit hears
\* every port, no other state keeps a port watched unless entry_coldplug has just
\* watched it, and a unit that is down, or not open yet, holds no descriptor.
PortsFollowState ==
  ~ u.panic =>
    /\ u.state = "Listening" /\ ~ stop_job => \A p \in Port : u.fd[p] = "open" /\ u.source[p] = "on"
    /\ u.state # "Listening" /\ ~ u.cold => \A p \in Port : u.source[p] # "on"
    /\ u.state \in {"Dead", "Failed", "StartPre", "StopPost"} /\ ~ u.cold
         => \A p \in Port : u.fd[p] = "none"

\* A client of a listening socket gets the service started, unless the socket is
\* stopped or fails first (set_enabled, dispatch_io and enter_running together).
ClientsActivate ==
  (u.state = "Listening" /\ waiting # {}) ~> (service # "inactive" \/ u.state # "Listening" \/ u.panic \/ stop_job)

\* A stop ends, whatever the unit was doing and although nobody waits for the
\* processes that are signalled: one way out is left open, the command after the first of
\* ExecStopPre= or ExecStopPost= that cannot be spawned, which strands the unit (run_next).
SocketStops ==
  stop_job ~> \/ u.state \in {"Dead", "Failed"} \/ u.panic
              \/ u.state \in Stopping /\ u.stranded

\* «control command should not exit» (mng.rs:821): no process is watched in a state
\* in which its exit is unreachable!().
ExitsExpected == ~ u.panic /\ (u.control \/ u.stale > 0) => u.state \in Starting \cup Stopping
=============================================================================
