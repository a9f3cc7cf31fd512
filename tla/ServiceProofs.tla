---------------------------- MODULE ServiceProofs ----------------------------
(***************************************************************************)
(* Proofs about Service, for any set of services that service_verify lets  *)
(* pass: the types, that the processes a service holds are those its state *)
(* calls for, that a stopped service does not restart by itself, and that  *)
(* it shows the job engine what that is modelled to expect of a unit.      *)
(*                                                                         *)
(* The argument follows the enter_* functions: each of them ends in        *)
(* set_state, or in one that does, so what it promises of its outcomes     *)
(* does not depend on the state it was called in.  For the last theorem    *)
(* they are followed once more, with the words each of them reports.       *)
(***************************************************************************)
EXTENDS Service, SequenceTheorems, TLAPS

\* A service in a handler: the sub-states it reports pile up.
Going == [state : ServiceState, result : ServiceResult,
          main : Process, known : BOOLEAN, control : Process, other : BOOLEAN,
          main_command : 0..2, control_command : 0..2,
          notify_state : {"Unknown", "Ready", "Stopping"},
          forbid_restart : BOOLEAN, timer : BOOLEAN, inotify : BOOLEAN,
          watchdog : BOOLEAN, override : {"none", "on", "off"},
          panic : BOOLEAN, stored : 0..2, path : Seq(SubState)]

\* The processes of a service are those its state calls for.
Fits(o) ==
  /\ o.main # "none" => o.state # "Dead"
  /\ o.control # "none" => o.state # "Running"
  /\ o.state \in {"Condition", "StartPre", "StartPost", "Reload", "Stop", "StopPost"}
       => o.control # "none" \/ o.inotify

\* Without a watchdog and a PID file nothing comes back to a service.
Calm(o) == undisturbed(conf) => ~ o.watchdog /\ ~ o.inotify /\ o.override # "on"

\* A service that is stopped, or on its way there and may not restart.
Ended(o) ==
  \/ o.state \in Stopping /\ o.forbid_restart
  \/ o.state \in {"Dead", "Failed"} /\ o.main = "none" /\ o.control = "none"

\* What every enter_* function promises of its outcomes S, called with s.
Enters(s, S) == \A o \in S : o \in Going /\ (~ Faults => Fits(o)) /\ (Calm(s) => Calm(o))

\* The fields that few functions touch.
SameTimers(s, o) == o.watchdog = s.watchdog /\ o.inotify = s.inotify /\ o.override = s.override
Same(s, o) == SameTimers(s, o) /\ o.forbid_restart = s.forbid_restart

ConfOK == conf \in Configs

-----------------------------------------------------------------------------
(* Processes and commands. *)

LEMMA ConfTyped ==
  ASSUME ConfOK
  PROVE  /\ conf \in Config /\ service_verify(conf)
         /\ \A k \in ServiceCommand : conf.cmds[k] \in 0..2
         /\ conf.watchdog \in BOOLEAN
  BY ServiceAssumption DEF ConfOK, Config

LEMMA SameCalm ==
  ASSUME NEW s, NEW o, SameTimers(s, o), Calm(s)
  PROVE  Calm(o)
  BY DEF SameTimers, Calm

LEMMA UnwatchMain ==
  ASSUME NEW s \in Going
  PROVE  /\ unwatch_main(s) \in Going /\ Same(s, unwatch_main(s))
         /\ unwatch_main(s).main = "none" /\ unwatch_main(s).control = s.control
         /\ unwatch_main(s).state = s.state
  <1>1. unwatch_main(s) \in Going
    BY DEF Going, unwatch_main, alive, Process
  <1>2. unwatch_main(s).main = "none" /\ unwatch_main(s).control = s.control /\ unwatch_main(s).state = s.state
        /\ unwatch_main(s).override = s.override
    BY DEF Going, unwatch_main
  <1>3. unwatch_main(s).watchdog = s.watchdog /\ unwatch_main(s).inotify = s.inotify
        /\ unwatch_main(s).forbid_restart = s.forbid_restart
    BY DEF Going, unwatch_main
  <1>4. QED
    BY <1>1, <1>2, <1>3 DEF Same, SameTimers

LEMMA UnwatchControl ==
  ASSUME NEW s \in Going
  PROVE  /\ unwatch_control(s) \in Going /\ Same(s, unwatch_control(s))
         /\ unwatch_control(s).control = "none" /\ unwatch_control(s).main = s.main
         /\ unwatch_control(s).state = s.state
  <1>1. unwatch_control(s) \in Going
    BY DEF Going, unwatch_control, Process
  <1>2. unwatch_control(s).control = "none" /\ unwatch_control(s).main = s.main /\ unwatch_control(s).state = s.state
        /\ unwatch_control(s).override = s.override
    BY DEF Going, unwatch_control
  <1>3. unwatch_control(s).watchdog = s.watchdog /\ unwatch_control(s).inotify = s.inotify
        /\ unwatch_control(s).forbid_restart = s.forbid_restart
    BY DEF Going, unwatch_control
  <1>4. QED
    BY <1>1, <1>2, <1>3 DEF Same, SameTimers

LEMMA SetMain ==
  ASSUME NEW s \in Going
  PROVE  /\ set_main(s) \in Going /\ Same(s, set_main(s))
         /\ set_main(s).main = "alive" /\ set_main(s).control = s.control /\ set_main(s).state = s.state
  <1> DEFINE t == unwatch_main(s)
  <1>1. t \in Going /\ Same(s, t) /\ t.control = s.control /\ t.state = s.state
    BY UnwatchMain
  <1>2. set_main(s) = [t EXCEPT !.main = "alive", !.known = TRUE]
    BY DEF set_main
  <1> HIDE DEF t
  <1>3. [t EXCEPT !.main = "alive", !.known = TRUE] \in Going
    BY <1>1 DEF Going, Process
  <1>4. /\ set_main(s).main = "alive" /\ set_main(s).control = t.control /\ set_main(s).state = t.state
        /\ set_main(s).override = t.override
    BY <1>1, <1>2 DEF Going
  <1>5. /\ set_main(s).watchdog = t.watchdog /\ set_main(s).inotify = t.inotify
        /\ set_main(s).forbid_restart = t.forbid_restart
    BY <1>1, <1>2 DEF Going
  <1>6. QED
    BY <1>1, <1>2, <1>3, <1>4, <1>5 DEF Same, SameTimers

LEMMA SetControl ==
  ASSUME NEW s \in Going
  PROVE  /\ set_control(s) \in Going /\ Same(s, set_control(s))
         /\ set_control(s).control = "alive" /\ set_control(s).main = s.main /\ set_control(s).state = s.state
  <1> DEFINE t == unwatch_control(s)
  <1>1. t \in Going /\ Same(s, t) /\ t.main = s.main /\ t.state = s.state
    BY UnwatchControl
  <1>2. set_control(s) = [t EXCEPT !.control = "alive"]
    BY DEF set_control
  <1> HIDE DEF t
  <1>3. [t EXCEPT !.control = "alive"] \in Going
    BY <1>1 DEF Going, Process
  <1>4. /\ set_control(s).control = "alive" /\ set_control(s).main = t.main /\ set_control(s).state = t.state
        /\ set_control(s).override = t.override
    BY <1>1, <1>2 DEF Going
  <1>5. /\ set_control(s).watchdog = t.watchdog /\ set_control(s).inotify = t.inotify
        /\ set_control(s).forbid_restart = t.forbid_restart
    BY <1>1, <1>2 DEF Going
  <1>6. QED
    BY <1>1, <1>2, <1>3, <1>4, <1>5 DEF Same, SameTimers

\* Queues of commands, and the result.
LEMMA WithCommands ==
  ASSUME NEW s \in Going, NEW n \in 0..2, NEW o,
         o = [s EXCEPT !.control_command = n] \/ o = [s EXCEPT !.main_command = n]
  PROVE  /\ o \in Going /\ Same(s, o)
         /\ o.control = s.control /\ o.main = s.main /\ o.state = s.state
  <1>1. o \in Going
    BY DEF Going
  <1>2. o.control = s.control /\ o.main = s.main /\ o.state = s.state /\ o.override = s.override
    BY DEF Going
  <1>3. o.watchdog = s.watchdog /\ o.inotify = s.inotify /\ o.forbid_restart = s.forbid_restart
    BY DEF Going
  <1>4. QED
    BY <1>1, <1>2, <1>3 DEF Same, SameTimers

LEMMA ClearControl ==
  ASSUME NEW s \in Going
  PROVE  /\ clear_control(s) \in Going /\ Same(s, clear_control(s))
         /\ clear_control(s).control = s.control /\ clear_control(s).main = s.main
         /\ clear_control(s).state = s.state
  BY WithCommands DEF clear_control

LEMMA Popped ==
  ASSUME ConfOK, NEW s \in Going, NEW k \in ServiceCommand, control_command_fill(s, k).control_command # 0
  PROVE  /\ popped(s, k) \in Going /\ Same(s, popped(s, k))
         /\ popped(s, k).control = s.control /\ popped(s, k).main = s.main /\ popped(s, k).state = s.state
  <1>1. conf.cmds[k] \in 0..2
    BY ConfTyped
  <1> DEFINE t == control_command_fill(s, k)
  <1>2. /\ t \in Going /\ Same(s, t) /\ t.control = s.control /\ t.main = s.main /\ t.state = s.state
    <2>1. CASE conf.cmds[k] = 0
      BY <2>1 DEF control_command_fill, Same, SameTimers
    <2>2. CASE conf.cmds[k] # 0
      BY <1>1, <2>2, WithCommands DEF control_command_fill
    <2>3. QED
      BY <2>1, <2>2
  <1>3. t.control_command # 0
    OBVIOUS
  <1> HIDE DEF t
  <1>4. t.control_command - 1 \in 0..2
    <2>1. t.control_command \in 0..2
      BY <1>2 DEF Going
    <2>2. QED
      BY <1>3, <2>1
  <1>5. popped(s, k) = [t EXCEPT !.control_command = t.control_command - 1]
    BY DEF popped, pop_control, t
  <1>6. /\ popped(s, k) \in Going /\ Same(t, popped(s, k))
        /\ popped(s, k).control = t.control /\ popped(s, k).main = t.main /\ popped(s, k).state = t.state
    BY <1>2, <1>4, <1>5, WithCommands
  <1>7. QED
    BY <1>2, <1>6 DEF Same, SameTimers

LEMMA SetResult ==
  ASSUME NEW s \in Going, NEW res \in ServiceResult
  PROVE  /\ set_result(s, res) \in Going /\ Same(s, set_result(s, res))
         /\ set_result(s, res).control = s.control /\ set_result(s, res).main = s.main
         /\ set_result(s, res).state = s.state
  <1> DEFINE o == [s EXCEPT !.result = res]
  <1>1. o \in Going
    BY DEF Going
  <1>2. o.control = s.control /\ o.main = s.main /\ o.state = s.state /\ o.override = s.override
    BY DEF Going
  <1>3. o.watchdog = s.watchdog /\ o.inotify = s.inotify /\ o.forbid_restart = s.forbid_restart
    BY DEF Going
  <1>4. set_result(s, res) \in {s, o}
    BY DEF set_result
  <1> HIDE DEF o
  <1>5. QED
    BY <1>1, <1>2, <1>3, <1>4 DEF Same, SameTimers

LEMMA SubStateOK ==
  ASSUME NEW s
  PROVE  sub_state(s) \in SubState
  BY DEF sub_state, SubState

\* set_state keeps the processes that belong to the state, and lets go of the others.
KeepMain == {"Start", "StartPost", "Running", "Reload"} \cup Stopping
KeepControl == Starting \cup {"Reload"} \cup Stopping
LEMMA SetState ==
  ASSUME NEW s \in Going, NEW st \in ServiceState
  PROVE  /\ set_state(s, st) \in Going /\ Same(s, set_state(s, st)) /\ set_state(s, st).state = st
         /\ set_state(s, st).main = (IF st \in KeepMain THEN s.main ELSE "none")
         /\ set_state(s, st).control = (IF st \in KeepControl THEN s.control ELSE "none")
  <1> DEFINE s1 == IF st \in KeepMain THEN s ELSE [unwatch_main(s) EXCEPT !.main_command = 0]
             s2 == IF st \in KeepControl THEN s1 ELSE clear_control(unwatch_control(s1))
             s3 == [s2 EXCEPT !.state = st]
             o == [s3 EXCEPT !.path = Append(@, sub_state(s3))]
  <1>1. s1 \in Going /\ Same(s, s1) /\ s1.control = s.control /\ s1.main = (IF st \in KeepMain THEN s.main ELSE "none")
    <2> DEFINE t == unwatch_main(s)
               u == [t EXCEPT !.main_command = 0]
    <2>1. t \in Going /\ Same(s, t) /\ t.control = s.control /\ t.main = "none"
      BY UnwatchMain
    <2> HIDE DEF t
    <2>2. u \in Going /\ Same(t, u) /\ u.control = t.control /\ u.main = t.main
      BY <2>1, WithCommands
    <2> HIDE DEF u
    <2>3. CASE st \in KeepMain
      BY <2>3 DEF Same, SameTimers
    <2>4. CASE st \notin KeepMain
      <3>1. s1 = u
        BY <2>4 DEF u, t
      <3> HIDE DEF s1
      <3>2. QED
        BY <2>1, <2>2, <2>4, <3>1 DEF Same, SameTimers
    <2>5. QED
      BY <2>3, <2>4
  <1> HIDE DEF s1
  <1>2. s2 \in Going /\ Same(s1, s2) /\ s2.main = s1.main /\ s2.control = (IF st \in KeepControl THEN s1.control ELSE "none")
    <2> DEFINE t == unwatch_control(s1)
               u == clear_control(t)
    <2>1. t \in Going /\ Same(s1, t) /\ t.main = s1.main /\ t.control = "none"
      BY <1>1, UnwatchControl
    <2> HIDE DEF t
    <2>2. u \in Going /\ Same(t, u) /\ u.control = t.control /\ u.main = t.main
      BY <2>1, ClearControl
    <2> HIDE DEF u
    <2>3. CASE st \in KeepControl
      BY <1>1, <2>3 DEF Same, SameTimers
    <2>4. CASE st \notin KeepControl
      <3>1. s2 = u
        BY <2>4 DEF u, t
      <3> HIDE DEF s2
      <3>2. QED
        BY <2>1, <2>2, <2>4, <3>1 DEF Same, SameTimers
    <2>5. QED
      BY <2>3, <2>4
  <1> HIDE DEF s2
  <1>3. s3 \in Going /\ s3.state = st /\ s3.main = s2.main /\ s3.control = s2.control /\ s3.override = s2.override
    BY <1>2 DEF Going
  <1>4. s3.watchdog = s2.watchdog /\ s3.inotify = s2.inotify /\ s3.forbid_restart = s2.forbid_restart
    BY <1>2 DEF Going
  <1> HIDE DEF s3
  <1>5. Append(s3.path, sub_state(s3)) \in Seq(SubState)
    BY <1>3, SubStateOK DEF Going
  <1> DEFINE p == Append(s3.path, sub_state(s3))
  <1>6. o = [s3 EXCEPT !.path = p]
    OBVIOUS
  <1> HIDE DEF p, o
  <1>7. o \in Going
    BY <1>3, <1>5, <1>6 DEF Going, p
  <1>8. o.state = s3.state /\ o.main = s3.main /\ o.control = s3.control /\ o.override = s3.override
    BY <1>3, <1>6 DEF Going
  <1>9. o.watchdog = s3.watchdog /\ o.inotify = s3.inotify /\ o.forbid_restart = s3.forbid_restart
    BY <1>3, <1>6 DEF Going
  <1>10. set_state(s, st) = o
    BY DEF set_state, o, p, s3, s2, s1, KeepMain, KeepControl
  <1>11. QED
    BY <1>1, <1>2, <1>3, <1>4, <1>7, <1>8, <1>9, <1>10 DEF Same, SameTimers

-----------------------------------------------------------------------------
(* The enter_* functions, from the last to the first. *)

\* Called with a service that may not restart, the outcomes S end it.
Stops(s, S) == s.forbid_restart => \A o \in S : Ended(o)

LEMMA EntersFrom ==
  ASSUME NEW s, NEW t, Calm(s) => Calm(t), NEW S, Enters(t, S)
  PROVE  Enters(s, S)
  BY DEF Enters

LEMMA StopsFrom ==
  ASSUME NEW s, NEW t, Same(s, t), NEW S
  PROVE  /\ Enters(t, S) => Enters(s, S)
         /\ Stops(t, S) => Stops(s, S)
  <1>1. Calm(s) => Calm(t)
    BY SameCalm DEF Same
  <1>2. QED
    BY <1>1, EntersFrom DEF Same, Stops

\* A command that runs in a state that waits for it.
LEMMA RunControl ==
  ASSUME ConfOK, NEW s \in Going, NEW k \in ServiceCommand, NEW st \in KeepControl,
         NEW none, NEW fail, Enters(s, none),
         control_command_fill(s, k).control_command # 0 /\ Faults => Enters(s, fail)
  PROVE  Enters(s, run_control(s, k, st, none, fail))
  <1>1. CASE control_command_fill(s, k).control_command = 0
    BY <1>1 DEF run_control
  <1>2. CASE control_command_fill(s, k).control_command # 0
    <2> DEFINE t == popped(s, k)
               c == set_control(t)
               o == set_state(c, st)
    <2>1. t \in Going /\ Same(s, t)
      BY <1>2, Popped
    <2> HIDE DEF t
    <2>2. c \in Going /\ Same(t, c) /\ c.control = "alive"
      BY <2>1, SetControl
    <2> HIDE DEF c
    <2>3. st \in ServiceState /\ st \notin {"Dead", "Running"}
      BY DEF KeepControl, Starting, Stopping, ServiceState
    <2>4. o \in Going /\ Same(c, o) /\ o.state = st /\ o.control = c.control
      BY <2>2, <2>3, SetState
    <2>5. run_control(s, k, st, none, fail) = {o} \cup (IF Faults THEN fail ELSE {})
      BY <1>2 DEF run_control, spawned, o, c, t
    <2> HIDE DEF o
    <2>6. Fits(o)
      BY <2>2, <2>3, <2>4 DEF Fits
    <2>7. Calm(s) => Calm(o)
      BY <2>1, <2>2, <2>4, SameCalm DEF Same
    <2>8. QED
      BY <1>2, <2>4, <2>5, <2>6, <2>7 DEF Enters
  <1>3. QED
    BY <1>1, <1>2

LEMMA RunStops ==
  ASSUME ConfOK, NEW s \in Going, NEW k \in ServiceCommand, NEW st \in Stopping,
         NEW none, NEW fail, Stops(s, none),
         control_command_fill(s, k).control_command # 0 /\ Faults => Stops(s, fail)
  PROVE  Stops(s, run_control(s, k, st, none, fail))
  <1>1. CASE control_command_fill(s, k).control_command = 0
    BY <1>1 DEF run_control
  <1>2. CASE control_command_fill(s, k).control_command # 0
    <2> DEFINE t == popped(s, k)
               c == set_control(t)
               o == set_state(c, st)
    <2>1. t \in Going /\ Same(s, t)
      BY <1>2, Popped
    <2> HIDE DEF t
    <2>2. c \in Going /\ Same(t, c)
      BY <2>1, SetControl
    <2> HIDE DEF c
    <2>3. st \in ServiceState
      BY DEF Stopping, ServiceState
    <2>4. o \in Going /\ Same(c, o) /\ o.state = st
      BY <2>2, <2>3, SetState
    <2>5. run_control(s, k, st, none, fail) = {o} \cup (IF Faults THEN fail ELSE {})
      BY <1>2 DEF run_control, spawned, o, c, t
    <2> HIDE DEF o
    <2>6. s.forbid_restart => Ended(o)
      BY <2>1, <2>2, <2>4 DEF Same, Ended
    <2>7. QED
      BY <1>2, <2>5, <2>6 DEF Stops
  <1>3. QED
    BY <1>1, <1>2

LEMMA EnterDead ==
  ASSUME NEW s \in Going, NEW res \in ServiceResult, NEW force_restart \in BOOLEAN
  PROVE  /\ Enters(s, enter_dead(s, res, force_restart))
         /\ s.forbid_restart \/ ~ force_restart => \A o \in enter_dead(s, res, force_restart) : Ended(o)
  <1> DEFINE s1 == set_result(s, res)
             again == force_restart /\ ~ stop_job /\ shall_restart(s1)
             end == IF s1.result = "Success" THEN "Dead" ELSE "Failed"
             s2 == set_state(s1, end)
             tick == [s2 EXCEPT !.timer = TRUE]
             auto == set_state(tick, "AutoRestart")
             s3 == IF again THEN auto ELSE s2
             o == [s3 EXCEPT !.forbid_restart = FALSE]
  <1>1. s1 \in Going /\ Same(s, s1)
    BY SetResult
  <1>2. s.forbid_restart \/ ~ force_restart => ~ again
    BY <1>1 DEF shall_restart, Same
  <1>3. enter_dead(s, res, force_restart) = {o}
    BY DEF enter_dead
  <1> HIDE DEF s1, again
  <1>4. end \in {"Dead", "Failed"} /\ end \in ServiceState /\ "AutoRestart" \in ServiceState
        /\ end \notin KeepMain /\ end \notin KeepControl
        /\ "AutoRestart" \notin KeepMain /\ "AutoRestart" \notin KeepControl
    BY DEF ServiceState, KeepMain, KeepControl, Starting, Stopping
  <1> HIDE DEF end
  <1>5. s2 \in Going /\ Same(s1, s2) /\ s2.state = end /\ s2.main = "none" /\ s2.control = "none"
    BY <1>1, <1>4, SetState
  <1> HIDE DEF s2
  <1>6. tick \in Going /\ tick.override = s2.override
    BY <1>5 DEF Going
  <1>7. tick.watchdog = s2.watchdog /\ tick.inotify = s2.inotify
    BY <1>5 DEF Going
  <1> HIDE DEF tick
  <1>8. auto \in Going /\ Same(tick, auto) /\ auto.state = "AutoRestart" /\ auto.main = "none" /\ auto.control = "none"
    BY <1>4, <1>6, SetState
  <1> HIDE DEF auto
  <1>9. /\ s3 \in Going /\ SameTimers(s1, s3) /\ s3.main = "none" /\ s3.control = "none"
        /\ s3.state \in {"Dead", "Failed", "AutoRestart"} /\ (~ again => s3.state \in {"Dead", "Failed"})
    BY <1>4, <1>5, <1>6, <1>7, <1>8 DEF Same, SameTimers
  <1> HIDE DEF s3
  <1>10. o \in Going
    BY <1>9 DEF Going
  <1>11. o.state = s3.state /\ o.main = s3.main /\ o.control = s3.control /\ o.override = s3.override
    BY <1>9 DEF Going
  <1>12. o.watchdog = s3.watchdog /\ o.inotify = s3.inotify
    BY <1>9 DEF Going
  <1> HIDE DEF o
  <1>13. Fits(o)
    BY <1>9, <1>11 DEF Fits
  <1>14. Calm(s) => Calm(o)
    <2>1. SameTimers(s, o)
      BY <1>1, <1>9, <1>11, <1>12 DEF Same, SameTimers
    <2>2. QED
      BY <2>1, SameCalm
  <1>15. ~ again => Ended(o)
    BY <1>9, <1>11 DEF Ended
  <1>16. QED
    BY <1>2, <1>3, <1>10, <1>13, <1>14, <1>15 DEF Enters

LEMMA EnterFinal ==
  ASSUME NEW s \in Going
  PROVE  Enters(s, enter_signal_final(s)) /\ Stops(s, enter_signal_final(s))
  <1>1. "Success" \in ServiceResult
    BY DEF ServiceResult, ExitResult
  <1>2. QED
    BY <1>1, EnterDead DEF enter_signal_final, Stops

LEMMA EnterStopPost ==
  ASSUME ConfOK, NEW s \in Going, NEW res \in ServiceResult
  PROVE  Enters(s, enter_stop_post(s, res)) /\ Stops(s, enter_stop_post(s, res))
  <1> DEFINE s1 == set_result(s, res)
             none == enter_signal_final(s1)
             fail == enter_signal_final(popped(s1, "StopPost"))
  <1>1. s1 \in Going /\ Same(s, s1)
    BY SetResult
  <1>2. enter_stop_post(s, res) = run_control(s1, "StopPost", "StopPost", none, fail)
    BY DEF enter_stop_post
  <1> HIDE DEF s1
  <1>3. Enters(s1, none) /\ Stops(s1, none)
    BY <1>1, EnterFinal
  <1>4. "StopPost" \in ServiceCommand /\ "StopPost" \in Stopping /\ "StopPost" \in KeepControl
    BY DEF ServiceCommand, Stopping, KeepControl
  <1>5. control_command_fill(s1, "StopPost").control_command # 0 => Enters(s1, fail) /\ Stops(s1, fail)
    BY <1>1, <1>4, Popped, EnterFinal, StopsFrom
  <1> HIDE DEF none, fail
  <1>6. Enters(s1, enter_stop_post(s, res)) /\ Stops(s1, enter_stop_post(s, res))
    BY <1>1, <1>2, <1>3, <1>4, <1>5, RunControl, RunStops
  <1>7. QED
    BY <1>1, <1>6, StopsFrom

LEMMA EnterSignal ==
  ASSUME ConfOK, NEW s \in Going, NEW res
  PROVE  Enters(s, enter_signal(s, res)) /\ Stops(s, enter_signal(s, res))
  <1>1. "Success" \in ServiceResult
    BY DEF ServiceResult, ExitResult
  <1>2. QED
    BY <1>1, EnterStopPost DEF enter_signal

LEMMA EnterStop ==
  ASSUME ConfOK, NEW s \in Going, NEW res \in ServiceResult
  PROVE  Enters(s, enter_stop(s, res)) /\ Stops(s, enter_stop(s, res))
  <1> DEFINE s1 == set_result(s, res)
             none == enter_signal(s1, "Success")
             fail == enter_signal(popped(s1, "Stop"), "FailureResources")
  <1>1. s1 \in Going /\ Same(s, s1)
    BY SetResult
  <1>2. enter_stop(s, res) = run_control(s1, "Stop", "Stop", none, fail)
    BY DEF enter_stop
  <1> HIDE DEF s1
  <1>3. Enters(s1, none) /\ Stops(s1, none)
    BY <1>1, EnterSignal
  <1>4. "Stop" \in ServiceCommand /\ "Stop" \in Stopping /\ "Stop" \in KeepControl
    BY DEF ServiceCommand, Stopping, KeepControl
  <1>5. control_command_fill(s1, "Stop").control_command # 0 => Enters(s1, fail) /\ Stops(s1, fail)
    BY <1>1, <1>4, Popped, EnterSignal, StopsFrom
  <1> HIDE DEF none, fail
  <1>6. Enters(s1, enter_stop(s, res)) /\ Stops(s1, enter_stop(s, res))
    BY <1>1, <1>2, <1>3, <1>4, <1>5, RunControl, RunStops
  <1>7. QED
    BY <1>1, <1>6, StopsFrom

\* A service with a new state that keeps no control process it would not call for.
LEMMA EnterState ==
  ASSUME NEW s \in Going, NEW st \in {"Running", "StopSigterm", "Exited", "Start"}
  PROVE  Enters(s, {set_state(s, st)})
  <1>1. st \in ServiceState /\ ("Running" \notin KeepControl)
    BY DEF ServiceState, KeepControl, Starting, Stopping
  <1> DEFINE o == set_state(s, st)
  <1>2. o \in Going /\ Same(s, o) /\ o.state = st /\ (st = "Running" => o.control = "none")
    BY <1>1, SetState
  <1> HIDE DEF o
  <1>3. Fits(o)
    BY <1>2 DEF Fits
  <1>4. Calm(s) => Calm(o)
    BY <1>2, SameCalm DEF Same
  <1>5. Enters(s, {o})
    BY <1>2, <1>3, <1>4 DEF Enters
  <1>6. QED
    BY <1>5 DEF o

LEMMA EnterRunning ==
  ASSUME ConfOK, NEW s \in Going, NEW res \in ServiceResult
  PROVE  Enters(s, enter_running(s, res))
  <1> DEFINE t == unwatch_control(s)
             s1 == set_result(t, res)
             st == IF s1.notify_state = "Stopping" THEN "StopSigterm" ELSE "Running"
  <1>1. t \in Going /\ Same(s, t)
    BY UnwatchControl
  <1> HIDE DEF t
  <1>2. s1 \in Going /\ Same(t, s1)
    BY <1>1, SetResult
  <1>3. enter_running(s, res) =
          CASE s1.result # "Success" -> enter_signal(s1, res)
            [] s1.result = "Success" /\ service_alive(s1) -> {set_state(s1, st)}
            [] s1.result = "Success" /\ ~ service_alive(s1) /\ conf.remain -> {set_state(s1, "Exited")}
            [] OTHER -> enter_stop(s1, res)
    BY DEF enter_running, t
  <1> HIDE DEF s1
  <1>4. Enters(s1, enter_signal(s1, res)) /\ Enters(s1, enter_stop(s1, res))
    BY <1>2, EnterSignal, EnterStop
  <1>5. Enters(s1, {set_state(s1, st)}) /\ Enters(s1, {set_state(s1, "Exited")})
    BY <1>2, EnterState
  <1>6. Enters(s1, enter_running(s, res))
    <2>1. CASE s1.result # "Success"
      BY <1>3, <1>4, <2>1
    <2>2. CASE s1.result = "Success" /\ service_alive(s1)
      BY <1>3, <1>5, <2>2
    <2>3. CASE s1.result = "Success" /\ ~ service_alive(s1) /\ conf.remain
      BY <1>3, <1>5, <2>3
    <2>4. CASE s1.result = "Success" /\ ~ service_alive(s1) /\ ~ conf.remain
      BY <1>3, <1>4, <2>4
    <2>5. QED
      BY <2>1, <2>2, <2>3, <2>4
  <1>7. QED
    BY <1>1, <1>2, <1>6, StopsFrom

LEMMA RestartWatchdog ==
  ASSUME ConfOK, NEW s \in Going
  PROVE  /\ restart_watchdog(s) \in Going /\ (Calm(s) => Calm(restart_watchdog(s)))
         /\ restart_watchdog(s).state = s.state /\ restart_watchdog(s).main = s.main
         /\ restart_watchdog(s).control = s.control /\ restart_watchdog(s).forbid_restart = s.forbid_restart
         /\ restart_watchdog(s).inotify = s.inotify
  <1> DEFINE w == IF s.override = "none" THEN conf.watchdog ELSE s.override = "on"
             o == [s EXCEPT !.watchdog = w]
  <1>1. w \in BOOLEAN
    BY ConfTyped
  <1>2. Calm(s) => (undisturbed(conf) => ~ w)
    BY DEF Calm, undisturbed
  <1>3. restart_watchdog(s) = o
    BY DEF restart_watchdog
  <1> HIDE DEF w
  <1>4. o \in Going
    BY <1>1 DEF Going
  <1>5. o.state = s.state /\ o.main = s.main /\ o.control = s.control /\ o.override = s.override
    BY DEF Going
  <1>6. o.watchdog = w /\ o.inotify = s.inotify /\ o.forbid_restart = s.forbid_restart
    BY DEF Going
  <1> HIDE DEF o
  <1>7. Calm(s) => Calm(o)
    BY <1>2, <1>5, <1>6 DEF Calm
  <1>8. QED
    BY <1>3, <1>4, <1>5, <1>6, <1>7

LEMMA Succeeds == "Success" \in ServiceResult /\ "FailureResources" \in ServiceResult
                  /\ "FailureTimeout" \in ServiceResult /\ "FailureProtocol" \in ServiceResult
                  /\ ExitResult \subseteq ServiceResult
  BY DEF ServiceResult, ExitResult

LEMMA EnterStartPost ==
  ASSUME ConfOK, NEW s \in Going
  PROVE  Enters(s, enter_start_post(s))
  <1> DEFINE t == unwatch_control(s)
             s1 == restart_watchdog(t)
             none == enter_running(s1, "Success")
             fail == {popped(s1, "StartPost")}
  <1>1. t \in Going /\ Same(s, t)
    BY UnwatchControl
  <1>2. Calm(s) => Calm(t)
    BY <1>1, SameCalm DEF Same
  <1>3. enter_start_post(s) = run_control(s1, "StartPost", "StartPost", none, fail)
    BY DEF enter_start_post
  <1> HIDE DEF t
  <1>4. s1 \in Going /\ (Calm(t) => Calm(s1))
    BY <1>1, RestartWatchdog
  <1> HIDE DEF s1
  <1>5. Enters(s1, none)
    BY <1>4, EnterRunning, Succeeds
  <1>6. "StartPost" \in ServiceCommand /\ "StartPost" \in KeepControl
    BY DEF ServiceCommand, Starting, KeepControl
  <1>7. control_command_fill(s1, "StartPost").control_command # 0 /\ Faults => Enters(s1, fail)
    <2> SUFFICES ASSUME control_command_fill(s1, "StartPost").control_command # 0, Faults
                 PROVE  Enters(s1, fail)
      OBVIOUS
    <2>1. popped(s1, "StartPost") \in Going /\ Same(s1, popped(s1, "StartPost"))
      BY <1>4, <1>6, Popped
    <2>2. QED
      BY <2>1, SameCalm DEF Enters, Same
  <1> HIDE DEF none, fail
  <1>8. Enters(s1, enter_start_post(s))
    BY <1>3, <1>4, <1>5, <1>6, <1>7, RunControl
  <1>9. QED
    BY <1>2, <1>4, <1>8, EntersFrom

LEMMA Spawned ==
  ASSUME NEW s, NEW yes, NEW no, Enters(s, yes), Faults => Enters(s, no)
  PROVE  Enters(s, spawned(yes, no))
  BY DEF Enters, spawned

LEMMA EnterStart ==
  ASSUME ConfOK, NEW s \in Going
  PROVE  Enters(s, enter_start(s))
  <1> DEFINE a == clear_control(s)
             b == unwatch_control(a)
             c == unwatch_main(b)
             s1 == [c EXCEPT !.main_command = conf.cmds.Start]
             child == set_control(pop_control(control_command_fill(s1, "Start")))
             run0 == [s1 EXCEPT !.main_command = @ - 1]
             run == set_main(run0)
  <1>1. a \in Going /\ Same(s, a)
    BY ClearControl
  <1>2. b \in Going /\ Same(a, b)
    BY <1>1, UnwatchControl
  <1>3. c \in Going /\ Same(b, c)
    BY <1>2, UnwatchMain
  <1>4. conf.cmds.Start \in 0..2 /\ "Start" \in ServiceCommand
    BY ConfTyped DEF ServiceCommand
  <1>5. s1 \in Going /\ Same(c, s1)
    <2> HIDE DEF c
    <2>1. QED
      BY <1>3, <1>4, WithCommands
  <1>6. Same(s, s1)
    <2> HIDE DEF a, b, c, s1
    <2>1. QED
      BY <1>1, <1>2, <1>3, <1>5 DEF Same, SameTimers
  <1>7. s1.main_command = conf.cmds.Start
    <2> HIDE DEF c
    <2>1. QED
      BY <1>3 DEF Going
  <1>8. enter_start(s) =
          CASE conf.cmds.Start = 0   -> enter_start_post(set_state(s1, "Start"))
            [] conf.type = "simple"  -> spawned(enter_start_post(run), enter_signal(s1, "FailureResources"))
            [] conf.type = "forking" -> spawned({set_state(child, "Start")}, enter_signal(s1, "FailureResources"))
            [] OTHER                 -> spawned({set_state(run, "Start")}, enter_signal(s1, "FailureResources"))
    BY DEF enter_start
  <1> HIDE DEF a, b, c, s1
  <1>9. Enters(s1, enter_signal(s1, "FailureResources"))
    BY <1>5, EnterSignal
  <1>10. CASE conf.cmds.Start = 0
    <2>1. conf.type \notin {"simple", "forking"}
      BY <1>10, ConfTyped DEF service_verify
    <2>2. enter_start(s) = enter_start_post(set_state(s1, "Start"))
      BY <1>8, <1>10, <2>1
    <2>3. set_state(s1, "Start") \in Going /\ Same(s1, set_state(s1, "Start"))
      BY <1>5, SetState DEF ServiceState
    <2>4. QED
      BY <1>6, <2>2, <2>3, EnterStartPost, StopsFrom
  <1>11. CASE conf.cmds.Start # 0
    <2>1. run0 \in Going /\ Same(s1, run0)
      <3>1. run0 = [s1 EXCEPT !.main_command = conf.cmds.Start - 1] /\ conf.cmds.Start - 1 \in 0..2
        BY <1>4, <1>7, <1>11
      <3>2. QED
        BY <1>5, <3>1, WithCommands
    <2> HIDE DEF run0
    <2>2. run \in Going /\ Same(run0, run)
      BY <2>1, SetMain
    <2> HIDE DEF run
    <2>3. Enters(s1, enter_start_post(run)) /\ Enters(s1, {set_state(run, "Start")})
      <3>1. Enters(run, enter_start_post(run)) /\ Enters(run, {set_state(run, "Start")})
        BY <2>2, EnterStartPost, EnterState
      <3>2. QED
        BY <2>1, <2>2, <3>1, StopsFrom
    <2> DEFINE t == popped(s1, "Start")
    <2>4. control_command_fill(s1, "Start").control_command # 0
      <3>1. control_command_fill(s1, "Start") = [s1 EXCEPT !.control_command = conf.cmds.Start]
        BY <1>11 DEF control_command_fill
      <3>2. control_command_fill(s1, "Start").control_command = conf.cmds.Start
        BY <1>5, <3>1 DEF Going
      <3>3. QED
        BY <1>11, <3>2
    <2>5. t \in Going /\ Same(s1, t)
      BY <1>4, <1>5, <2>4, Popped
    <2>6. child = set_control(t)
      BY DEF popped
    <2> HIDE DEF t, child
    <2>7. child \in Going /\ Same(t, child)
      BY <2>5, <2>6, SetControl
    <2>8. Enters(s1, {set_state(child, "Start")})
      BY <2>5, <2>7, EnterState, StopsFrom
    <2>9. Enters(s1, enter_start(s))
      <3>1. CASE conf.type = "simple"
        BY <1>8, <1>9, <1>11, <2>3, <3>1, Spawned
      <3>2. CASE conf.type = "forking"
        BY <1>8, <1>9, <1>11, <2>8, <3>2, Spawned
      <3>3. CASE conf.type \notin {"simple", "forking"}
        BY <1>8, <1>9, <1>11, <2>3, <3>3, Spawned
      <3>4. QED
        BY <3>1, <3>2, <3>3
    <2>10. QED
      BY <1>6, <2>9, StopsFrom
  <1>12. QED
    BY <1>10, <1>11

LEMMA Unavailable ==
  ASSUME NEW s \in Going
  PROVE  Enters(s, unavailable(s))
  BY EnterDead, Succeeds DEF unavailable

LEMMA EnterPrestart ==
  ASSUME ConfOK, NEW s \in Going
  PROVE  Enters(s, enter_prestart(s))
  <1> DEFINE s1 == unwatch_control(s)
             none == enter_start(s1)
             fail == unavailable(popped(s1, "StartPre"))
  <1>1. s1 \in Going /\ Same(s, s1)
    BY UnwatchControl
  <1>2. enter_prestart(s) = run_control(s1, "StartPre", "StartPre", none, fail)
    BY DEF enter_prestart
  <1> HIDE DEF s1
  <1>3. Enters(s1, none)
    BY <1>1, EnterStart
  <1>4. "StartPre" \in ServiceCommand /\ "StartPre" \in KeepControl
    BY DEF ServiceCommand, Starting, KeepControl
  <1>5. control_command_fill(s1, "StartPre").control_command # 0 => Enters(s1, fail)
    BY <1>1, <1>4, Popped, Unavailable, StopsFrom
  <1> HIDE DEF none, fail
  <1>6. Enters(s1, enter_prestart(s))
    BY <1>1, <1>2, <1>3, <1>4, <1>5, RunControl
  <1>7. QED
    BY <1>1, <1>6, StopsFrom

LEMMA EnterCondition ==
  ASSUME ConfOK, NEW s \in Going
  PROVE  Enters(s, enter_condition(s))
  <1> DEFINE none == enter_prestart(s)
             fail == unavailable(popped(s, "Condition"))
  <1>1. enter_condition(s) = run_control(s, "Condition", "Condition", none, fail)
    BY DEF enter_condition
  <1>2. Enters(s, none)
    BY EnterPrestart
  <1>3. "Condition" \in ServiceCommand /\ "Condition" \in KeepControl
    BY DEF ServiceCommand, Starting, KeepControl
  <1>4. control_command_fill(s, "Condition").control_command # 0 => Enters(s, fail)
    BY <1>3, Popped, Unavailable, StopsFrom
  <1> HIDE DEF none, fail
  <1>5. QED
    BY <1>1, <1>2, <1>3, <1>4, RunControl

LEMMA EnterReload ==
  ASSUME ConfOK, NEW s \in Going
  PROVE  Enters(s, enter_reload(s))
  <1> DEFINE a == clear_control(s)
             s1 == unwatch_control(a)
             none == enter_running(s1, "Success")
             fail == enter_running(popped(s1, "Reload"), "Success")
  <1>1. a \in Going /\ Same(s, a)
    BY ClearControl
  <1>2. s1 \in Going /\ Same(a, s1)
    BY <1>1, UnwatchControl
  <1>3. enter_reload(s) = run_control(s1, "Reload", "Reload", none, fail)
    BY DEF enter_reload
  <1> HIDE DEF a, s1
  <1>4. Enters(s1, none)
    BY <1>2, EnterRunning, Succeeds
  <1>5. "Reload" \in ServiceCommand /\ "Reload" \in KeepControl
    BY DEF ServiceCommand, KeepControl
  <1>6. control_command_fill(s1, "Reload").control_command # 0 => Enters(s1, fail)
    BY <1>2, <1>5, Popped, EnterRunning, Succeeds, StopsFrom
  <1> HIDE DEF none, fail
  <1>7. Enters(s1, enter_reload(s))
    BY <1>2, <1>3, <1>4, <1>5, <1>6, RunControl
  <1>8. QED
    BY <1>1, <1>2, <1>7, StopsFrom

-----------------------------------------------------------------------------
(* The main process, when the service does not spawn it. *)

\* The outcomes S of a function that is followed by another.
Reaches(s, S) == \A x \in S : x \in Going /\ (Calm(s) => Calm(x))

LEMMA ThenEnters ==
  ASSUME NEW s, NEW S, NEW T, Reaches(s, S),
         \A o \in T : \E x \in S : \E X : o \in X /\ Enters(x, X)
  PROVE  Enters(s, T)
  BY DEF Reaches, Enters

LEMMA EntersReaches ==
  ASSUME NEW s, NEW S, Enters(s, S)
  PROVE  Reaches(s, S)
  BY DEF Enters, Reaches

\* A step that changes no more of a service than its processes and queues.
Alike(s, o) == Same(s, o) /\ o.state = s.state /\ o.control = s.control

LEMMA Adopt ==
  ASSUME NEW s \in Going, NEW o \in adopt(s)
  PROVE  o \in Going /\ Alike(s, o) /\ o.main = "alive"
  <1> DEFINE t == set_main(s)
  <1>1. PICK more \in BOOLEAN : o = [t EXCEPT !.other = more \/ alive(s.main)]
    BY DEF adopt
  <1> DEFINE b == more \/ alive(s.main)
  <1>2. b \in BOOLEAN /\ o = [t EXCEPT !.other = b]
    BY <1>1
  <1>3. t \in Going /\ Same(s, t) /\ t.main = "alive" /\ t.control = s.control /\ t.state = s.state
    BY SetMain
  <1> HIDE DEF t, b
  <1>4. o \in Going
    BY <1>2, <1>3 DEF Going
  <1>5. o.state = t.state /\ o.main = t.main /\ o.control = t.control /\ o.override = t.override
    BY <1>2, <1>3 DEF Going
  <1>6. o.watchdog = t.watchdog /\ o.inotify = t.inotify /\ o.forbid_restart = t.forbid_restart
    BY <1>2, <1>3 DEF Going
  <1>7. QED
    BY <1>3, <1>4, <1>5, <1>6 DEF Alike, Same, SameTimers

LEMMA LoadPidFile ==
  ASSUME NEW s \in Going, NEW o \in load_pid_file_ok(s)
  PROVE  o \in Going /\ Same(s, o)
  <1>1. o = s \/ o \in adopt(s)
    BY DEF load_pid_file_ok, load_pid_file_new
  <1>2. Same(s, s)
    BY DEF Same, SameTimers
  <1>3. QED
    BY <1>1, <1>2, Adopt DEF Alike

LEMMA SetInotify ==
  ASSUME NEW s \in Going, NEW b \in BOOLEAN
  PROVE  LET o == [s EXCEPT !.inotify = b] IN
         /\ o \in Going /\ o.inotify = b /\ o.state = s.state /\ o.main = s.main /\ o.control = s.control
         /\ o.watchdog = s.watchdog /\ o.override = s.override
  <1> DEFINE o == [s EXCEPT !.inotify = b]
  <1>1. o \in Going
    BY DEF Going
  <1>2. o.state = s.state /\ o.main = s.main /\ o.control = s.control /\ o.override = s.override
    BY DEF Going
  <1>3. o.inotify = b /\ o.watchdog = s.watchdog
    BY DEF Going
  <1>4. QED
    BY <1>1, <1>2, <1>3

LEMMA RetryPidFile ==
  ASSUME ConfOK, NEW s \in Going
  PROVE  Enters(s, retry_pid_file(s))
  <1> DEFINE off(x) == [x EXCEPT !.inotify = FALSE]
  <1>1. Reaches(s, load_pid_file_ok(s))
    BY LoadPidFile, SameCalm DEF Reaches, Same
  <1>2. ASSUME NEW x \in load_pid_file_ok(s)
        PROVE  Enters(x, enter_running(off(x), "Success"))
    <2>1. x \in Going
      BY LoadPidFile
    <2>2. off(x) \in Going /\ ~ off(x).inotify /\ off(x).watchdog = x.watchdog /\ off(x).override = x.override
      BY <2>1, SetInotify
    <2> HIDE DEF off
    <2>3. Calm(x) => Calm(off(x))
      BY <2>2 DEF Calm
    <2>4. QED
      BY <2>2, <2>3, EnterRunning, Succeeds, EntersFrom
  <1>3. \A o \in retry_pid_file(s) : \E x \in load_pid_file_ok(s) : o \in enter_running(off(x), "Success")
    BY DEF retry_pid_file, Then
  <1> HIDE DEF off
  <1>4. QED
    BY <1>1, <1>2, <1>3, ThenEnters

\* The watch of a PID file belongs to a service that has one.
LEMMA WatchPidFile ==
  ASSUME ConfOK, NEW s \in Going, Calm(s) => ~ undisturbed(conf),
         ~ Faults => (s.main # "none" => s.state # "Dead") /\ (s.control # "none" => s.state # "Running")
  PROVE  Enters(s, watch_pid_file(s))
  <1> DEFINE w == [s EXCEPT !.inotify = TRUE]
  <1>1. w \in Going /\ w.inotify /\ w.state = s.state /\ w.main = s.main /\ w.control = s.control
    BY SetInotify
  <1>2. watch_pid_file(s) = {w} \cup retry_pid_file(w)
    BY DEF watch_pid_file
  <1> HIDE DEF w
  <1>3. Calm(s) => Calm(w)
    BY DEF Calm
  <1>4. ~ Faults => Fits(w)
    BY <1>1 DEF Fits
  <1>5. Enters(s, retry_pid_file(w))
    BY <1>1, <1>3, RetryPidFile, EntersFrom
  <1>6. QED
    BY <1>1, <1>2, <1>3, <1>4, <1>5 DEF Enters

LEMMA WatchFails ==
  ASSUME NEW s \in Going
  PROVE  Reaches(s, watch_fails(s))
  <1> DEFINE w == [s EXCEPT !.inotify = FALSE]
  <1>1. w \in Going /\ ~ w.inotify /\ w.watchdog = s.watchdog /\ w.override = s.override
    BY SetInotify
  <1>2. watch_fails(s) \subseteq {w}
    BY DEF watch_fails
  <1> HIDE DEF w
  <1>3. Calm(s) => Calm(w)
    BY <1>1 DEF Calm
  <1>4. QED
    BY <1>1, <1>2, <1>3 DEF Reaches

-----------------------------------------------------------------------------
(* do_sigchld_event *)

LEMMA Todo ==
  ASSUME NEW s \in Going
  PROVE  LET o == [s EXCEPT !.panic = TRUE] IN
         o \in Going /\ Alike(s, o) /\ o.main = s.main /\ todo(s) = {o}
  <1> DEFINE o == [s EXCEPT !.panic = TRUE]
  <1>1. o \in Going
    BY DEF Going
  <1>2. o.state = s.state /\ o.main = s.main /\ o.control = s.control /\ o.override = s.override
    BY DEF Going
  <1>3. o.watchdog = s.watchdog /\ o.inotify = s.inotify /\ o.forbid_restart = s.forbid_restart
    BY DEF Going
  <1>4. QED
    BY <1>1, <1>2, <1>3 DEF Alike, Same, SameTimers, todo

\* A service that stays as it is fits if it did.
LEMMA Stays ==
  ASSUME NEW s \in Going, NEW o \in Going, Alike(s, o), ~ Faults => Fits(s),
         o.main = s.main \/ o.main = "none" \/ s.main # "none"
  PROVE  Enters(s, {o}) /\ (~ Faults => Fits(o))
  <1>1. Calm(s) => Calm(o)
    BY SameCalm DEF Alike, Same
  <1>2. ~ Faults => Fits(o)
    BY DEF Fits, Alike, Same, SameTimers
  <1>3. QED
    BY <1>1, <1>2 DEF Enters

LEMMA StaysPut ==
  ASSUME NEW s \in Going, ~ Faults => Fits(s)
  PROVE  Enters(s, {s}) /\ Enters(s, todo(s))
  <1>1. Alike(s, s)
    BY DEF Alike, Same, SameTimers
  <1> DEFINE o == [s EXCEPT !.panic = TRUE]
  <1>2. o \in Going /\ Alike(s, o) /\ o.main = s.main /\ todo(s) = {o}
    BY Todo
  <1> HIDE DEF o
  <1>3. QED
    BY <1>1, <1>2, Stays

LEMMA MainGone ==
  ASSUME ConfOK, NEW s \in Going, NEW res \in ServiceResult, ~ Faults => Fits(s)
  PROVE  /\ Enters(s, main_gone(s, res))
         /\ s.state \in Stopping /\ s.forbid_restart => \A o \in main_gone(s, res) : Ended(o)
  <1>0. Enters(s, {s}) /\ Enters(s, todo(s))
    BY StaysPut
  <1>1. /\ Enters(s, enter_start_post(s)) /\ Enters(s, enter_signal(s, res)) /\ Enters(s, enter_running(s, res))
        /\ Enters(s, enter_stop(s, res)) /\ Enters(s, enter_stop_post(s, res))
    BY EnterStartPost, EnterSignal, EnterRunning, EnterStop, EnterStopPost
  <1>2. Enters(s, or_signal(res, s, enter_start_post(s)))
    BY <1>1 DEF or_signal
  <1>3. Enters(s, main_gone(s, res))
    <2>1. \/ main_gone(s, res) = todo(s)
          \/ main_gone(s, res) = or_signal(res, s, enter_start_post(s))
          \/ main_gone(s, res) = enter_signal(s, res)
          \/ main_gone(s, res) = enter_running(s, res)
          \/ main_gone(s, res) = enter_stop(s, res)
          \/ main_gone(s, res) = enter_stop_post(s, res)
          \/ main_gone(s, res) = {s}
      <3>1. CASE s.state = "Dead"
        BY <3>1 DEF main_gone
      <3>2. CASE s.state = "Start"
        BY <3>2 DEF main_gone
      <3>3. CASE s.state \in {"StartPost", "Reload"}
        BY <3>3 DEF main_gone
      <3>4. CASE s.state = "Running"
        BY <3>4 DEF main_gone
      <3>5. CASE s.state = "StopSigterm"
        BY <3>5 DEF main_gone
      <3>6. CASE s.state \notin {"Dead", "Start", "StartPost", "Reload", "Running", "StopSigterm"}
        BY <3>6 DEF main_gone
      <3>7. QED
        BY <3>1, <3>2, <3>3, <3>4, <3>5, <3>6
    <2>2. QED
      BY <1>0, <1>1, <1>2, <2>1
  <1>4. ASSUME s.state \in Stopping, s.forbid_restart
        PROVE  \A o \in main_gone(s, res) : Ended(o)
    <2>1. CASE s.state = "StopSigterm"
      <3>1. main_gone(s, res) = enter_stop_post(s, res)
        BY <2>1 DEF main_gone
      <3>2. QED
        BY <1>4, <3>1, EnterStopPost DEF Stops
    <2>2. CASE s.state \in {"Stop", "StopPost"}
      <3>1. main_gone(s, res) = {s}
        BY <2>2 DEF main_gone
      <3>2. QED
        BY <1>4, <3>1 DEF Ended
    <2>3. QED
      BY <1>4, <2>1, <2>2 DEF Stopping
  <1>5. QED
    BY <1>3, <1>4

LEMMA KeepsEnd ==
  ASSUME NEW s, NEW o, o.state = s.state, o.forbid_restart = s.forbid_restart,
         s.state \in Stopping, s.forbid_restart
  PROVE  Ended(o)
  BY DEF Ended

LEMMA WithMain ==
  ASSUME NEW s \in Going, NEW p \in Process
  PROVE  LET o == [s EXCEPT !.main = p] IN o \in Going /\ Alike(s, o) /\ o.main = p
  <1> DEFINE o == [s EXCEPT !.main = p]
  <1>1. o \in Going
    BY DEF Going
  <1>2. o.state = s.state /\ o.main = p /\ o.control = s.control /\ o.override = s.override
    BY DEF Going
  <1>3. o.watchdog = s.watchdog /\ o.inotify = s.inotify /\ o.forbid_restart = s.forbid_restart
    BY DEF Going
  <1>4. QED
    BY <1>1, <1>2, <1>3 DEF Alike, Same, SameTimers

LEMMA WithControl ==
  ASSUME NEW s \in Going, NEW p \in Process
  PROVE  LET o == [s EXCEPT !.control = p] IN
         o \in Going /\ Same(s, o) /\ o.control = p /\ o.main = s.main /\ o.state = s.state
  <1> DEFINE o == [s EXCEPT !.control = p]
  <1>1. o \in Going
    BY DEF Going
  <1>2. o.state = s.state /\ o.main = s.main /\ o.control = p /\ o.override = s.override
    BY DEF Going
  <1>3. o.watchdog = s.watchdog /\ o.inotify = s.inotify /\ o.forbid_restart = s.forbid_restart
    BY DEF Going
  <1>4. QED
    BY <1>1, <1>2, <1>3 DEF Same, SameTimers

LEMMA SigchldOfMain ==
  ASSUME ConfOK, NEW s \in Going, NEW res \in ExitResult, s.main # "none", ~ Faults => Fits(s)
  PROVE  /\ Enters(s, sigchld_main(s, res))
         /\ s.state \in Stopping /\ s.forbid_restart /\ ~ conf.pidfile
              => \A o \in sigchld_main(s, res) : Ended(o)
  <1> DEFINE s0 == [s EXCEPT !.main = "none"]
             s1 == set_result(s0, res)
             next == [s1 EXCEPT !.main_command = @ - 1]
             s2 == [s1 EXCEPT !.main_command = 0]
             run == set_main(next)
             rest == IF s1.main_command > 0 /\ res = "Success" /\ conf.type = "oneshot"
                       THEN spawned({run}, {next})
                       ELSE IF cgroup_good(s2) THEN {s2} ELSE main_gone(s2, res)
  <1>0. res \in ServiceResult
    BY Succeeds
  <1>1. s0 \in Going /\ Alike(s, s0) /\ s0.main = "none"
    BY WithMain DEF Process
  <1>2. sigchld_main(s, res) = load_pid_file_new(s) \cup rest
    BY DEF sigchld_main
  <1> HIDE DEF s0
  <1>3. s1 \in Going /\ Alike(s, s1) /\ s1.main = "none"
    BY <1>0, <1>1, SetResult DEF Alike, Same, SameTimers
  <1> HIDE DEF s1
  <1>4. s2 \in Going /\ Alike(s, s2) /\ s2.main = "none"
    <2>1. s2 \in Going /\ Same(s1, s2) /\ s2.control = s1.control /\ s2.main = s1.main /\ s2.state = s1.state
      BY <1>3, WithCommands
    <2> HIDE DEF s2
    <2>2. QED
      BY <1>3, <2>1 DEF Alike, Same, SameTimers
  <1>5. s1.main_command > 0 => next \in Going /\ Alike(s, next) /\ next.main = "none"
    <2> SUFFICES ASSUME s1.main_command > 0
                 PROVE  next \in Going /\ Alike(s, next) /\ next.main = "none"
      OBVIOUS
    <2>1. s1.main_command \in 0..2
      BY <1>3 DEF Going
    <2>2. s1.main_command - 1 \in 0..2
      BY <2>1
    <2>3. next \in Going /\ Same(s1, next) /\ next.control = s1.control /\ next.main = s1.main /\ next.state = s1.state
      BY <1>3, <2>2, WithCommands
    <2> HIDE DEF next
    <2>4. QED
      BY <1>3, <2>3 DEF Alike, Same, SameTimers
  <1> HIDE DEF s2, next
  <1>6. s1.main_command > 0 => run \in Going /\ Alike(s, run) /\ run.main = "alive"
    <2> SUFFICES ASSUME s1.main_command > 0
                 PROVE  run \in Going /\ Alike(s, run) /\ run.main = "alive"
      OBVIOUS
    <2>1. run \in Going /\ Same(next, run) /\ run.main = "alive" /\ run.control = next.control /\ run.state = next.state
      BY <1>5, SetMain
    <2> HIDE DEF run
    <2>2. QED
      BY <1>5, <2>1 DEF Alike, Same, SameTimers
  <1> HIDE DEF run
  <1>7. Enters(s, load_pid_file_new(s))
    <2>1. ASSUME NEW o \in load_pid_file_new(s)
          PROVE  Enters(s, {o})
      <3>1. o \in adopt(s)
        BY DEF load_pid_file_new
      <3>2. QED
        BY <3>1, Adopt, Stays
    <2>2. QED
      BY <2>1 DEF Enters
  <1>8. Enters(s, {s2}) /\ Enters(s, main_gone(s2, res))
    <2>1. Enters(s, {s2}) /\ (~ Faults => Fits(s2))
      BY <1>4, Stays
    <2>2. Enters(s2, main_gone(s2, res))
      BY <1>0, <1>4, <2>1, MainGone
    <2>3. QED
      BY <1>4, <2>1, <2>2, StopsFrom DEF Alike
  <1>9. s1.main_command > 0 => Enters(s, spawned({run}, {next}))
    BY <1>5, <1>6, Stays, Spawned
  <1>10. Enters(s, rest)
    BY <1>8, <1>9
  <1>11. ASSUME s.state \in Stopping, s.forbid_restart, ~ conf.pidfile
         PROVE  \A o \in sigchld_main(s, res) : Ended(o)
    <2>1. load_pid_file_new(s) = {}
      BY <1>11 DEF load_pid_file_new
    <2>2. Ended(s2) /\ s2.state \in Stopping /\ s2.forbid_restart
      BY <1>4, <1>11, KeepsEnd DEF Alike, Same
    <2>3. s1.main_command > 0 => Ended(run) /\ Ended(next)
      BY <1>5, <1>6, <1>11, KeepsEnd DEF Alike, Same
    <2>4. \A o \in main_gone(s2, res) : Ended(o)
      <3>1. ~ Faults => Fits(s2)
        BY <1>4, Stays
      <3>2. QED
        BY <1>0, <1>4, <2>2, <3>1, MainGone
    <2>5. s1.main_command > 0 => \A o \in spawned({run}, {next}) : Ended(o)
      BY <2>3 DEF spawned
    <2>6. \A o \in rest : Ended(o)
      BY <2>2, <2>4, <2>5
    <2> HIDE DEF rest
    <2>7. QED
      BY <1>2, <2>1, <2>6
  <1> HIDE DEF rest
  <1>12. Enters(s, sigchld_main(s, res))
    BY <1>2, <1>7, <1>10 DEF Enters
  <1>13. QED
    BY <1>11, <1>12

\* enter_start_post may be called twice.
LEMMA Forked ==
  ASSUME ConfOK, NEW s \in Going, s.state = "Start", s.control = "none"
  PROVE  Enters(s, forked(s))
  <1> DEFINE twice(x) == Then(enter_start_post(x), enter_start_post)
             no_protocol(x) == enter_signal(x, "FailureProtocol")
             loaded == Then(load_pid_file_ok(s), twice)
             watch == Then(watch_pid_file(s), LAMBDA x : IF cgroup_good(x) THEN {x} ELSE no_protocol(x))
             failed == Then(watch_fails(s), no_protocol)
  <1>1. ASSUME NEW x \in Going
        PROVE  Enters(x, twice(x))
    <2>1. Enters(x, enter_start_post(x))
      BY EnterStartPost
    <2>2. \A o \in twice(x) : \E y \in enter_start_post(x) : o \in enter_start_post(y)
      BY DEF Then
    <2> HIDE DEF twice
    <2>3. \A y \in enter_start_post(x) : Enters(y, enter_start_post(y))
      BY <2>1, EnterStartPost DEF Enters
    <2>4. QED
      BY <2>1, <2>2, <2>3, EntersReaches, ThenEnters
  <1>2. Enters(s, loaded)
    <2>1. Reaches(s, load_pid_file_ok(s))
      BY LoadPidFile, SameCalm DEF Reaches, Same
    <2>2. \A o \in loaded : \E x \in load_pid_file_ok(s) : o \in twice(x)
      BY DEF Then
    <2> HIDE DEF twice, loaded
    <2>3. \A x \in load_pid_file_ok(s) : Enters(x, twice(x))
      BY <1>1, LoadPidFile
    <2>4. QED
      BY <2>1, <2>2, <2>3, ThenEnters
  <1>3. conf.pidfile => Enters(s, watch)
    <2> SUFFICES ASSUME conf.pidfile
                 PROVE  Enters(s, watch)
      OBVIOUS
    <2>1. Enters(s, watch_pid_file(s))
      <3>1. ~ undisturbed(conf)
        BY DEF undisturbed
      <3>2. QED
        BY <3>1, WatchPidFile
    <2>2. \A o \in watch : \E x \in watch_pid_file(s) : o = x \/ o \in no_protocol(x)
      BY DEF Then
    <2> HIDE DEF watch
    <2>3. ASSUME NEW x \in watch_pid_file(s)
          PROVE  Enters(s, {x}) /\ Enters(s, no_protocol(x))
      <3>1. x \in Going /\ (Calm(s) => Calm(x))
        BY <2>1 DEF Enters
      <3>2. Enters(x, no_protocol(x))
        BY <3>1, EnterSignal
      <3> HIDE DEF no_protocol
      <3>3. QED
        BY <2>1, <3>1, <3>2, EntersFrom DEF Enters
    <2> HIDE DEF no_protocol
    <2>4. QED
      BY <2>2, <2>3 DEF Enters
  <1>4. Enters(s, failed)
    <2>1. Reaches(s, watch_fails(s))
      BY WatchFails
    <2>2. \A o \in failed : \E x \in watch_fails(s) : o \in no_protocol(x)
      BY DEF Then
    <2>3. \A x \in watch_fails(s) : Enters(x, no_protocol(x))
      BY <2>1, EnterSignal DEF Reaches
    <2> HIDE DEF failed, no_protocol
    <2>4. QED
      BY <2>1, <2>2, <2>3, ThenEnters
  <1>5. ~ conf.pidfile => forked(s) = enter_start_post(s)
    BY DEF forked, guess_main_pid, Then
  <1>6. conf.pidfile => forked(s) = loaded \cup (IF conf.cmds.StartPost > 0 THEN twice(s) ELSE watch \cup failed)
    BY DEF forked
  <1>7. Enters(s, enter_start_post(s)) /\ Enters(s, twice(s))
    BY <1>1, EnterStartPost
  <1> HIDE DEF twice, no_protocol, loaded, watch, failed
  <1>8. CASE conf.pidfile
    BY <1>2, <1>3, <1>4, <1>6, <1>7, <1>8 DEF Enters
  <1>9. CASE ~ conf.pidfile
    BY <1>5, <1>7, <1>9
  <1>10. QED
    BY <1>8, <1>9

LEMMA StartPosted ==
  ASSUME ConfOK, NEW s \in Going,
         ~ Faults => (s.main # "none" => s.state # "Dead") /\ (s.control # "none" => s.state # "Running")
  PROVE  Enters(s, start_posted(s))
  <1> DEFINE run(x) == enter_running(x, "Success")
             stop(x) == enter_stop(x, "FailureProtocol")
             sign(x) == enter_signal(x, "FailureProtocol")
             loaded == Then(load_pid_file_ok(s), run)
             watch == Then(watch_pid_file(s), LAMBDA x : IF cgroup_good(x) THEN {x} ELSE stop(x))
             failed == Then(watch_fails(s), LAMBDA x : sign(x))
  <1>1. \A x \in Going : Enters(x, run(x)) /\ Enters(x, stop(x)) /\ Enters(x, sign(x))
    BY EnterRunning, EnterStop, EnterSignal, Succeeds
  <1>2. Enters(s, loaded)
    <2>1. Reaches(s, load_pid_file_ok(s))
      BY LoadPidFile, SameCalm DEF Reaches, Same
    <2>2. \A o \in loaded : \E x \in load_pid_file_ok(s) : o \in run(x)
      BY DEF Then
    <2> HIDE DEF run, loaded
    <2>3. \A x \in load_pid_file_ok(s) : Enters(x, run(x))
      BY <1>1, LoadPidFile
    <2>4. QED
      BY <2>1, <2>2, <2>3, ThenEnters
  <1>3. conf.pidfile => Enters(s, watch)
    <2> SUFFICES ASSUME conf.pidfile
                 PROVE  Enters(s, watch)
      OBVIOUS
    <2>1. Enters(s, watch_pid_file(s))
      <3>1. ~ undisturbed(conf)
        BY DEF undisturbed
      <3>2. QED
        BY <3>1, WatchPidFile
    <2>2. \A o \in watch : \E x \in watch_pid_file(s) : o = x \/ o \in stop(x)
      BY DEF Then
    <2> HIDE DEF watch, stop
    <2>3. ASSUME NEW x \in watch_pid_file(s)
          PROVE  Enters(s, {x}) /\ Enters(s, stop(x))
      <3>1. x \in Going /\ (Calm(s) => Calm(x))
        BY <2>1 DEF Enters
      <3>2. Enters(x, stop(x))
        BY <1>1, <3>1
      <3>3. QED
        BY <2>1, <3>1, <3>2, EntersFrom DEF Enters
    <2>4. QED
      BY <2>2, <2>3 DEF Enters
  <1>4. Enters(s, failed)
    <2>1. Reaches(s, watch_fails(s))
      BY WatchFails
    <2>2. \A o \in failed : \E x \in watch_fails(s) : o \in sign(x)
      BY DEF Then
    <2> HIDE DEF failed, sign
    <2>3. \A x \in watch_fails(s) : Enters(x, sign(x))
      BY <1>1, <2>1 DEF Reaches
    <2>4. QED
      BY <2>1, <2>2, <2>3, ThenEnters
  <1>5. ~ conf.pidfile => start_posted(s) = run(s)
    BY DEF start_posted, guess_main_pid, Then
  <1>6. conf.pidfile => start_posted(s) = loaded \cup watch \cup failed
    BY DEF start_posted
  <1> HIDE DEF run, stop, sign, loaded, watch, failed
  <1>7. CASE conf.pidfile
    BY <1>2, <1>3, <1>4, <1>6, <1>7 DEF Enters
  <1>8. CASE ~ conf.pidfile
    BY <1>1, <1>5, <1>8
  <1>9. QED
    BY <1>7, <1>8

LEMMA SigchldOfControl ==
  ASSUME ConfOK, NEW s \in Going, NEW res \in ExitResult, s.control # "none", ~ Faults => Fits(s)
  PROVE  /\ Enters(s, sigchld_control(s, res))
         /\ s.state \in Stopping /\ s.forbid_restart => \A o \in sigchld_control(s, res) : Ended(o)
  <1> DEFINE s1 == [s EXCEPT !.control = "none"]
             s2 == clear_control(s1)
             pop == pop_control(s1)
             run == set_control(pop)
             more == s1.control_command > 0 /\ res = "Success"
             begun == IF res = "Success" THEN {s2} ELSE enter_signal(s2, res)
             posted == Then(begun, start_posted)
             next == CASE s.state = "Condition"   -> or_signal(res, s2, enter_prestart(s2))
                       [] s.state = "StartPre"    -> or_signal(res, s2, enter_start(s2))
                       [] s.state = "Start" /\ conf.type = "forking" -> or_signal(res, s2, forked(s2))
                       [] s.state = "StartPost"   -> posted
                       [] s.state = "Running"     -> todo(s2)
                       [] s.state = "Reload"      -> enter_running(s2, res)
                       [] s.state = "Stop"        -> enter_signal(s2, res)
                       [] s.state = "StopSigterm" -> enter_stop_post(s2, res)
                       [] s.state = "StopPost"    -> enter_signal_final(s2)
                       [] OTHER -> {s2}
  <1>0. res \in ServiceResult
    BY Succeeds
  <1>1. s1 \in Going /\ Same(s, s1) /\ s1.control = "none" /\ s1.main = s.main /\ s1.state = s.state
    BY WithControl DEF Process
  <1>2. sigchld_control(s, res) = IF more THEN spawned({run}, {pop}) ELSE next
    BY DEF sigchld_control
  <1>3. s2 \in Going /\ Same(s1, s2) /\ s2.control = "none" /\ s2.main = s.main /\ s2.state = s.state
    <2> HIDE DEF s1
    <2>1. QED
      BY <1>1, ClearControl
  <1>4. Same(s, s2)
    <2> HIDE DEF s1, s2
    <2>1. QED
      BY <1>1, <1>3 DEF Same, SameTimers
  <1>5. more => pop \in Going /\ Same(s, pop) /\ pop.main = s.main /\ pop.state = s.state
    <2> SUFFICES ASSUME more
                 PROVE  pop \in Going /\ Same(s, pop) /\ pop.main = s.main /\ pop.state = s.state
      OBVIOUS
    <2>1. s1.control_command > 0 /\ pop = [s1 EXCEPT !.control_command = s1.control_command - 1]
      BY DEF pop_control
    <2> HIDE DEF s1, pop
    <2>2. s1.control_command \in 0..2
      BY <1>1 DEF Going
    <2>3. s1.control_command - 1 \in 0..2
      BY <2>1, <2>2
    <2>4. pop \in Going /\ Same(s1, pop) /\ pop.main = s1.main /\ pop.state = s1.state
      BY <1>1, <2>1, <2>3, WithCommands
    <2>5. QED
      BY <1>1, <2>4 DEF Same, SameTimers
  <1> HIDE DEF s1, s2, pop, more
  <1>6. more => run \in Going /\ Same(s, run) /\ run.main = s.main /\ run.state = s.state /\ run.control = "alive"
    <2> SUFFICES ASSUME more
                 PROVE  run \in Going /\ Same(s, run) /\ run.main = s.main /\ run.state = s.state /\ run.control = "alive"
      OBVIOUS
    <2>1. run \in Going /\ Same(pop, run) /\ run.main = pop.main /\ run.state = pop.state /\ run.control = "alive"
      BY <1>5, SetControl
    <2> HIDE DEF run
    <2>2. QED
      BY <1>5, <2>1 DEF Same, SameTimers
  <1> HIDE DEF run
  <1>7. more => Enters(s, spawned({run}, {pop}))
    <2> SUFFICES ASSUME more
                 PROVE  Enters(s, spawned({run}, {pop}))
      OBVIOUS
    <2>1. ~ Faults => Fits(run)
      BY <1>6 DEF Fits
    <2>2. Calm(s) => Calm(run) /\ Calm(pop)
      BY <1>5, <1>6, SameCalm DEF Same
    <2>3. Enters(s, {run}) /\ (Faults => Enters(s, {pop}))
      BY <1>5, <1>6, <2>1, <2>2 DEF Enters
    <2>4. QED
      BY <2>3, Spawned
  <1>8. /\ Enters(s2, enter_prestart(s2)) /\ Enters(s2, enter_start(s2)) /\ Enters(s2, enter_running(s2, res))
        /\ Enters(s2, enter_signal(s2, res)) /\ Enters(s2, enter_stop_post(s2, res))
        /\ Enters(s2, enter_signal_final(s2))
    BY <1>0, <1>3, EnterPrestart, EnterStart, EnterRunning, EnterSignal, EnterStopPost, EnterFinal
  <1>9. s.state = "StartPost" => Enters(s2, posted)
    <2> SUFFICES ASSUME s.state = "StartPost"
                 PROVE  Enters(s2, posted)
      OBVIOUS
    <2>1. \A x \in begun : /\ x \in Going /\ (Calm(s2) => Calm(x))
                           /\ ~ Faults => (x.main # "none" => x.state # "Dead") /\ (x.control # "none" => x.state # "Running")
      BY <1>3, <1>8 DEF Enters, Fits
    <2>2. \A o \in posted : \E x \in begun : o \in start_posted(x)
      BY DEF Then
    <2> HIDE DEF posted, begun
    <2>3. \A x \in begun : Enters(x, start_posted(x))
      BY <2>1, StartPosted
    <2>4. Reaches(s2, begun)
      BY <2>1 DEF Reaches
    <2>5. QED
      BY <2>2, <2>3, <2>4, ThenEnters
  <1> HIDE DEF posted, begun
  <1>10. s.state \in {"Dead", "Start", "Running", "Exited", "AutoRestart", "Failed"} =>
           Enters(s2, {s2}) /\ Enters(s2, todo(s2))
    <2> SUFFICES ASSUME s.state \in {"Dead", "Start", "Running", "Exited", "AutoRestart", "Failed"}
                 PROVE  Enters(s2, {s2}) /\ Enters(s2, todo(s2))
      OBVIOUS
    <2>1. ~ Faults => Fits(s2)
      BY <1>3 DEF Fits
    <2>2. QED
      BY <1>3, <2>1, StaysPut
  <1>11. s.state = "Start" => Enters(s2, or_signal(res, s2, forked(s2)))
    BY <1>3, <1>8, Forked DEF or_signal
  <1>12. Enters(s2, or_signal(res, s2, enter_prestart(s2))) /\ Enters(s2, or_signal(res, s2, enter_start(s2)))
    BY <1>8 DEF or_signal
  <1>13. Enters(s2, next)
    <2>1. s.state \in ServiceState
      BY DEF Going
    <2>2. CASE s.state = "Condition"
      BY <1>12, <2>2
    <2>3. CASE s.state = "StartPre"
      BY <1>12, <2>3
    <2>4. CASE s.state = "Start"
      BY <1>10, <1>11, <2>4
    <2>5. CASE s.state = "StartPost"
      BY <1>9, <2>5
    <2>6. CASE s.state = "Running"
      BY <1>10, <2>6
    <2>7. CASE s.state \in {"Reload", "Stop", "StopSigterm", "StopPost"}
      BY <1>8, <2>7
    <2>8. CASE s.state \in {"Dead", "Exited", "AutoRestart", "Failed"}
      BY <1>10, <2>8
    <2>9. QED
      BY <2>1, <2>2, <2>3, <2>4, <2>5, <2>6, <2>7, <2>8 DEF ServiceState
  <1>14. ASSUME s.state \in Stopping, s.forbid_restart
         PROVE  \A o \in sigchld_control(s, res) : Ended(o)
    <2>1. s2.forbid_restart
      BY <1>4, <1>14 DEF Same
    <2>2. more => Ended(run) /\ Ended(pop)
      BY <1>5, <1>6, <1>14, KeepsEnd DEF Same
    <2>3. more => \A o \in spawned({run}, {pop}) : Ended(o)
      BY <2>2 DEF spawned
    <2>4. /\ \A o \in enter_signal(s2, res) : Ended(o)
          /\ \A o \in enter_stop_post(s2, res) : Ended(o)
          /\ \A o \in enter_signal_final(s2) : Ended(o)
      BY <1>0, <1>3, <2>1, EnterSignal, EnterStopPost, EnterFinal DEF Stops
    <2>5. \A o \in next : Ended(o)
      BY <1>14, <2>4 DEF Stopping
    <2> HIDE DEF next
    <2>6. QED
      BY <1>2, <2>3, <2>5
  <1> HIDE DEF next
  <1>15. Enters(s, next)
    BY <1>4, <1>13, StopsFrom
  <1>16. Enters(s, sigchld_control(s, res))
    BY <1>2, <1>7, <1>15
  <1>17. QED
    BY <1>14, <1>16

-----------------------------------------------------------------------------
(* do_notify_message *)

LEMMA WithNotify ==
  ASSUME NEW s \in Going, NEW n \in {"Ready", "Stopping"}
  PROVE  LET o == [s EXCEPT !.notify_state = n] IN o \in Going /\ Alike(s, o) /\ o.main = s.main
  <1> DEFINE o == [s EXCEPT !.notify_state = n]
  <1>1. o \in Going
    BY DEF Going
  <1>2. o.state = s.state /\ o.main = s.main /\ o.control = s.control /\ o.override = s.override
    BY DEF Going
  <1>3. o.watchdog = s.watchdog /\ o.inotify = s.inotify /\ o.forbid_restart = s.forbid_restart
    BY DEF Going
  <1>4. QED
    BY <1>1, <1>2, <1>3 DEF Alike, Same, SameTimers

LEMMA WithOverride ==
  ASSUME NEW s \in Going, NEW v \in {"on", "off"}
  PROVE  LET o == [s EXCEPT !.override = v] IN
         /\ o \in Going /\ o.state = s.state /\ o.main = s.main /\ o.control = s.control
         /\ o.forbid_restart = s.forbid_restart /\ o.inotify = s.inotify
         /\ v = "off" \/ ~ undisturbed(conf) => (Calm(s) => Calm(o))
  <1> DEFINE o == [s EXCEPT !.override = v]
  <1>1. o \in Going
    BY DEF Going
  <1>2. o.state = s.state /\ o.main = s.main /\ o.control = s.control /\ o.override = v
    BY DEF Going
  <1>3. o.watchdog = s.watchdog /\ o.inotify = s.inotify /\ o.forbid_restart = s.forbid_restart
    BY DEF Going
  <1> HIDE DEF o
  <1>4. v = "off" \/ ~ undisturbed(conf) => (Calm(s) => Calm(o))
    BY <1>2, <1>3 DEF Calm
  <1>5. QED
    BY <1>1, <1>2, <1>3, <1>4 DEF o

\* A watchdog that starts again changes nothing else.
LEMMA Rewatched ==
  ASSUME ConfOK, NEW s \in Going, NEW t \in Going, ~ Faults => Fits(s), Calm(s) => Calm(t),
         t.state = s.state, t.main = s.main, t.control = s.control, t.inotify = s.inotify,
         t.forbid_restart = s.forbid_restart
  PROVE  /\ Enters(s, {restart_watchdog(t)})
         /\ s.state \in Stopping /\ s.forbid_restart => Ended(restart_watchdog(t))
         /\ Ended(s) => Ended(restart_watchdog(t))
  <1> DEFINE o == restart_watchdog(t)
  <1>1. /\ o \in Going /\ (Calm(t) => Calm(o)) /\ o.state = s.state /\ o.main = s.main /\ o.control = s.control
        /\ o.forbid_restart = s.forbid_restart /\ o.inotify = s.inotify
    BY RestartWatchdog
  <1> HIDE DEF o
  <1>2. ~ Faults => Fits(o)
    BY <1>1 DEF Fits
  <1>3. Enters(s, {o}) /\ (Ended(s) => Ended(o)) /\ (s.state \in Stopping /\ s.forbid_restart => Ended(o))
    BY <1>1, <1>2 DEF Enters, Ended
  <1>4. QED
    BY <1>3 DEF o

LEMMA Notified ==
  ASSUME ConfOK, NEW s \in Going, NEW msg \in Message, ~ Faults => Fits(s), msg \in conf.messages
  PROVE  /\ Enters(s, do_notify_message(s, msg))
         /\ Ended(s) /\ undisturbed(conf) => \A o \in do_notify_message(s, msg) : Ended(o)
  <1>0. Enters(s, {s})
    BY StaysPut
  <1>1. CASE msg = "MAINPID"
    <2>1. CASE s.state \in {"Start", "StartPost", "Running"}
      <3>1. do_notify_message(s, msg) = {s} \cup adopt(s)
        BY <1>1, <2>1 DEF do_notify_message
      <3>2. ASSUME NEW o \in adopt(s)
            PROVE  Enters(s, {o})
        <4>1. o \in Going /\ Alike(s, o)
          BY Adopt
        <4>2. (~ Faults => Fits(o)) /\ (Calm(s) => Calm(o))
          BY <2>1, <4>1, SameCalm DEF Fits, Alike, Same, SameTimers
        <4>3. QED
          BY <4>1, <4>2 DEF Enters
      <3>3. ~ Ended(s)
        BY <2>1 DEF Ended, Stopping
      <3>4. QED
        BY <1>0, <3>1, <3>2, <3>3 DEF Enters
    <2>2. CASE s.state \notin {"Start", "StartPost", "Running"}
      <3>1. do_notify_message(s, msg) = {s}
        BY <1>1, <2>2 DEF do_notify_message
      <3>2. QED
        BY <1>0, <3>1
    <2>3. QED
      BY <2>1, <2>2
  <1>2. CASE msg = "READY"
    <2> DEFINE r == [s EXCEPT !.notify_state = "Ready"]
    <2>1. do_notify_message(s, msg) = IF conf.type = "notify" /\ s.state = "Start" THEN enter_start_post(r) ELSE {r}
      BY <1>2 DEF do_notify_message
    <2>2. r \in Going /\ Alike(s, r) /\ r.main = s.main
      BY WithNotify
    <2> HIDE DEF r
    <2>3. Enters(s, {r})
      BY <2>2, Stays
    <2>4. Enters(s, enter_start_post(r))
      BY <2>2, EnterStartPost, StopsFrom DEF Alike
    <2>5. Ended(s) => Ended(r) /\ s.state # "Start"
      BY <2>2 DEF Ended, Alike, Same, Stopping
    <2>6. QED
      BY <2>1, <2>3, <2>4, <2>5
  <1>3. CASE msg = "STOPPING"
    <2> DEFINE r == [s EXCEPT !.notify_state = "Stopping"]
    <2>1. do_notify_message(s, msg) = {IF s.state = "Running" THEN set_state(r, "StopSigterm") ELSE r}
      BY <1>3 DEF do_notify_message
    <2>2. r \in Going /\ Alike(s, r) /\ r.main = s.main
      BY WithNotify
    <2> HIDE DEF r
    <2>3. Enters(s, {r})
      BY <2>2, Stays
    <2>4. Enters(s, {set_state(r, "StopSigterm")})
      BY <2>2, EnterState, StopsFrom DEF Alike
    <2>5. Ended(s) => Ended(r) /\ s.state # "Running"
      BY <2>2 DEF Ended, Alike, Same, Stopping
    <2>6. QED
      BY <2>1, <2>3, <2>4, <2>5
  <1>4. CASE msg = "WATCHDOG=1"
    <2>1. do_notify_message(s, msg) = {restart_watchdog(s)}
      BY <1>4 DEF do_notify_message
    <2>2. QED
      BY <2>1, Rewatched
  <1>5. CASE msg = "WATCHDOG=trigger"
    <2>1. do_notify_message(s, msg) = enter_signal(s, "FailureWatchdog")
      BY <1>5 DEF do_notify_message
    <2>2. ~ undisturbed(conf)
      BY <1>5 DEF undisturbed
    <2>3. QED
      BY <2>1, <2>2, EnterSignal
  <1>6. CASE msg = "WATCHDOG_USEC=0"
    <2> DEFINE t == [s EXCEPT !.override = "off"]
    <2>1. do_notify_message(s, msg) = {restart_watchdog(t)}
      BY <1>6 DEF do_notify_message
    <2>2. /\ t \in Going /\ t.state = s.state /\ t.main = s.main /\ t.control = s.control
          /\ t.forbid_restart = s.forbid_restart /\ t.inotify = s.inotify /\ (Calm(s) => Calm(t))
      BY WithOverride
    <2> HIDE DEF t
    <2>3. QED
      BY <2>1, <2>2, Rewatched
  <1>7. CASE msg = "WATCHDOG_USEC=1"
    <2> DEFINE t == [s EXCEPT !.override = "on"]
    <2>0. ~ undisturbed(conf)
      BY <1>7 DEF undisturbed
    <2>1. do_notify_message(s, msg) = {restart_watchdog(t)}
      BY <1>7 DEF do_notify_message
    <2>2. /\ t \in Going /\ t.state = s.state /\ t.main = s.main /\ t.control = s.control
          /\ t.forbid_restart = s.forbid_restart /\ t.inotify = s.inotify /\ (Calm(s) => Calm(t))
      BY <2>0, WithOverride
    <2> HIDE DEF t
    <2>3. QED
      BY <2>1, <2>2, Rewatched
  <1>8. QED
    BY <1>1, <1>2, <1>3, <1>4, <1>5, <1>6, <1>7 DEF Message

-----------------------------------------------------------------------------
(* The handlers. *)

Halted == stopped /\ undisturbed(conf) => Ended(m)
SvcInv == STypeOK /\ Calm(m) /\ Halted /\ (~ Faults => Fits(m))

LEMMA MngGoing ==
  ASSUME STypeOK
  PROVE  m \in Going /\ ConfOK
  <1>1. <<>> \in Seq(SubState)
    OBVIOUS
  <1>2. QED
    BY <1>1 DEF STypeOK, Mng, Going, ConfOK

\* The end of a handler.
LEMMA Handled ==
  ASSUME SvcInv, NEW call, NEW err, NEW outcomes, NEW db_update \in BOOLEAN,
         Handler(call, err, outcomes, db_update), Enters(m, outcomes),
         stop_job' \in BOOLEAN, stopped' \in BOOLEAN,
         stopped' /\ undisturbed(conf) => \A o \in outcomes : Ended(o)
  PROVE  SvcInv'
  <1> DEFINE st(s) == IF db_update THEN s.control_command ELSE s.stored
  <1>1. PICK s \in outcomes : m' = [s EXCEPT !.path = <<>>, !.stored = st(s)]
    BY DEF Handler
  <1>2. conf' = conf
    BY DEF Handler
  <1>3. s \in Going /\ (~ Faults => Fits(s)) /\ Calm(s)
    BY DEF Enters, SvcInv
  <1>4. st(s) \in 0..2
    BY <1>3 DEF Going
  <1> HIDE DEF st
  <1>5. m' \in Mng
    BY <1>1, <1>3, <1>4 DEF Going, Mng
  <1>6. m'.state = s.state /\ m'.main = s.main /\ m'.control = s.control /\ m'.override = s.override
    BY <1>1, <1>3 DEF Going
  <1>7. m'.watchdog = s.watchdog /\ m'.inotify = s.inotify /\ m'.forbid_restart = s.forbid_restart
    BY <1>1, <1>3 DEF Going
  <1>8. STypeOK'
    BY <1>2, <1>5 DEF STypeOK, SvcInv
  <1>9. Calm(m)'
    BY <1>2, <1>3, <1>6, <1>7 DEF Calm
  <1>10. Halted'
    <2>1. Ended(s) => Ended(m)'
      BY <1>6, <1>7 DEF Ended
    <2>2. QED
      BY <1>2, <2>1 DEF Halted
  <1>11. ~ Faults => Fits(m)'
    BY <1>3, <1>6, <1>7 DEF Fits
  <1>12. QED
    BY <1>8, <1>9, <1>10, <1>11 DEF SvcInv

\* The usual start of a proof about a handler.
LEMMA AtStart ==
  ASSUME SvcInv
  PROVE  /\ m \in Going /\ ConfOK /\ (~ Faults => Fits(m)) /\ Calm(m)
         /\ stopped \in BOOLEAN /\ stop_job \in BOOLEAN
         /\ stopped /\ undisturbed(conf) => Ended(m)
  BY MngGoing DEF SvcInv, STypeOK, Halted

LEMMA StartCalled ==
  ASSUME SvcInv, StartCall
  PROVE  SvcInv'
  <1>0. /\ m \in Going /\ ConfOK /\ (~ Faults => Fits(m)) /\ Calm(m)
        /\ stopped \in BOOLEAN /\ stop_job \in BOOLEAN
        /\ stopped /\ undisturbed(conf) => Ended(m)
    BY AtStart
  <1>1. stop_job' = stop_job
    BY DEF StartCall
  <1>2. Enters(m, {m})
    BY <1>0, StaysPut
  <1>3. ASSUME NEW err, Handler("start", err, {m}, FALSE), UNCHANGED stopped
        PROVE  SvcInv'
    BY <1>0, <1>1, <1>2, <1>3, Handled
  <1>4. ASSUME Handler("start", "ECanceled", enter_dead(m, "FailureStartLimitHit", FALSE), FALSE), UNCHANGED stopped
        PROVE  SvcInv'
    <2>1. "FailureStartLimitHit" \in ServiceResult
      BY DEF ServiceResult
    <2>2. /\ Enters(m, enter_dead(m, "FailureStartLimitHit", FALSE))
          /\ \A o \in enter_dead(m, "FailureStartLimitHit", FALSE) : Ended(o)
      BY <1>0, <2>1, EnterDead
    <2>3. QED
      BY <1>0, <1>1, <1>4, <2>2, Handled
  <1>5. ASSUME Handler("start", "Ok", enter_condition([m EXCEPT !.result = "Success"]), TRUE), stopped' = FALSE
        PROVE  SvcInv'
    <2> DEFINE s == [m EXCEPT !.result = "Success"]
    <2>1. s \in Going /\ s.override = m.override
      BY <1>0, Succeeds DEF Going
    <2>2. s.watchdog = m.watchdog /\ s.inotify = m.inotify
      BY <1>0 DEF Going
    <2>3. Handler("start", "Ok", enter_condition(s), TRUE)
      BY <1>5
    <2> HIDE DEF s
    <2>4. Calm(m) => Calm(s)
      BY <2>1, <2>2 DEF Calm
    <2>5. Enters(m, enter_condition(s))
      BY <1>0, <2>1, <2>4, EnterCondition, EntersFrom
    <2>6. QED
      BY <1>0, <1>1, <1>5, <2>3, <2>5, Handled
  <1>6. QED
    BY <1>3, <1>4, <1>5 DEF StartCall

LEMMA StopCalled ==
  ASSUME SvcInv, StopCall
  PROVE  SvcInv'
  <1>0. m \in Going /\ ConfOK
    BY AtStart
  <1> DEFINE s == [m EXCEPT !.forbid_restart = TRUE]
             outcomes == IF m.state \in Starting \cup {"Reload"} THEN enter_signal(s, "Success")
                         ELSE enter_stop(s, "Success")
  <1>1. Handler("stop", "Ok", outcomes, TRUE) /\ stopped' = TRUE /\ stop_job' = FALSE
    BY DEF StopCall
  <1>2. s \in Going /\ s.override = m.override
    BY <1>0 DEF Going
  <1>3. s.watchdog = m.watchdog /\ s.inotify = m.inotify /\ s.forbid_restart
    BY <1>0 DEF Going
  <1> HIDE DEF s
  <1>4. Calm(m) => Calm(s)
    BY <1>2, <1>3 DEF Calm
  <1>5. Enters(s, outcomes) /\ Stops(s, outcomes)
    BY <1>0, <1>2, EnterSignal, EnterStop, Succeeds
  <1> HIDE DEF outcomes
  <1>6. Enters(m, outcomes) /\ \A o \in outcomes : Ended(o)
    BY <1>3, <1>4, <1>5, EntersFrom DEF Stops
  <1>7. QED
    BY <1>1, <1>6, Handled

LEMMA ReloadCalled ==
  ASSUME SvcInv, ReloadCall
  PROVE  SvcInv'
  <1>0. /\ m \in Going /\ ConfOK /\ stopped \in BOOLEAN /\ stop_job \in BOOLEAN
        /\ stopped /\ undisturbed(conf) => Ended(m)
    BY AtStart
  <1>1. Handler("reload", "Ok", enter_reload(m), TRUE) /\ UNCHANGED <<stop_job, stopped>> /\ sub_state(m) = "active"
    BY DEF ReloadCall
  <1>2. m.state \in {"Running", "Exited"}
    <2>1. m.state \in ServiceState
      BY <1>0 DEF Going
    <2>2. QED
      BY <1>1, <2>1 DEF sub_state, ServiceState
  <1>3. ~ Ended(m)
    BY <1>2 DEF Ended, Stopping
  <1>4. QED
    BY <1>0, <1>1, <1>3, EnterReload, Handled

LEMMA Exited ==
  ASSUME SvcInv, SigchldMain \/ SigchldControl
  PROVE  SvcInv'
  <1>0. /\ m \in Going /\ ConfOK /\ (~ Faults => Fits(m)) /\ stopped \in BOOLEAN /\ stop_job \in BOOLEAN
        /\ stopped /\ undisturbed(conf) => Ended(m)
    BY AtStart
  <1>1. "none" \notin ExitResult
    BY DEF ExitResult
  <1>2. UNCHANGED <<stop_job, stopped>>
    BY DEF SigchldMain, SigchldControl
  <1>3. CASE SigchldMain
    <2>1. m.main \in ExitResult /\ m.main # "none" /\ Handler("sigchld", "Ok", sigchld_main(m, m.main), TRUE)
      BY <1>1, <1>3 DEF SigchldMain
    <2>2. Ended(m) => m.state \in Stopping /\ m.forbid_restart
      BY <2>1 DEF Ended
    <2>3. undisturbed(conf) => ~ conf.pidfile
      BY DEF undisturbed
    <2>4. QED
      BY <1>0, <1>2, <2>1, <2>2, <2>3, SigchldOfMain, Handled
  <1>4. CASE SigchldControl
    <2>1. m.control \in ExitResult /\ m.control # "none" /\ Handler("sigchld", "Ok", sigchld_control(m, m.control), TRUE)
      BY <1>1, <1>4 DEF SigchldControl
    <2>2. Ended(m) => m.state \in Stopping /\ m.forbid_restart
      BY <2>1 DEF Ended
    <2>3. QED
      BY <1>0, <1>2, <2>1, <2>2, SigchldOfControl, Handled
  <1>5. QED
    BY <1>3, <1>4

LEMMA MessageCame ==
  ASSUME SvcInv, NEW msg \in Message, NotifyMessage(msg)
  PROVE  SvcInv'
  <1>0. /\ m \in Going /\ ConfOK /\ (~ Faults => Fits(m)) /\ stopped \in BOOLEAN /\ stop_job \in BOOLEAN
        /\ stopped /\ undisturbed(conf) => Ended(m)
    BY AtStart
  <1>1. /\ UNCHANGED <<stop_job, stopped>> /\ msg \in conf.messages
        /\ Handler("notify", "Ok", do_notify_message(m, msg), TRUE)
    BY DEF NotifyMessage
  <1>2. QED
    BY <1>0, <1>1, Notified, Handled

LEMMA TimersFired ==
  ASSUME SvcInv, WatchdogFires \/ TimerFires
  PROVE  SvcInv'
  <1>0. /\ m \in Going /\ ConfOK /\ (~ Faults => Fits(m)) /\ Calm(m) /\ stopped \in BOOLEAN /\ stop_job \in BOOLEAN
        /\ stopped /\ undisturbed(conf) => Ended(m)
    BY AtStart
  <1>1. UNCHANGED <<stop_job, stopped>>
    BY DEF WatchdogFires, TimerFires
  <1>2. CASE WatchdogFires
    <2> DEFINE s == [m EXCEPT !.watchdog = FALSE]
    <2>1. m.watchdog /\ Handler("watchdog", "Ok", enter_signal(s, "FailureWatchdog"), FALSE)
      BY <1>2 DEF WatchdogFires
    <2>2. ~ undisturbed(conf)
      BY <1>0, <2>1 DEF Calm
    <2>3. s \in Going
      BY <1>0 DEF Going
    <2> HIDE DEF s
    <2>4. Enters(m, enter_signal(s, "FailureWatchdog"))
      BY <1>0, <2>2, <2>3, EnterSignal, EntersFrom DEF Calm
    <2>5. QED
      BY <1>0, <1>1, <2>1, <2>2, <2>4, Handled
  <1>3. CASE TimerFires
    <2> DEFINE s == [m EXCEPT !.timer = FALSE]
               outcomes == CASE m.state = "AutoRestart" -> enter_restart(s)
                             [] m.state = "Running"     -> enter_stop(s, "FailureTimeout")
                             [] OTHER                   -> todo(s)
    <2>1. Handler("timer", "Ok", outcomes, FALSE)
      BY <1>3 DEF TimerFires
    <2>2. s \in Going /\ s.state = m.state /\ s.main = m.main /\ s.control = m.control /\ s.override = m.override
      BY <1>0 DEF Going
    <2>3. s.watchdog = m.watchdog /\ s.inotify = m.inotify /\ s.forbid_restart = m.forbid_restart
      BY <1>0 DEF Going
    <2> HIDE DEF s
    <2>4. Alike(m, s)
      BY <2>2, <2>3 DEF Alike, Same, SameTimers
    <2>5. ~ Faults => Fits(s)
      BY <1>0, <2>2, <2>4, Stays
    <2>6. Enters(s, {s}) /\ Enters(s, todo(s)) /\ Enters(s, enter_stop(s, "FailureTimeout"))
          /\ Enters(s, enter_dead(s, "FailureResources", FALSE))
      BY <1>0, <2>2, <2>5, StaysPut, EnterStop, EnterDead, Succeeds
    <2>7. Enters(s, enter_restart(s))
      BY <2>6 DEF enter_restart, Enters
    <2>8. Enters(s, outcomes)
      <3>1. CASE m.state = "AutoRestart"
        BY <2>7, <3>1
      <3>2. CASE m.state = "Running"
        BY <2>6, <3>2
      <3>3. CASE m.state \notin {"AutoRestart", "Running"}
        BY <2>6, <3>3
      <3>4. QED
        BY <3>1, <3>2, <3>3
    <2>9. ASSUME Ended(m)
          PROVE  \A o \in outcomes : Ended(o)
      <3> DEFINE o == [s EXCEPT !.panic = TRUE]
      <3>1. Alike(s, o) /\ o.main = s.main /\ todo(s) = {o}
        BY <2>2, Todo
      <3>2. outcomes = todo(s)
        BY <2>9 DEF Ended, Stopping
      <3> HIDE DEF o, outcomes
      <3>3. Ended(o)
        BY <2>2, <2>4, <2>9, <3>1 DEF Ended, Alike, Same
      <3>4. QED
        BY <3>1, <3>2, <3>3
    <2> HIDE DEF outcomes
    <2>10. QED
      BY <1>0, <1>1, <2>1, <2>4, <2>8, <2>9, StopsFrom, Handled DEF Alike
  <1>4. QED
    BY <1>2, <1>3

LEMMA PidFileSeen ==
  ASSUME SvcInv, PidFileChanged
  PROVE  SvcInv'
  <1>0. /\ m \in Going /\ ConfOK /\ (~ Faults => Fits(m)) /\ Calm(m) /\ stopped \in BOOLEAN /\ stop_job \in BOOLEAN
    BY AtStart
  <1> DEFINE failed == Then(watch_fails(m), LAMBDA x : enter_signal(x, "FailureResources"))
             outcomes == retry_pid_file(m) \cup watch_pid_file(m) \cup failed
  <1>1. UNCHANGED <<stop_job, stopped>> /\ m.inotify /\ Handler("pidfile", "Ok", outcomes, TRUE)
    BY DEF PidFileChanged
  <1>2. ~ undisturbed(conf)
    BY <1>0, <1>1 DEF Calm
  <1>3. Enters(m, failed)
    <2>1. \A o \in failed : \E x \in watch_fails(m) : o \in enter_signal(x, "FailureResources")
      BY DEF Then
    <2> HIDE DEF failed
    <2>2. Reaches(m, watch_fails(m))
      BY <1>0, WatchFails
    <2>3. \A x \in watch_fails(m) : Enters(x, enter_signal(x, "FailureResources"))
      BY <1>0, <2>2, EnterSignal DEF Reaches
    <2>4. QED
      BY <2>1, <2>2, <2>3, ThenEnters
  <1>4. Enters(m, retry_pid_file(m)) /\ Enters(m, watch_pid_file(m))
    BY <1>0, <1>2, RetryPidFile, WatchPidFile DEF Fits
  <1> HIDE DEF failed
  <1>5. Enters(m, outcomes)
    BY <1>3, <1>4 DEF Enters
  <1> HIDE DEF outcomes
  <1>6. QED
    BY <1>0, <1>1, <1>2, <1>5, Handled

-----------------------------------------------------------------------------
(* What happens around the service. *)

\* Only the processes change, and none of them appears.
LEMMA Passed ==
  ASSUME SvcInv, NEW s \in Mng, Around(s), Alike(m, s), s.main = m.main \/ m.main = "alive", stop_job' \in BOOLEAN
  PROVE  SvcInv'
  <1>1. m' = s /\ conf' = conf /\ stopped' = stopped
    BY DEF Around
  <1>2. STypeOK'
    BY <1>1 DEF STypeOK, SvcInv
  <1>3. Calm(m)'
    BY <1>1 DEF SvcInv, Calm, Alike, Same, SameTimers
  <1>4. Halted'
    BY <1>1 DEF SvcInv, Halted, Ended, Alike, Same
  <1>5. ~ Faults => Fits(m)'
    BY <1>1 DEF SvcInv, Fits, Alike, Same, SameTimers
  <1>6. QED
    BY <1>2, <1>3, <1>4, <1>5 DEF SvcInv

LEMMA WithOther ==
  ASSUME m \in Mng, NEW b \in BOOLEAN
  PROVE  LET o == [m EXCEPT !.other = b] IN o \in Mng /\ Alike(m, o) /\ o.main = m.main
  <1> DEFINE o == [m EXCEPT !.other = b]
  <1>1. o \in Mng
    BY DEF Mng
  <1>2. o.state = m.state /\ o.main = m.main /\ o.control = m.control /\ o.override = m.override
    BY DEF Mng
  <1>3. o.watchdog = m.watchdog /\ o.inotify = m.inotify /\ o.forbid_restart = m.forbid_restart
    BY DEF Mng
  <1>4. QED
    BY <1>1, <1>2, <1>3 DEF Alike, Same, SameTimers

LEMMA AroundStep ==
  ASSUME SvcInv, StopJob \/ Fork \/ OtherExits \/ MainExits
  PROVE  SvcInv'
  <1>0. m \in Mng /\ stop_job \in BOOLEAN
    BY DEF SvcInv, STypeOK
  <1>1. CASE StopJob
    <2>1. Alike(m, m)
      BY DEF Alike, Same, SameTimers
    <2>2. QED
      BY <1>0, <1>1, <2>1, Passed DEF StopJob
  <1>2. CASE Fork \/ OtherExits
    BY <1>0, <1>2, WithOther, Passed DEF Fork, OtherExits
  <1>3. CASE MainExits
    <2>1. PICK res \in ExitResult : Around([m EXCEPT !.main = res])
      BY <1>3 DEF MainExits
    <2> DEFINE o == [m EXCEPT !.main = res]
    <2>2. o \in Mng
      BY <1>0 DEF Mng, Process
    <2>3. o.state = m.state /\ o.control = m.control /\ o.override = m.override
      BY <1>0 DEF Mng
    <2>4. o.watchdog = m.watchdog /\ o.inotify = m.inotify /\ o.forbid_restart = m.forbid_restart
      BY <1>0 DEF Mng
    <2>5. Around(o) /\ m.main = "alive" /\ stop_job' = stop_job
      BY <1>3, <2>1 DEF MainExits
    <2> HIDE DEF o
    <2>6. Alike(m, o)
      BY <2>3, <2>4 DEF Alike, Same, SameTimers
    <2>7. QED
      BY <1>0, <2>2, <2>5, <2>6, Passed
  <1>4. QED
    BY <1>1, <1>2, <1>3

LEMMA ControlExited ==
  ASSUME SvcInv, ControlExits
  PROVE  SvcInv'
  <1>0. m \in Mng /\ stop_job \in BOOLEAN /\ m.control = "alive"
    BY DEF SvcInv, STypeOK, ControlExits
  <1>1. PICK res \in ExitResult : Around([m EXCEPT !.control = res])
    BY DEF ControlExits
  <1> DEFINE o == [m EXCEPT !.control = res]
  <1>2. o \in Mng
    BY <1>0 DEF Mng, Process
  <1>3. o.state = m.state /\ o.main = m.main /\ o.control # "none" /\ o.override = m.override
    BY <1>0 DEF Mng, ExitResult
  <1>4. o.watchdog = m.watchdog /\ o.inotify = m.inotify /\ o.forbid_restart = m.forbid_restart
    BY <1>0 DEF Mng
  <1>5. m' = o /\ conf' = conf /\ stopped' = stopped /\ stop_job' = stop_job
    BY <1>1 DEF ControlExits, Around
  <1> HIDE DEF o
  <1>6. STypeOK'
    BY <1>2, <1>5 DEF STypeOK, SvcInv
  <1>7. Calm(m)'
    BY <1>3, <1>4, <1>5 DEF SvcInv, Calm
  <1>8. Halted'
    BY <1>0, <1>3, <1>4, <1>5 DEF SvcInv, Halted, Ended
  <1>9. ~ Faults => Fits(m)'
    BY <1>0, <1>3, <1>4, <1>5 DEF SvcInv, Fits
  <1>10. QED
    BY <1>6, <1>7, <1>8, <1>9 DEF SvcInv

LEMMA ServiceInit ==
  ASSUME SInit
  PROVE  SvcInv
  <1>1. m \in Mng
    BY DEF SInit, NewMng, Mng, ServiceState, ServiceResult, ExitResult, Process
  <1>2. m.state = "Dead" /\ m.main = "none" /\ m.control = "none" /\ m.override = "none"
    BY DEF SInit, NewMng
  <1>3. ~ m.watchdog /\ ~ m.inotify
    BY DEF SInit, NewMng
  <1>4. STypeOK
    BY <1>1 DEF SInit, STypeOK
  <1>5. Calm(m) /\ Halted /\ Fits(m)
    BY <1>2, <1>3 DEF SInit, Calm, Halted, Fits
  <1>6. QED
    BY <1>4, <1>5 DEF SvcInv

LEMMA ServiceNext ==
  ASSUME SvcInv, [SNext]_svars
  PROVE  SvcInv'
  <1>1. CASE UNCHANGED svars
    BY <1>1 DEF svars, SvcInv, STypeOK, Calm, Halted, Ended, Fits
  <1>2. QED
    BY <1>1, StartCalled, StopCalled, ReloadCalled, Exited, MessageCame, TimersFired, PidFileSeen,
       AroundStep, ControlExited
    DEF SNext

LEMMA ServiceAlways == SInit /\ [][SNext]_svars => []SvcInv
  <1>1. SInit => SvcInv
    BY ServiceInit
  <1>2. SvcInv /\ [SNext]_svars => SvcInv'
    BY ServiceNext
  <1>3. QED
    BY <1>1, <1>2, PTL

\* The fields of ServiceMng keep their types, whatever comes: the queues of commands are
\* never popped when empty.
THEOREM ServiceTyped == SSpec => []STypeOK
  <1>1. SvcInv => STypeOK
    BY DEF SvcInv
  <1>2. QED
    BY <1>1, ServiceAlways, PTL DEF SSpec

\* When commands can be spawned, set_state and the enter_* functions leave no service
\* waiting for a command that does not run, and do_sigchld_event never meets the states
\* it has only a todo!() for.
THEOREM ProcessesFit ==
  ASSUME ~ Faults
  PROVE  SSpec => []ProcessesFollowState
  <1>1. SvcInv => ProcessesFollowState
    BY DEF SvcInv, Fits, ProcessesFollowState, SigchldSafe, CommandRunning
  <1>2. QED
    BY <1>1, ServiceAlways, PTL DEF SSpec

\* A service that was stopped by stop_action does not come to AutoRestart by itself,
\* whatever exits, messages and timers are delivered in between, and whether its commands
\* can be spawned or not.
THEOREM StopsAreHonoured == SSpec => []StopHonoured
  <1>1. SvcInv => StopHonoured
    BY DEF SvcInv, Halted, Ended, Stopping, StopHonoured
  <1>2. QED
    BY <1>1, ServiceAlways, PTL DEF SSpec

-----------------------------------------------------------------------------
(* What a handler reports. *)

\* What the enter_* functions report: an end, with a restart unless it is forbidden; a
\* stop or an end; a running service or that; the start of StartPost or that.
EndsOf(s) == IF s.forbid_restart THEN {<<"dead">>, <<"failed">>} ELSE Ends
HaltOf(s) == {<<"stopping">>} \cup EndsOf(s)
Halts == {<<"stopping">>} \cup Ends
Runs == {<<"active">>} \cup Halts
Posts == {<<"starting">>} \cup Runs

\* Control commands are left only in a state that runs them, in Start only if they are
\* those of a forking service; and StartPost is entered with commands of its own, or by
\* the handler that enters it twice.
Tidy(o) ==
  /\ sub_state(o) \in {"starting", "reloading", "stopping"} \/ o.control_command = 0
  /\ o.state = "Start" /\ conf.type # "forking" => o.control_command = 0
  /\ o.state = "StartPost" => conf.cmds.StartPost # 0 \/ conf.pidfile

\* The outcomes of a function called with s have reported a word of P, which ends in
\* their state; no process is lost.
Ran(s, o, P) == \E p \in P : o.path = s.path \o p /\ sub_state(o) = p[Len(p)]
Kept(s, o) == cgroup_good(s) => cgroup_good(o)
Adds(s, S, P) == \A o \in S : o \in Going /\ Ran(s, o, P) /\ Tidy(o) /\ Kept(s, o)

\* Nothing was reported.
Hushed(s, o) == o.path = s.path /\ o.forbid_restart = s.forbid_restart /\ Kept(s, o)

LEMMA AddsFrom ==
  ASSUME NEW s, NEW t, Hushed(s, t), NEW S, NEW P, Adds(t, S, P)
  PROVE  Adds(s, S, P)
  BY DEF Adds, Ran, Hushed, Kept

LEMMA KeptSame ==
  ASSUME NEW s, NEW o, o.main = s.main, o.control = s.control, o.other = s.other
  PROVE  Kept(s, o)
  BY DEF Kept, cgroup_good

LEMMA AddsMore ==
  ASSUME NEW s, NEW S, NEW P, NEW Q, P \subseteq Q, Adds(s, S, P)
  PROVE  Adds(s, S, Q)
  BY DEF Adds, Ran

LEMMA HushedHalt ==
  ASSUME NEW s, NEW t, Hushed(s, t)
  PROVE  HaltOf(t) = HaltOf(s) /\ EndsOf(t) = EndsOf(s)
  BY DEF Hushed, HaltOf, EndsOf

LEMMA HaltWords ==
  ASSUME NEW s
  PROVE  EndsOf(s) \subseteq HaltOf(s) /\ HaltOf(s) \subseteq Halts /\ Halts \subseteq Runs /\ Runs \subseteq Posts
  BY DEF EndsOf, HaltOf, Halts, Runs, Posts, Ends

LEMMA HushUnwatch ==
  ASSUME NEW s \in Going
  PROVE  /\ Hushed(s, unwatch_main(s)) /\ Hushed(s, unwatch_control(s))
         /\ unwatch_main(s).control_command = s.control_command /\ unwatch_main(s).result = s.result
         /\ unwatch_control(s).control_command = s.control_command /\ unwatch_control(s).result = s.result
         /\ unwatch_control(s).known = s.known
  <1>1. unwatch_main(s).path = s.path /\ unwatch_main(s).forbid_restart = s.forbid_restart
        /\ unwatch_main(s).control_command = s.control_command /\ unwatch_main(s).result = s.result
    BY DEF Going, unwatch_main
  <1>2. unwatch_control(s).path = s.path /\ unwatch_control(s).forbid_restart = s.forbid_restart
        /\ unwatch_control(s).control_command = s.control_command /\ unwatch_control(s).result = s.result
    BY DEF Going, unwatch_control
  <1>3. unwatch_control(s).known = s.known
    BY DEF Going, unwatch_control
  <1>4. Kept(s, unwatch_main(s))
    <2>1. unwatch_main(s).other = (s.other \/ alive(s.main)) /\ unwatch_main(s).control = s.control
      BY DEF Going, unwatch_main
    <2>2. QED
      BY <2>1 DEF Kept, cgroup_good
  <1>5. Kept(s, unwatch_control(s))
    <2>1. unwatch_control(s).other = (s.other \/ s.control = "alive") /\ unwatch_control(s).main = s.main
      BY DEF Going, unwatch_control
    <2>2. QED
      BY <2>1 DEF Kept, cgroup_good, alive
  <1>6. QED
    BY <1>1, <1>2, <1>3, <1>4, <1>5 DEF Hushed

LEMMA HushSet ==
  ASSUME NEW s \in Going
  PROVE  /\ Hushed(s, set_main(s)) /\ Hushed(s, set_control(s))
         /\ set_main(s).control_command = s.control_command /\ set_main(s).result = s.result
         /\ set_main(s).known
         /\ set_control(s).control_command = s.control_command
  <1> DEFINE t == unwatch_main(s)
             c == unwatch_control(s)
  <1>1. t \in Going /\ c \in Going /\ Hushed(s, t) /\ Hushed(s, c)
        /\ t.control_command = s.control_command /\ t.result = s.result /\ c.control_command = s.control_command
    BY UnwatchMain, UnwatchControl, HushUnwatch
  <1>2. set_main(s) = [t EXCEPT !.main = "alive", !.known = TRUE] /\ set_control(s) = [c EXCEPT !.control = "alive"]
    BY DEF set_main, set_control
  <1> HIDE DEF t, c
  <1>3. set_main(s).path = t.path /\ set_main(s).forbid_restart = t.forbid_restart
        /\ set_main(s).control_command = t.control_command /\ set_main(s).result = t.result
    BY <1>1, <1>2 DEF Going
  <1>4. set_main(s).known
    BY <1>1, <1>2 DEF Going
  <1>5. set_control(s).path = c.path /\ set_control(s).forbid_restart = c.forbid_restart
        /\ set_control(s).control_command = c.control_command
    BY <1>1, <1>2 DEF Going
  <1>6. Kept(s, set_main(s)) /\ Kept(s, set_control(s))
    BY SetMain, SetControl DEF Kept, cgroup_good, alive
  <1>7. QED
    BY <1>1, <1>3, <1>4, <1>5, <1>6 DEF Hushed, Kept

LEMMA HushCommands ==
  ASSUME NEW s \in Going, NEW n \in 0..2
  PROVE  /\ Hushed(s, [s EXCEPT !.control_command = n]) /\ Hushed(s, [s EXCEPT !.main_command = n])
         /\ [s EXCEPT !.control_command = n].control_command = n
         /\ [s EXCEPT !.main_command = n].control_command = s.control_command
         /\ [s EXCEPT !.control_command = n].result = s.result
         /\ [s EXCEPT !.main_command = n].result = s.result
  <1>1. /\ [s EXCEPT !.control_command = n].control_command = n
        /\ [s EXCEPT !.main_command = n].control_command = s.control_command
    BY DEF Going
  <1>2. /\ [s EXCEPT !.control_command = n].path = s.path /\ [s EXCEPT !.main_command = n].path = s.path
        /\ [s EXCEPT !.control_command = n].result = s.result /\ [s EXCEPT !.main_command = n].result = s.result
    BY DEF Going
  <1>3. /\ [s EXCEPT !.control_command = n].forbid_restart = s.forbid_restart
        /\ [s EXCEPT !.main_command = n].forbid_restart = s.forbid_restart
    BY DEF Going
  <1> DEFINE c == [s EXCEPT !.control_command = n]
             d == [s EXCEPT !.main_command = n]
  <1>4. c.main = s.main /\ c.control = s.control /\ c.other = s.other
    BY DEF Going
  <1>5. d.main = s.main /\ d.control = s.control /\ d.other = s.other
    BY DEF Going
  <1> HIDE DEF c, d
  <1>6. Kept(s, c) /\ Kept(s, d)
    BY <1>4, <1>5, KeptSame
  <1>7. QED
    BY <1>1, <1>2, <1>3, <1>6 DEF Hushed, c, d

LEMMA HushClear ==
  ASSUME NEW s \in Going
  PROVE  /\ Hushed(s, clear_control(s)) /\ clear_control(s).control_command = 0
         /\ clear_control(s).result = s.result
  <1>1. 0 \in 0..2
    OBVIOUS
  <1>2. QED
    BY <1>1, HushCommands DEF clear_control

LEMMA HushPopped ==
  ASSUME ConfOK, NEW s \in Going, NEW k \in ServiceCommand, control_command_fill(s, k).control_command # 0
  PROVE  Hushed(s, popped(s, k))
  <1>1. conf.cmds[k] \in 0..2
    BY ConfTyped
  <1> DEFINE t == control_command_fill(s, k)
  <1>2. t \in Going /\ Hushed(s, t)
    <2>1. CASE conf.cmds[k] = 0
      BY <2>1 DEF control_command_fill, Hushed, Kept
    <2>2. CASE conf.cmds[k] # 0
      BY <1>1, <2>2, WithCommands, HushCommands DEF control_command_fill
    <2>3. QED
      BY <2>1, <2>2
  <1>3. t.control_command # 0
    OBVIOUS
  <1> HIDE DEF t
  <1>4. t.control_command - 1 \in 0..2
    <2>1. t.control_command \in 0..2
      BY <1>2 DEF Going
    <2>2. QED
      BY <1>3, <2>1
  <1>5. popped(s, k) = [t EXCEPT !.control_command = t.control_command - 1]
    BY DEF popped, pop_control, t
  <1>6. Hushed(t, popped(s, k))
    BY <1>2, <1>4, <1>5, HushCommands
  <1>7. QED
    BY <1>2, <1>6 DEF Hushed, Kept

LEMMA HushResult ==
  ASSUME NEW s \in Going, NEW res \in ServiceResult
  PROVE  /\ Hushed(s, set_result(s, res))
         /\ set_result(s, res).control_command = s.control_command
         /\ set_result(s, res).known = s.known
         /\ set_result(s, res).result = (IF s.result = "Success" THEN res ELSE s.result)
  <1> DEFINE o == [s EXCEPT !.result = res]
  <1>1. o.path = s.path /\ o.forbid_restart = s.forbid_restart /\ o.control_command = s.control_command
    BY DEF Going
  <1>2. o.result = res /\ o.known = s.known
    BY DEF Going
  <1>3. set_result(s, res) = IF s.result = "Success" THEN o ELSE s
    BY DEF set_result
  <1>4. o.main = s.main /\ o.control = s.control /\ o.other = s.other
    BY DEF Going
  <1> HIDE DEF o
  <1>5. Kept(s, o) /\ Kept(s, s)
    BY <1>4, KeptSame
  <1>6. QED
    BY <1>1, <1>2, <1>3, <1>5 DEF Hushed, Kept

\* set_state reports the new state, and nothing else.
LEMMA StateSays ==
  ASSUME NEW s \in Going, NEW st \in ServiceState
  PROVE  /\ set_state(s, st).path = s.path \o <<sub_state(set_state(s, st))>>
         /\ set_state(s, st).timer = s.timer /\ set_state(s, st).result = s.result
         /\ set_state(s, st).control_command = (IF st \in KeepControl THEN s.control_command ELSE 0)
         /\ set_state(s, st).forbid_restart = s.forbid_restart
         /\ Kept(s, set_state(s, st))
  <1> DEFINE s1 == IF st \in KeepMain THEN s ELSE [unwatch_main(s) EXCEPT !.main_command = 0]
             s2 == IF st \in KeepControl THEN s1 ELSE clear_control(unwatch_control(s1))
             s3 == [s2 EXCEPT !.state = st]
             w == sub_state(s3)
             o == [s3 EXCEPT !.path = Append(s3.path, w)]
  <1>1. /\ s1 \in Going /\ s1.path = s.path /\ s1.timer = s.timer /\ s1.result = s.result
        /\ s1.control_command = s.control_command /\ Kept(s, s1)
    <2> DEFINE t == unwatch_main(s)
               u == [t EXCEPT !.main_command = 0]
    <2>1. t \in Going /\ t.path = s.path /\ t.result = s.result /\ t.control_command = s.control_command /\ Kept(s, t)
      BY UnwatchMain, HushUnwatch DEF Hushed, Kept
    <2>2. t.timer = s.timer
      BY DEF Going, unwatch_main
    <2> HIDE DEF t
    <2>a. u \in Going
      BY <2>1, WithCommands
    <2>b. Hushed(t, u) /\ u.result = t.result /\ u.control_command = t.control_command
      <3>1. 0 \in 0..2
        OBVIOUS
      <3>2. QED
        BY <2>1, <3>1, HushCommands, Zenon
    <2>3. u \in Going /\ u.path = t.path /\ u.result = t.result /\ u.control_command = t.control_command /\ Kept(t, u)
      BY <2>a, <2>b DEF Hushed
    <2>4. u.timer = t.timer
      BY <2>1 DEF Going
    <2>5. s1 = s \/ s1 = u
      BY DEF t
    <2> HIDE DEF u, s1
    <2>6. QED
      BY <2>1, <2>2, <2>3, <2>4, <2>5 DEF Kept
  <1> HIDE DEF s1
  <1>2. /\ s2 \in Going /\ s2.path = s1.path /\ s2.timer = s1.timer /\ s2.result = s1.result
        /\ s2.control_command = (IF st \in KeepControl THEN s1.control_command ELSE 0) /\ Kept(s1, s2)
    <2> DEFINE t == unwatch_control(s1)
               u == clear_control(t)
    <2>1. t \in Going /\ t.path = s1.path /\ t.result = s1.result /\ Kept(s1, t)
      BY <1>1, UnwatchControl, HushUnwatch DEF Hushed, Kept
    <2>2. t.timer = s1.timer
      BY <1>1 DEF Going, unwatch_control
    <2> HIDE DEF t
    <2>3. u \in Going /\ u.path = t.path /\ u.result = t.result /\ u.control_command = 0 /\ Kept(t, u)
      BY <2>1, ClearControl, HushClear DEF Hushed, Kept
    <2>4. u.timer = t.timer
      BY <2>1 DEF Going, clear_control
    <2>5. IF st \in KeepControl THEN s2 = s1 ELSE s2 = u
      BY DEF t
    <2> HIDE DEF u, s2
    <2>6. QED
      BY <1>1, <2>1, <2>2, <2>3, <2>4, <2>5 DEF Kept
  <1> HIDE DEF s2
  <1>3. s3 \in Going /\ s3.path = s2.path /\ s3.timer = s2.timer /\ s3.state = st
    BY <1>2 DEF Going
  <1>4. s3.result = s2.result /\ s3.control_command = s2.control_command
    BY <1>2 DEF Going
  <1>a. s3.main = s2.main /\ s3.control = s2.control /\ s3.other = s2.other
    BY <1>2 DEF Going
  <1> HIDE DEF s3
  <1>5. w \in SubState /\ Append(s3.path, w) \in Seq(SubState)
    BY <1>3, SubStateOK DEF Going
  <1> DEFINE p == Append(s3.path, w)
  <1>6. o = [s3 EXCEPT !.path = p] /\ p \in Seq(SubState)
    BY <1>5
  <1> HIDE DEF p, o
  <1>7. o.path = p /\ o.timer = s3.timer /\ o.state = s3.state
    BY <1>3, <1>6 DEF Going
  <1>8. o.result = s3.result /\ o.control_command = s3.control_command
    BY <1>3, <1>6 DEF Going
  <1>b. o.main = s3.main /\ o.control = s3.control /\ o.other = s3.other
    BY <1>3, <1>6 DEF Going
  <1>c. Kept(s, o)
    BY <1>1, <1>2, <1>a, <1>b, KeptSame DEF Kept
  <1>9. sub_state(o) = w
    BY <1>7 DEF sub_state, w
  <1>10. p = s3.path \o <<w>>
    <2>1. s3.path \in Seq(SubState)
      BY <1>3 DEF Going
    <2> HIDE DEF w
    <2>2. QED
      BY <1>5, <2>1 DEF p
  <1>11. set_state(s, st) = o
    BY <1>6 DEF set_state, o, p, w, s3, s2, s1, KeepMain, KeepControl
  <1>12. set_state(s, st).forbid_restart = s.forbid_restart
    BY SetState DEF Same
  <1> HIDE DEF w
  <1>13. QED
    BY <1>1, <1>2, <1>3, <1>4, <1>7, <1>8, <1>9, <1>10, <1>11, <1>12, <1>c

\* A new state is a word of its own.
LEMMA StateAdds ==
  ASSUME NEW s \in Going, NEW st \in ServiceState, NEW P,
         <<sub_state(set_state(s, st))>> \in P,
         st = "Start" /\ conf.type # "forking" => s.control_command = 0,
         st = "StartPost" => conf.cmds.StartPost # 0 \/ conf.pidfile
  PROVE  Adds(s, {set_state(s, st)}, P)
  <1> DEFINE o == set_state(s, st)
             w == sub_state(o)
  <1>1. o \in Going /\ o.path = s.path \o <<w>> /\ o.state = st
        /\ o.control_command = (IF st \in KeepControl THEN s.control_command ELSE 0) /\ Kept(s, o)
    BY SetState, StateSays
  <1> HIDE DEF o
  <1>2. Tidy(o)
    BY <1>1 DEF Tidy, sub_state, KeepControl, Starting, Stopping
  <1>3. Ran(s, o, P)
    <2> HIDE DEF w
    <2>1. <<w>> \in P
      BY DEF w, o
    <2>2. <<w>>[Len(<<w>>)] = w
      OBVIOUS
    <2>3. QED
      BY <1>1, <2>1, <2>2 DEF Ran, w
  <1>4. QED
    BY <1>1, <1>2, <1>3 DEF Adds, o

\* How the states that run commands are reported.
Word(st) == IF st \in Stopping THEN "stopping" ELSE IF st = "Reload" THEN "reloading" ELSE "starting"

LEMMA KeptWord ==
  ASSUME NEW o, o.state \in KeepControl
  PROVE  sub_state(o) = Word(o.state)
  BY DEF KeepControl, sub_state, Word, Starting, Stopping

LEMMA RunAdds ==
  ASSUME ConfOK, ~ Faults, NEW s \in Going, NEW k \in ServiceCommand, NEW st \in KeepControl \ {"Start"},
         NEW none, NEW fail, NEW P, <<Word(st)>> \in P,
         control_command_fill(s, k).control_command # 0 /\ st = "StartPost" => conf.cmds.StartPost # 0 \/ conf.pidfile,
         control_command_fill(s, k).control_command = 0 => Adds(s, none, P)
  PROVE  Adds(s, run_control(s, k, st, none, fail), P)
  <1>1. CASE control_command_fill(s, k).control_command = 0
    BY <1>1 DEF run_control
  <1>2. CASE control_command_fill(s, k).control_command # 0
    <2> DEFINE t == popped(s, k)
               c == set_control(t)
               o == set_state(c, st)
    <2>1. t \in Going /\ Hushed(s, t)
      BY <1>2, Popped, HushPopped
    <2> HIDE DEF t
    <2>2. c \in Going /\ Hushed(t, c)
      BY <2>1, SetControl, HushSet
    <2> HIDE DEF c
    <2>3. st \in ServiceState
      BY DEF KeepControl, Starting, Stopping, ServiceState
    <2>4. sub_state(o) = Word(st)
      <3>1. o.state = st
        BY <2>2, <2>3, SetState
      <3>2. QED
        BY <3>1, KeptWord
    <2>5. Adds(c, {o}, P)
      BY <1>2, <2>2, <2>3, <2>4, StateAdds
    <2>6. run_control(s, k, st, none, fail) = {o}
      BY <1>2 DEF run_control, spawned, o, c, t
    <2> HIDE DEF o
    <2>7. Hushed(s, c)
      BY <2>1, <2>2 DEF Hushed, Kept
    <2>8. QED
      BY <2>5, <2>6, <2>7, AddsFrom
  <1>3. QED
    BY <1>1, <1>2

LEMMA TwoWords ==
  ASSUME NEW p \in Seq(SubState), NEW a \in SubState, NEW b \in SubState
  PROVE  <<a>> \o <<b>> = <<a, b>> /\ (p \o <<a>>) \o <<b>> = p \o <<a, b>>
  <1> DEFINE x == <<a>>
             y == <<b>>
             z == <<a, b>>
  <1>1. x \in Seq(SubState) /\ y \in Seq(SubState) /\ z \in Seq(SubState)
    OBVIOUS
  <1>2. Len(x) = 1 /\ x[1] = a /\ Len(y) = 1 /\ y[1] = b /\ Len(z) = 2 /\ z[1] = a /\ z[2] = b
    OBVIOUS
  <1> HIDE DEF x, y, z
  <1>3. x \o y \in Seq(SubState) /\ Len(x \o y) = 2 /\ (x \o y)[1] = a /\ (x \o y)[2] = b
    <2>1. /\ x \o y \in Seq(SubState) /\ Len(x \o y) = Len(x) + Len(y)
          /\ \A i \in 1 .. Len(x) + Len(y) : (x \o y)[i] = IF i <= Len(x) THEN x[i] ELSE y[i - Len(x)]
      BY <1>1, ConcatProperties
    <2>2. QED
      BY <1>2, <2>1
  <1>4. \A i \in 1 .. Len(x \o y) : (x \o y)[i] = z[i]
    <2>1. \A i \in 1 .. 2 : i = 1 \/ i = 2
      OBVIOUS
    <2>2. QED
      BY <1>2, <1>3, <2>1
  <1>5. x \o y = z
    BY <1>1, <1>2, <1>3, <1>4, SeqEqual
  <1>6. (p \o x) \o y = p \o (x \o y)
    BY <1>1, ConcatAssociative
  <1>7. QED
    BY <1>5, <1>6 DEF x, y, z

LEMMA DeadAdds ==
  ASSUME NEW s \in Going, NEW res \in ServiceResult, NEW force_restart \in BOOLEAN
  PROVE  /\ Adds(s, enter_dead(s, res, force_restart), EndsOf(s))
         /\ ~ force_restart /\ res # "Success" => Adds(s, enter_dead(s, res, force_restart), {<<"failed">>})
         /\ \A o \in enter_dead(s, res, force_restart) : o.main = "none"
  <1> DEFINE s1 == set_result(s, res)
             again == force_restart /\ ~ stop_job /\ shall_restart(s1)
             end == IF s1.result = "Success" THEN "Dead" ELSE "Failed"
             word == IF s1.result = "Success" THEN "dead" ELSE "failed"
             s2 == set_state(s1, end)
             tick == [s2 EXCEPT !.timer = TRUE]
             auto == set_state(tick, "AutoRestart")
             s3 == IF again THEN auto ELSE s2
             o == [s3 EXCEPT !.forbid_restart = FALSE]
  <1>1. /\ s1 \in Going /\ s1.path = s.path /\ s1.forbid_restart = s.forbid_restart /\ Kept(s, s1)
        /\ res # "Success" => s1.result # "Success"
    BY SetResult, HushResult DEF Hushed, Kept
  <1>2. s.forbid_restart \/ ~ force_restart => ~ again
    BY <1>1 DEF shall_restart
  <1>3. enter_dead(s, res, force_restart) = {o}
    BY DEF enter_dead
  <1>a. word \in {"dead", "failed"} /\ (res # "Success" => word = "failed")
    BY <1>1
  <1>b. (end = "Dead" /\ word = "dead") \/ (end = "Failed" /\ word = "failed")
    OBVIOUS
  <1> HIDE DEF s1, again, word
  <1>4. end \in ServiceState /\ "AutoRestart" \in ServiceState /\ end \notin KeepControl /\ "AutoRestart" \notin KeepControl
        /\ end \notin KeepMain /\ "AutoRestart" \notin KeepMain
    BY DEF ServiceState, KeepControl, KeepMain, Starting, Stopping
  <1> HIDE DEF end
  <1>5. s2 \in Going /\ s2.path = s1.path \o <<sub_state(s2)>> /\ s2.state = end /\ s2.control_command = 0
        /\ s2.main = "none" /\ Kept(s1, s2)
    BY <1>1, <1>4, SetState, StateSays
  <1>6. sub_state(s2) = word
    BY <1>5, <1>b DEF sub_state
  <1> HIDE DEF s2
  <1>7. tick \in Going /\ tick.path = s2.path /\ tick.timer
    BY <1>5 DEF Going
  <1>c. tick.main = s2.main /\ tick.control = s2.control /\ tick.other = s2.other
    BY <1>5 DEF Going
  <1> HIDE DEF tick
  <1>8. auto \in Going /\ auto.path = tick.path \o <<sub_state(auto)>> /\ auto.state = "AutoRestart"
        /\ auto.control_command = 0 /\ auto.timer /\ auto.main = "none" /\ Kept(tick, auto)
    BY <1>4, <1>7, SetState, StateSays
  <1>9. sub_state(auto) = "autorestart"
    BY <1>8 DEF sub_state
  <1> HIDE DEF auto
  <1>10. s3 \in Going /\ s3.control_command = 0 /\ s3.main = "none" /\ Kept(s, s3)
    BY <1>1, <1>5, <1>8, <1>c, KeptSame DEF Kept
  <1>11. /\ ~ again => s3.path = s.path \o <<word>> /\ sub_state(s3) = word
         /\ again => s3.path = s.path \o <<word, "autorestart">> /\ sub_state(s3) = "autorestart"
    <2>1. s.path \in Seq(SubState) /\ word \in SubState /\ "autorestart" \in SubState
      BY <1>a DEF Going, SubState
    <2>2. (s.path \o <<word>>) \o <<"autorestart">> = s.path \o <<word, "autorestart">>
      BY <2>1, TwoWords
    <2>3. QED
      BY <1>1, <1>5, <1>6, <1>7, <1>8, <1>9, <2>2
  <1> HIDE DEF s3
  <1>12. o \in Going /\ o.path = s3.path /\ o.control_command = s3.control_command
    BY <1>10 DEF Going
  <1>13. o.state = s3.state /\ o.timer = s3.timer
    BY <1>10 DEF Going
  <1>d. o.main = s3.main /\ o.control = s3.control /\ o.other = s3.other
    BY <1>10 DEF Going
  <1> HIDE DEF o
  <1>14. sub_state(o) = sub_state(s3) /\ Tidy(o)
    <2>1. sub_state(o) = sub_state(s3)
      BY <1>13 DEF sub_state
    <2>2. sub_state(o) # "starting"
      BY <1>11, <1>a, <2>1
    <2>3. o.state \notin {"Start", "StartPost"}
      BY <2>2 DEF sub_state
    <2>4. QED
      BY <1>10, <1>12, <2>1, <2>3 DEF Tidy
  <1>15. ASSUME ~ again
         PROVE  Ran(s, o, {<<word>>})
    <2>1. <<word>>[Len(<<word>>)] = word
      OBVIOUS
    <2>2. QED
      BY <1>11, <1>12, <1>14, <1>15, <2>1 DEF Ran
  <1>16. ASSUME again
         PROVE  Ran(s, o, {<<word, "autorestart">>})
    <2>1. <<word, "autorestart">>[Len(<<word, "autorestart">>)] = "autorestart"
      OBVIOUS
    <2>2. QED
      BY <1>11, <1>12, <1>14, <1>16, <2>1 DEF Ran
  <1>17. Ran(s, o, EndsOf(s))
    <2>1. <<word>> \in EndsOf(s) /\ (~ s.forbid_restart => <<word, "autorestart">> \in EndsOf(s))
      BY <1>a DEF EndsOf, Ends, Restarting
    <2>2. QED
      BY <1>2, <1>15, <1>16, <2>1 DEF Ran
  <1>18. ~ force_restart /\ res # "Success" => Ran(s, o, {<<"failed">>})
    BY <1>2, <1>15, <1>a
  <1>19. QED
    <2>1. Kept(s, o)
      BY <1>10, <1>d, KeptSame DEF Kept
    <2>2. QED
      BY <1>3, <1>10, <1>12, <1>14, <1>17, <1>18, <1>d, <2>1 DEF Adds

LEMMA FinalAdds ==
  ASSUME NEW s \in Going
  PROVE  Adds(s, enter_signal_final(s), EndsOf(s))
  BY Succeeds, DeadAdds DEF enter_signal_final

LEMMA StopPostAdds ==
  ASSUME ConfOK, ~ Faults, NEW s \in Going, NEW res \in ServiceResult
  PROVE  Adds(s, enter_stop_post(s, res), HaltOf(s))
  <1> DEFINE s1 == set_result(s, res)
             none == enter_signal_final(s1)
             fail == enter_signal_final(popped(s1, "StopPost"))
  <1>1. s1 \in Going /\ Hushed(s, s1)
    BY SetResult, HushResult
  <1>2. enter_stop_post(s, res) = run_control(s1, "StopPost", "StopPost", none, fail)
    BY DEF enter_stop_post
  <1> HIDE DEF s1
  <1>3. Adds(s1, none, HaltOf(s))
    BY <1>1, FinalAdds, HushedHalt, HaltWords, AddsMore
  <1>4. "StopPost" \in ServiceCommand /\ "StopPost" \in KeepControl /\ <<Word("StopPost")>> \in HaltOf(s)
    BY DEF ServiceCommand, Stopping, KeepControl, Word, HaltOf
  <1> HIDE DEF none, fail
  <1>5. Adds(s1, enter_stop_post(s, res), HaltOf(s))
    BY <1>1, <1>2, <1>3, <1>4, RunAdds
  <1>6. QED
    BY <1>1, <1>5, AddsFrom

LEMMA SignalAdds ==
  ASSUME ConfOK, ~ Faults, NEW s \in Going, NEW res
  PROVE  Adds(s, enter_signal(s, res), HaltOf(s)) /\ Adds(s, enter_signal(s, res), Halts)
  BY Succeeds, StopPostAdds, HaltWords, AddsMore DEF enter_signal

LEMMA StopAdds ==
  ASSUME ConfOK, ~ Faults, NEW s \in Going, NEW res \in ServiceResult
  PROVE  Adds(s, enter_stop(s, res), HaltOf(s)) /\ Adds(s, enter_stop(s, res), Halts)
  <1> DEFINE s1 == set_result(s, res)
             none == enter_signal(s1, "Success")
             fail == enter_signal(popped(s1, "Stop"), "FailureResources")
  <1>1. s1 \in Going /\ Hushed(s, s1)
    BY SetResult, HushResult
  <1>2. enter_stop(s, res) = run_control(s1, "Stop", "Stop", none, fail)
    BY DEF enter_stop
  <1> HIDE DEF s1
  <1>3. Adds(s1, none, HaltOf(s))
    BY <1>1, SignalAdds, HushedHalt
  <1>4. "Stop" \in ServiceCommand /\ "Stop" \in KeepControl /\ <<Word("Stop")>> \in HaltOf(s)
    BY DEF ServiceCommand, Stopping, KeepControl, Word, HaltOf
  <1> HIDE DEF none, fail
  <1>5. Adds(s1, enter_stop(s, res), HaltOf(s))
    BY <1>1, <1>2, <1>3, <1>4, RunAdds
  <1>6. QED
    BY <1>1, <1>5, AddsFrom, HaltWords, AddsMore

\* A service that has not failed, and whose main process runs or need not run.
Lively(s) == s.result = "Success" /\ (conf.remain \/ (s.known /\ s.main = "alive"))
GoodRuns == {<<"active">>, <<"stopping">>}
GoodPosts == {<<"starting">>} \cup GoodRuns

LEMMA RunningAdds ==
  ASSUME ConfOK, ~ Faults, NEW s \in Going, NEW res \in ServiceResult
  PROVE  /\ Adds(s, enter_running(s, res), Runs)
         /\ Lively(s) /\ res = "Success" => Adds(s, enter_running(s, res), GoodRuns)
  <1> DEFINE t == unwatch_control(s)
             s1 == set_result(t, res)
             st == IF s1.notify_state = "Stopping" THEN "StopSigterm" ELSE "Running"
  <1>1. t \in Going /\ Hushed(s, t) /\ t.main = s.main /\ t.known = s.known /\ t.result = s.result
    BY UnwatchControl, HushUnwatch
  <1> HIDE DEF t
  <1>2. /\ s1 \in Going /\ Hushed(t, s1) /\ s1.main = t.main /\ s1.known = t.known
        /\ t.result = "Success" /\ res = "Success" => s1.result = "Success"
    BY <1>1, SetResult, HushResult
  <1>3. enter_running(s, res) =
          CASE s1.result # "Success" -> enter_signal(s1, res)
            [] s1.result = "Success" /\ service_alive(s1) -> {set_state(s1, st)}
            [] s1.result = "Success" /\ ~ service_alive(s1) /\ conf.remain -> {set_state(s1, "Exited")}
            [] OTHER -> enter_stop(s1, res)
    BY DEF enter_running, t
  <1> HIDE DEF s1
  <1>4. Hushed(s, s1)
    BY <1>1, <1>2 DEF Hushed, Kept
  <1>5. Adds(s1, enter_signal(s1, res), Runs) /\ Adds(s1, enter_stop(s1, res), Runs)
    BY <1>2, SignalAdds, StopAdds, HaltWords, AddsMore
  <1>6. ASSUME NEW x \in {"StopSigterm", "Running", "Exited"}
        PROVE  Adds(s1, {set_state(s1, x)}, GoodRuns)
    <2>1. x \in ServiceState /\ x \notin {"Start", "StartPost"}
      BY DEF ServiceState
    <2>2. set_state(s1, x).state = x
      BY <1>2, <2>1, SetState
    <2>3. <<sub_state(set_state(s1, x))>> \in GoodRuns
      BY <2>2 DEF sub_state, GoodRuns
    <2>4. QED
      BY <1>2, <2>1, <2>3, StateAdds
  <1>7. GoodRuns \subseteq Runs
    BY DEF GoodRuns, Runs, Halts
  <1>8. st \in {"StopSigterm", "Running", "Exited"}
    OBVIOUS
  <1> HIDE DEF st
  <1>9. Adds(s1, enter_running(s, res), Runs)
    <2>1. CASE s1.result # "Success"
      BY <1>3, <1>5, <2>1
    <2>2. CASE s1.result = "Success" /\ service_alive(s1)
      BY <1>3, <1>6, <1>7, <1>8, <2>2, AddsMore
    <2>3. CASE s1.result = "Success" /\ ~ service_alive(s1) /\ conf.remain
      BY <1>3, <1>6, <1>7, <2>3, AddsMore
    <2>4. CASE s1.result = "Success" /\ ~ service_alive(s1) /\ ~ conf.remain
      BY <1>3, <1>5, <2>4
    <2>5. QED
      BY <2>1, <2>2, <2>3, <2>4
  <1>10. ASSUME Lively(s), res = "Success"
         PROVE  Adds(s1, enter_running(s, res), GoodRuns)
    <2>1. s1.result = "Success" /\ (conf.remain \/ service_alive(s1))
      BY <1>1, <1>2, <1>10 DEF Lively, service_alive, main_alive, alive
    <2>2. CASE service_alive(s1)
      BY <1>3, <1>6, <1>8, <2>1, <2>2
    <2>3. CASE ~ service_alive(s1)
      BY <1>3, <1>6, <2>1, <2>3
    <2>4. QED
      BY <2>2, <2>3
  <1>11. QED
    BY <1>4, <1>9, <1>10, AddsFrom

LEMMA HushWatchdog ==
  ASSUME ConfOK, NEW s \in Going
  PROVE  /\ Hushed(s, restart_watchdog(s)) /\ restart_watchdog(s).control_command = s.control_command
         /\ restart_watchdog(s).result = s.result /\ restart_watchdog(s).known = s.known
         /\ restart_watchdog(s).state = s.state /\ restart_watchdog(s).timer = s.timer
  <1> DEFINE w == IF s.override = "none" THEN conf.watchdog ELSE s.override = "on"
             o == [s EXCEPT !.watchdog = w]
  <1>1. restart_watchdog(s) = o
    BY DEF restart_watchdog
  <1> HIDE DEF w
  <1>2. o.path = s.path /\ o.forbid_restart = s.forbid_restart /\ o.control_command = s.control_command
    BY DEF Going
  <1>3. o.result = s.result /\ o.known = s.known /\ o.state = s.state /\ o.timer = s.timer
    BY DEF Going
  <1>4. o.main = s.main /\ o.control = s.control /\ o.other = s.other
    BY DEF Going
  <1> HIDE DEF o
  <1>5. Kept(s, o)
    BY <1>4, KeptSame
  <1>6. QED
    BY <1>1, <1>2, <1>3, <1>5 DEF Hushed

\* StartPost has commands of its own, or the queue is empty, or there is a PID file.
Ready(s) == conf.cmds.StartPost # 0 \/ s.control_command = 0 \/ conf.pidfile

LEMMA StartPostAdds ==
  ASSUME ConfOK, ~ Faults, NEW s \in Going, Ready(s)
  PROVE  /\ Adds(s, enter_start_post(s), Posts)
         /\ Lively(s) => Adds(s, enter_start_post(s), GoodPosts)
         /\ conf.cmds.StartPost # 0 => Adds(s, enter_start_post(s), {<<"starting">>})
         /\ conf.cmds.StartPost = 0 /\ s.control_command = 0 => Adds(s, enter_start_post(s), Runs)
  <1> DEFINE t == unwatch_control(s)
             s1 == restart_watchdog(t)
             none == enter_running(s1, "Success")
             fail == {popped(s1, "StartPost")}
  <1>1. t \in Going /\ Hushed(s, t) /\ t.control_command = s.control_command
        /\ t.main = s.main /\ t.known = s.known /\ t.result = s.result
    BY UnwatchControl, HushUnwatch
  <1>2. enter_start_post(s) = run_control(s1, "StartPost", "StartPost", none, fail)
    BY DEF enter_start_post
  <1> HIDE DEF t
  <1>3. s1 \in Going /\ Hushed(t, s1) /\ s1.control_command = t.control_command
        /\ s1.main = t.main /\ s1.known = t.known /\ s1.result = t.result
    BY <1>1, RestartWatchdog, HushWatchdog
  <1> HIDE DEF s1
  <1>4. Hushed(s, s1) /\ s1.control_command = s.control_command /\ (Lively(s) => Lively(s1))
    BY <1>1, <1>3 DEF Hushed, Kept, Lively
  <1>5. Adds(s1, none, Runs) /\ (Lively(s) => Adds(s1, none, GoodRuns))
    BY <1>3, <1>4, RunningAdds, Succeeds
  <1>6. "StartPost" \in ServiceCommand /\ "StartPost" \in KeepControl \ {"Start"} /\ Word("StartPost") = "starting"
    BY DEF ServiceCommand, Starting, Stopping, KeepControl, Word
  <1>7. conf.cmds["StartPost"] = conf.cmds.StartPost
    OBVIOUS
  <1>8. /\ control_command_fill(s1, "StartPost").control_command # 0 => conf.cmds.StartPost # 0 \/ conf.pidfile
        /\ conf.cmds.StartPost = 0 /\ s.control_command = 0 => control_command_fill(s1, "StartPost").control_command = 0
    BY <1>4, <1>7 DEF control_command_fill, Ready
  <1>9. conf.cmds.StartPost # 0 => control_command_fill(s1, "StartPost").control_command # 0
    <2>1. ASSUME conf.cmds.StartPost # 0
          PROVE  control_command_fill(s1, "StartPost").control_command = conf.cmds.StartPost
      <3>1. control_command_fill(s1, "StartPost") = [s1 EXCEPT !.control_command = conf.cmds.StartPost]
        BY <1>7, <2>1 DEF control_command_fill
      <3>2. QED
        BY <1>3, <3>1 DEF Going
    <2>2. QED
      BY <2>1
  <1> HIDE DEF none, fail
  <1>10. Adds(s1, enter_start_post(s), Posts)
    <2>1. <<"starting">> \in Posts /\ Adds(s1, none, Posts)
      BY <1>5, HaltWords, AddsMore DEF Posts
    <2>2. QED
      BY <1>2, <1>3, <1>6, <1>8, <2>1, RunAdds
  <1>11. Lively(s) => Adds(s1, enter_start_post(s), GoodPosts)
    <2>1. <<"starting">> \in GoodPosts /\ GoodRuns \subseteq GoodPosts
      BY DEF GoodPosts
    <2>2. QED
      BY <1>2, <1>3, <1>5, <1>6, <1>8, <2>1, AddsMore, RunAdds
  <1>12. conf.cmds.StartPost # 0 => Adds(s1, enter_start_post(s), {<<"starting">>})
    BY <1>2, <1>3, <1>6, <1>8, <1>9, RunAdds
  <1>13. conf.cmds.StartPost = 0 /\ s.control_command = 0 => Adds(s1, enter_start_post(s), Runs)
    BY <1>2, <1>5, <1>8 DEF run_control
  <1>14. QED
    BY <1>4, <1>10, <1>11, <1>12, <1>13, AddsFrom

\* The words after a first report of the start.
Twice(P) == {<<"starting">> \o p : p \in P}
Starts == Posts \cup Twice(Posts)
GoodStarts == GoodPosts \cup Twice(GoodPosts)

LEMMA PostWords ==
  ASSUME NEW p \in Posts
  PROVE  p \in Seq(SubState) /\ Len(p) \in {1, 2}
  <1>1. p \in {<<"starting">>, <<"active">>, <<"stopping">>, <<"dead">>, <<"failed">>,
               <<"dead", "autorestart">>, <<"failed", "autorestart">>}
    BY DEF Posts, Runs, Halts, Ends, Restarting
  <1>2. {"starting", "active", "stopping", "dead", "failed", "autorestart"} \subseteq SubState
    BY DEF SubState
  <1>3. ASSUME NEW a \in SubState
        PROVE  <<a>> \in Seq(SubState) /\ Len(<<a>>) \in {1, 2}
    OBVIOUS
  <1>4. ASSUME NEW a \in SubState, NEW b \in SubState
        PROVE  <<a, b>> \in Seq(SubState) /\ Len(<<a, b>>) \in {1, 2}
    OBVIOUS
  <1>5. (\E a \in SubState : p = <<a>>) \/ (\E a \in SubState, b \in SubState : p = <<a, b>>)
    BY <1>1, <1>2, Zenon
  <1>6. QED
    BY <1>3, <1>4, <1>5, Zenon

LEMMA GoodWords == GoodRuns \subseteq Runs /\ GoodPosts \subseteq Posts /\ GoodStarts \subseteq Starts
  BY DEF GoodRuns, GoodPosts, GoodStarts, Runs, Halts, Posts, Starts, Twice

\* A word and then another.
LEMMA Joined ==
  ASSUME NEW p \in Seq(SubState), NEW q \in Seq(SubState), Len(q) \in {1, 2}
  PROVE  /\ p \o q \in Seq(SubState) /\ Len(p \o q) = Len(p) + Len(q)
         /\ (p \o q)[Len(p \o q)] = q[Len(q)]
  <1>1. /\ p \o q \in Seq(SubState) /\ Len(p \o q) = Len(p) + Len(q)
        /\ \A i \in 1 .. Len(p) + Len(q) : (p \o q)[i] = IF i <= Len(p) THEN p[i] ELSE q[i - Len(p)]
    BY ConcatProperties
  <1>2. Len(p) \in Nat
    BY LenProperties
  <1>3. ASSUME NEW a \in Nat, NEW b \in {1, 2}
        PROVE  a + b \in 1 .. a + b /\ ~ (a + b <= a) /\ (a + b) - a = b
    OBVIOUS
  <1>4. QED
    BY <1>1, <1>2, <1>3

LEMMA Regrouped ==
  ASSUME NEW p \in Seq(SubState), NEW q \in Seq(SubState), NEW r \in Seq(SubState)
  PROVE  (p \o q) \o r = p \o (q \o r)
  BY ConcatAssociative

\* The start is reported, and then what a function reports that is called after it.
LEMMA AfterStart ==
  ASSUME NEW s \in Going, NEW S, NEW P \in SUBSET Posts, Adds(set_state(s, "Start"), S, P)
  PROVE  Adds(s, S, Twice(P))
  <1> DEFINE x == set_state(s, "Start")
             w == <<"starting">>
  <1>1. "Start" \in ServiceState /\ w \in Seq(SubState)
    BY DEF ServiceState, SubState
  <1>2. x \in Going /\ x.state = "Start" /\ x.path = s.path \o <<sub_state(x)>>
    BY <1>1, SetState, StateSays
  <1>3. x.path = s.path \o w
    BY <1>2 DEF sub_state
  <1> HIDE DEF x, w
  <1>4. ASSUME NEW o \in S
        PROVE  Ran(s, o, Twice(P))
    <2>1. PICK p \in P : o.path = x.path \o p /\ sub_state(o) = p[Len(p)]
      BY <1>4 DEF Adds, Ran, x
    <2>2. p \in Seq(SubState) /\ Len(p) \in {1, 2} /\ s.path \in Seq(SubState)
      BY PostWords DEF Going
    <2>3. o.path = s.path \o (w \o p)
      <3>1. (s.path \o w) \o p = s.path \o (w \o p)
        BY <1>1, <2>2, Regrouped, Zenon
      <3>2. QED
        BY <1>3, <2>1, <3>1, Zenon
    <2>4. (w \o p)[Len(w \o p)] = p[Len(p)]
      BY <1>1, <2>2, Joined
    <2>5. w \o p \in Twice(P)
      BY DEF Twice, w
    <2>6. QED
      BY <2>1, <2>3, <2>4, <2>5 DEF Ran
  <1>5. Kept(s, x)
    BY <1>1, StateSays DEF x
  <1>6. QED
    BY <1>4, <1>5 DEF Adds, Kept, x

LEMMA StartAdds ==
  ASSUME ConfOK, ~ Faults, NEW s \in Going
  PROVE  /\ Adds(s, enter_start(s), Starts)
         /\ s.result = "Success" => Adds(s, enter_start(s), GoodStarts)
  <1> DEFINE a == clear_control(s)
             b == unwatch_control(a)
             c == unwatch_main(b)
             s1 == [c EXCEPT !.main_command = conf.cmds.Start]
             child == set_control(pop_control(control_command_fill(s1, "Start")))
             run0 == [s1 EXCEPT !.main_command = @ - 1]
             run == set_main(run0)
  <1>1. a \in Going /\ Hushed(s, a) /\ a.control_command = 0 /\ a.result = s.result
    BY ClearControl, HushClear
  <1>2. b \in Going /\ Hushed(a, b) /\ b.control_command = a.control_command /\ b.result = a.result
    BY <1>1, UnwatchControl, HushUnwatch
  <1>3. c \in Going /\ Hushed(b, c) /\ c.control_command = b.control_command /\ c.result = b.result
    BY <1>2, UnwatchMain, HushUnwatch
  <1>4. conf.cmds.Start \in 0..2 /\ "Start" \in ServiceCommand /\ "Start" \in ServiceState
    BY ConfTyped DEF ServiceCommand, ServiceState
  <1>5. s1 \in Going /\ Hushed(c, s1) /\ s1.control_command = c.control_command /\ s1.result = c.result
    <2> HIDE DEF c
    <2>1. QED
      BY <1>3, <1>4, WithCommands, HushCommands
  <1>6. s1.main_command = conf.cmds.Start
    <2> HIDE DEF c
    <2>1. QED
      BY <1>3 DEF Going
  <1>7. enter_start(s) =
          CASE conf.cmds.Start = 0   -> enter_start_post(set_state(s1, "Start"))
            [] conf.type = "simple"  -> spawned(enter_start_post(run), enter_signal(s1, "FailureResources"))
            [] conf.type = "forking" -> spawned({set_state(child, "Start")}, enter_signal(s1, "FailureResources"))
            [] OTHER                 -> spawned({set_state(run, "Start")}, enter_signal(s1, "FailureResources"))
    BY DEF enter_start
  <1>8. Hushed(s, s1) /\ s1.control_command = 0 /\ s1.result = s.result
    <2> HIDE DEF a, b, c, s1
    <2>1. QED
      BY <1>1, <1>2, <1>3, <1>5 DEF Hushed, Kept
  <1> HIDE DEF a, b, c, s1
  <1>9. Posts \subseteq Starts /\ GoodPosts \subseteq GoodStarts /\ <<"starting">> \in GoodStarts /\ GoodStarts \subseteq Starts
    BY GoodWords DEF Starts, GoodStarts, GoodPosts
  <1>10. CASE conf.cmds.Start = 0
    <2> DEFINE x == set_state(s1, "Start")
    <2>1. conf.type \notin {"simple", "forking"} /\ conf.remain
      BY <1>10, ConfTyped DEF service_verify
    <2>2. enter_start(s) = enter_start_post(x)
      BY <1>7, <1>10, <2>1
    <2>3. x \in Going /\ x.control_command = 0 /\ x.result = s.result
      BY <1>4, <1>5, <1>8, SetState, StateSays
    <2>4. /\ Adds(x, enter_start_post(x), Posts)
          /\ s.result = "Success" => Adds(x, enter_start_post(x), GoodPosts)
      <3> HIDE DEF x
      <3>1. QED
        BY <2>1, <2>3, StartPostAdds DEF Ready, Lively
    <2>5. /\ Adds(s1, enter_start_post(x), Twice(Posts))
          /\ s.result = "Success" => Adds(s1, enter_start_post(x), Twice(GoodPosts))
      BY <1>5, <2>4, AfterStart, GoodWords
    <2> HIDE DEF x
    <2>6. Twice(Posts) \subseteq Starts /\ Twice(GoodPosts) \subseteq GoodStarts
      BY DEF Starts, GoodStarts
    <2>7. QED
      BY <1>8, <2>2, <2>5, <2>6, AddsMore, AddsFrom
  <1>11. CASE conf.cmds.Start # 0
    <2>1. run0 \in Going /\ Hushed(s1, run0) /\ run0.control_command = 0 /\ run0.result = s.result
      <3> DEFINE n == conf.cmds.Start - 1
      <3>1. n \in 0..2
        BY <1>4, <1>11
      <3>2. run0 = [s1 EXCEPT !.main_command = n]
        BY <1>6
      <3> HIDE DEF run0, n
      <3>3. [s1 EXCEPT !.main_command = n] \in Going
        BY <1>5, <3>1, WithCommands
      <3>4. QED
        BY <1>5, <1>8, <3>1, <3>2, <3>3, HushCommands
    <2> HIDE DEF run0
    <2>2. run \in Going /\ Hushed(run0, run) /\ run.control_command = 0 /\ run.result = s.result /\ run.known /\ run.main = "alive"
      BY <2>1, SetMain, HushSet
    <2> HIDE DEF run
    <2>3. Hushed(s, run)
      BY <1>8, <2>1, <2>2 DEF Hushed, Kept
    <2>4. /\ Adds(run, enter_start_post(run), Posts)
          /\ s.result = "Success" => Adds(run, enter_start_post(run), GoodPosts)
      BY <2>2, StartPostAdds DEF Ready, Lively
    <2>5. ASSUME NEW x \in Going, Hushed(s, x), conf.type = "forking" \/ x.control_command = 0
          PROVE  Adds(s, {set_state(x, "Start")}, GoodStarts)
      <3>1. set_state(x, "Start").state = "Start"
        BY <1>4, <2>5, SetState
      <3>2. sub_state(set_state(x, "Start")) = "starting"
        BY <3>1 DEF sub_state
      <3>3. Adds(x, {set_state(x, "Start")}, GoodStarts)
        BY <1>4, <1>9, <2>5, <3>2, StateAdds
      <3>4. QED
        BY <2>5, <3>3, AddsFrom
    <2> DEFINE t == popped(s1, "Start")
    <2>6. control_command_fill(s1, "Start").control_command # 0
      <3>1. control_command_fill(s1, "Start") = [s1 EXCEPT !.control_command = conf.cmds.Start]
        BY <1>11 DEF control_command_fill
      <3>2. control_command_fill(s1, "Start").control_command = conf.cmds.Start
        BY <1>5, <3>1 DEF Going
      <3>3. QED
        BY <1>11, <3>2
    <2>7. t \in Going /\ Hushed(s1, t)
      BY <1>4, <1>5, <2>6, Popped, HushPopped
    <2>8. child = set_control(t)
      BY DEF popped
    <2> HIDE DEF t, child
    <2>9. child \in Going /\ Hushed(t, child)
      BY <2>7, <2>8, SetControl, HushSet
    <2>10. Hushed(s, child)
      BY <1>8, <2>7, <2>9 DEF Hushed, Kept
    <2>11. CASE conf.type = "simple"
      <3>1. enter_start(s) = enter_start_post(run)
        BY <1>7, <1>11, <2>11 DEF spawned
      <3>2. QED
        BY <1>9, <2>3, <2>4, <3>1, AddsMore, AddsFrom
    <2>12. CASE conf.type = "forking"
      <3>1. enter_start(s) = {set_state(child, "Start")}
        BY <1>7, <1>11, <2>12 DEF spawned
      <3>2. QED
        BY <1>9, <2>5, <2>9, <2>10, <2>12, <3>1, AddsMore
    <2>13. CASE conf.type \notin {"simple", "forking"}
      <3>1. enter_start(s) = {set_state(run, "Start")}
        BY <1>7, <1>11, <2>13 DEF spawned
      <3>2. QED
        BY <1>9, <2>2, <2>3, <2>5, <3>1, AddsMore
    <2>14. QED
      BY <2>11, <2>12, <2>13
  <1>12. QED
    BY <1>10, <1>11

LEMMA PrestartAdds ==
  ASSUME ConfOK, ~ Faults, NEW s \in Going
  PROVE  /\ Adds(s, enter_prestart(s), Starts)
         /\ s.result = "Success" => Adds(s, enter_prestart(s), GoodStarts)
  <1> DEFINE s1 == unwatch_control(s)
             none == enter_start(s1)
             fail == unavailable(popped(s1, "StartPre"))
  <1>1. s1 \in Going /\ Hushed(s, s1) /\ s1.result = s.result
    BY UnwatchControl, HushUnwatch
  <1>2. enter_prestart(s) = run_control(s1, "StartPre", "StartPre", none, fail)
    BY DEF enter_prestart
  <1> HIDE DEF s1
  <1>3. Adds(s1, none, Starts) /\ (s.result = "Success" => Adds(s1, none, GoodStarts))
    BY <1>1, StartAdds
  <1>4. "StartPre" \in ServiceCommand /\ "StartPre" \in KeepControl \ {"Start"} /\ Word("StartPre") = "starting"
    BY DEF ServiceCommand, Starting, Stopping, KeepControl, Word
  <1>5. <<"starting">> \in Starts /\ <<"starting">> \in GoodStarts
    BY DEF Starts, Posts, GoodStarts, GoodPosts
  <1> HIDE DEF none, fail
  <1>6. Adds(s1, enter_prestart(s), Starts)
    BY <1>1, <1>2, <1>3, <1>4, <1>5, RunAdds
  <1>7. s.result = "Success" => Adds(s1, enter_prestart(s), GoodStarts)
    BY <1>1, <1>2, <1>3, <1>4, <1>5, RunAdds
  <1>8. QED
    BY <1>1, <1>6, <1>7, AddsFrom

LEMMA ConditionAdds ==
  ASSUME ConfOK, ~ Faults, NEW s \in Going, s.result = "Success"
  PROVE  Adds(s, enter_condition(s), GoodStarts)
  <1> DEFINE none == enter_prestart(s)
             fail == unavailable(popped(s, "Condition"))
  <1>1. enter_condition(s) = run_control(s, "Condition", "Condition", none, fail)
    BY DEF enter_condition
  <1>2. Adds(s, none, GoodStarts)
    BY PrestartAdds
  <1>3. "Condition" \in ServiceCommand /\ "Condition" \in KeepControl \ {"Start"} /\ Word("Condition") = "starting"
    BY DEF ServiceCommand, Starting, Stopping, KeepControl, Word
  <1>4. <<"starting">> \in GoodStarts
    BY DEF GoodStarts, GoodPosts
  <1> HIDE DEF none, fail
  <1>5. QED
    BY <1>1, <1>2, <1>3, <1>4, RunAdds

LEMMA ReloadAdds ==
  ASSUME ConfOK, ~ Faults, NEW s \in Going, conf.cmds.Reload # 0
  PROVE  Adds(s, enter_reload(s), {<<"reloading">>})
  <1> DEFINE a == clear_control(s)
             s1 == unwatch_control(a)
             none == enter_running(s1, "Success")
             fail == enter_running(popped(s1, "Reload"), "Success")
  <1>1. a \in Going /\ Hushed(s, a)
    BY ClearControl, HushClear
  <1>2. s1 \in Going /\ Hushed(a, s1)
    BY <1>1, UnwatchControl, HushUnwatch
  <1>3. enter_reload(s) = run_control(s1, "Reload", "Reload", none, fail)
    BY DEF enter_reload
  <1> HIDE DEF a, s1
  <1>4. control_command_fill(s1, "Reload").control_command # 0
    <2>1. control_command_fill(s1, "Reload") = [s1 EXCEPT !.control_command = conf.cmds.Reload]
      BY DEF control_command_fill
    <2>2. control_command_fill(s1, "Reload").control_command = conf.cmds.Reload
      BY <1>2, <2>1 DEF Going
    <2>3. QED
      BY <2>2
  <1>5. "Reload" \in ServiceCommand /\ "Reload" \in KeepControl \ {"Start"} /\ Word("Reload") = "reloading"
    BY DEF ServiceCommand, Stopping, KeepControl, Word
  <1> HIDE DEF none, fail
  <1>6. Adds(s1, enter_reload(s), {<<"reloading">>})
    BY <1>2, <1>3, <1>4, <1>5, RunAdds
  <1>7. Hushed(s, s1)
    BY <1>1, <1>2 DEF Hushed, Kept
  <1>8. QED
    BY <1>6, <1>7, AddsFrom


-----------------------------------------------------------------------------
(* Reports and the envelope. *)

\* What the engine has to expect of the service in more than its usual course.
Stray == ~ (undisturbed(conf) /\ conf.cmds.StartPost = 0)

LEMMA PathsOf ==
  ASSUME NEW w \in SubState
  PROVE  /\ <<>> \in paths(w)
         /\ w = "starting" => Posts \subseteq paths(w)
         /\ w \in {"active", "reloading"} => Runs \subseteq paths(w)
         /\ w = "stopping" => Halts \subseteq paths(w)
         /\ Stray => Runs \subseteq paths(w)
         /\ Stray /\ w \in {"starting", "stopping"} => Posts \subseteq paths(w)
  <1>1. w = "starting" => own_paths(w) = Posts
    BY DEF own_paths, Posts, Runs, Halts, Ends, Restarting
  <1>2. w \in {"active", "reloading"} => own_paths(w) = Runs
    BY DEF own_paths, Runs, Halts
  <1>3. w = "stopping" => own_paths(w) = Halts
    BY DEF own_paths, Halts
  <1>4. /\ own_paths(w) \subseteq stray_paths(w) /\ Runs \subseteq stray_paths(w)
        /\ w = "stopping" => Posts \subseteq stray_paths(w)
    BY DEF stray_paths, Posts, Runs, Halts
  <1>5. /\ <<>> \in paths(w) /\ own_paths(w) \subseteq paths(w)
        /\ Stray => stray_paths(w) \subseteq paths(w)
    BY <1>4 DEF paths, Stray
  <1>6. QED
    BY <1>1, <1>2, <1>3, <1>4, <1>5

LEMMA Whole ==
  ASSUME NEW w \in SubState, NEW p \in Seq(SubState), p \in paths(w)
  PROVE  chained(w, p)
  <1> DEFINE n == Len(p)
  <1>1. n \in Nat
    BY LenProperties
  <1>2. SubSeq(p, 1, n) = p
    BY SubSeqFull
  <1>3. SubSeq(p, n + 1, n) = <<>>
    <2> HIDE DEF n
    <2>1. n + 1 \in Int /\ n \in Int /\ n < n + 1
      BY <1>1
    <2>2. QED
      BY <2>1, SubSeqEmpty
  <1>4. <<>> \in paths(after(w, p))
    BY DEF paths
  <1>5. n \in 0..n
    BY <1>1
  <1>6. QED
    BY <1>2, <1>3, <1>4, <1>5 DEF chained

LEMMA Broken ==
  ASSUME NEW w \in SubState, NEW p \in Seq(SubState), NEW q \in Seq(SubState),
         p # <<>>, p \in paths(w), q \in paths(p[Len(p)])
  PROVE  chained(w, p \o q)
  <1> DEFINE n == Len(p)
             pq == p \o q
  <1>1. n \in Nat /\ Len(q) \in Nat
    BY LenProperties
  <1>2. SubSeq(pq, 1, n) = p
    BY SubSeqOfConcat1
  <1>3. SubSeq(pq, n + 1, Len(pq)) = q
    BY SubSeqOfConcat2
  <1>4. after(w, p) = p[Len(p)]
    BY DEF after
  <1>5. Len(pq) = n + Len(q)
    BY ConcatProperties
  <1>6. n \in 0..Len(pq)
    <2> HIDE DEF n, pq
    <2>1. QED
      BY <1>1, <1>5
  <1>7. QED
    BY <1>2, <1>3, <1>4, <1>6 DEF chained

\* What a handler may end in that finds the service in a sub-state w.
Chains(w, S) == \A o \in S : o \in Going /\ Tidy(o) /\ chained(w, o.path)

\* A service that has reported nothing yet, and one that a handler leaves as it is.
Still(s, o) ==
  /\ o.path = s.path /\ o.state = s.state /\ o.timer = s.timer
  /\ s.control_command = 0 => o.control_command = 0

LEMMA StillTidy ==
  ASSUME NEW s, NEW o, Still(s, o)
  PROVE  sub_state(o) = sub_state(s) /\ (Tidy(s) => Tidy(o))
  <1>1. sub_state(o) = sub_state(s)
    BY DEF Still, sub_state
  <1>2. QED
    BY <1>1 DEF Still, Tidy

LEMMA StillChains ==
  ASSUME NEW w \in SubState, NEW s, s.path = <<>>, Tidy(s), NEW S, \A o \in S : o \in Going /\ Still(s, o)
  PROVE  Chains(w, S)
  <1>1. <<>> \in Seq(SubState) /\ <<>> \in paths(w)
    BY PathsOf
  <1>2. chained(w, <<>>)
    BY <1>1, Whole
  <1>3. QED
    BY <1>2, StillTidy DEF Chains, Still

LEMMA AddsChains ==
  ASSUME NEW w \in SubState, NEW s, s.path = <<>>, NEW S, NEW P, Adds(s, S, P),
         P \subseteq Posts, P \subseteq paths(w)
  PROVE  Chains(w, S)
  <1>1. ASSUME NEW o \in S
        PROVE  chained(w, o.path)
    <2>1. PICK p \in P : o.path = s.path \o p
      BY DEF Adds, Ran
    <2>2. p \in Seq(SubState) /\ p \in paths(w)
      BY PostWords
    <2>3. o.path = p
      BY <2>1, <2>2, ConcatEmptySeq
    <2>4. QED
      BY <2>2, <2>3, Whole
  <1>2. QED
    BY <1>1 DEF Chains, Adds

\* One that reports twice.
LEMMA AddsTwice ==
  ASSUME NEW w \in SubState, NEW s, s.path = <<>>, NEW S, NEW P, Adds(s, S, P),
         P \subseteq Posts, P \subseteq paths(w),
         NEW y \in S, NEW z, Hushed(y, z), NEW T, NEW Q, Adds(z, T, Q), Q \subseteq Posts, Q \subseteq paths(sub_state(y))
  PROVE  Chains(w, T)
  <1>1. PICK p \in P : y.path = s.path \o p /\ sub_state(y) = p[Len(p)]
    BY DEF Adds, Ran
  <1>2. p \in Seq(SubState) /\ p \in paths(w) /\ Len(p) \in {1, 2}
    BY PostWords
  <1>3. y.path = p /\ p # <<>>
    <2>1. <<>> \o p = p
      BY <1>2, ConcatEmptySeq
    <2>2. p # <<>>
      BY <1>2
    <2>3. QED
      BY <1>1, <2>1, <2>2
  <1>4. ASSUME NEW o \in T
        PROVE  chained(w, o.path)
    <2>1. PICK q \in Q : o.path = z.path \o q
      BY <1>4 DEF Adds, Ran
    <2>2. q \in Seq(SubState) /\ q \in paths(p[Len(p)])
      BY <1>1, PostWords
    <2>3. o.path = p \o q
      BY <1>3, <2>1 DEF Hushed
    <2>4. QED
      BY <1>2, <1>3, <2>2, <2>3, Broken
  <1>5. QED
    BY <1>4 DEF Chains, Adds


LEMMA StillStill ==
  ASSUME NEW s, NEW t, NEW o, Still(s, t), Still(t, o)
  PROVE  Still(s, o)
  BY DEF Still

LEMMA StillMain ==
  ASSUME NEW s \in Going
  PROVE  /\ Still(s, set_main(s)) /\ Still(s, s)
         /\ set_main(s).main = "alive" /\ set_main(s) \in Going
         /\ set_main(s).control_command = s.control_command /\ Hushed(s, set_main(s))
  <1> DEFINE t == unwatch_main(s)
  <1>1. t \in Going
    BY UnwatchMain
  <1>2. set_main(s) = [t EXCEPT !.main = "alive", !.known = TRUE]
    BY DEF set_main
  <1>3. t.timer = s.timer
    BY DEF Going, unwatch_main
  <1> HIDE DEF t
  <1>4. set_main(s).timer = t.timer
    BY <1>1, <1>2 DEF Going
  <1>5. QED
    BY <1>3, <1>4, SetMain, HushSet DEF Still, Hushed

LEMMA StillAdopt ==
  ASSUME NEW s \in Going, NEW o \in adopt(s)
  PROVE  /\ o \in Going /\ Still(s, o) /\ Hushed(s, o) /\ o.main = "alive"
         /\ o.control_command = s.control_command
  <1> DEFINE t == set_main(s)
  <1>1. PICK more \in BOOLEAN : o = [t EXCEPT !.other = more \/ alive(s.main)]
    BY DEF adopt
  <1> DEFINE b == more \/ alive(s.main)
  <1>2. b \in BOOLEAN /\ o = [t EXCEPT !.other = b]
    BY <1>1
  <1>3. t \in Going /\ Still(s, t) /\ Hushed(s, t) /\ t.main = "alive" /\ t.control_command = s.control_command
    BY StillMain
  <1> HIDE DEF t, b
  <1>4. o.path = t.path /\ o.state = t.state /\ o.timer = t.timer
    BY <1>2, <1>3 DEF Going
  <1>5. o.control_command = t.control_command /\ o.forbid_restart = t.forbid_restart
    BY <1>2, <1>3 DEF Going
  <1>6. o \in Going /\ o.main = "alive"
    BY Adopt
  <1>7. Kept(s, o)
    BY <1>6 DEF Kept, cgroup_good, alive
  <1>8. QED
    BY <1>3, <1>4, <1>5, <1>6, <1>7 DEF Still, Hushed

LEMMA StillLoad ==
  ASSUME NEW s \in Going, NEW o \in load_pid_file_ok(s)
  PROVE  /\ o \in Going /\ Still(s, o) /\ Hushed(s, o) /\ o.main # "none"
         /\ o.control_command = s.control_command /\ (o.main = "alive" \/ o.main = s.main)
  <1>1. (o = s /\ s.main # "none") \/ o \in adopt(s)
    BY DEF load_pid_file_ok, load_pid_file_new
  <1>2. Still(s, s) /\ Hushed(s, s)
    BY DEF Still, Hushed, Kept
  <1>3. QED
    BY <1>1, <1>2, StillAdopt

LEMMA StillInotify ==
  ASSUME NEW s \in Going, NEW b \in BOOLEAN
  PROVE  LET o == [s EXCEPT !.inotify = b] IN
         /\ o \in Going /\ Still(s, o) /\ Hushed(s, o) /\ o.main = s.main
         /\ o.control_command = s.control_command
  <1> DEFINE o == [s EXCEPT !.inotify = b]
  <1>1. o \in Going
    BY DEF Going
  <1>2. o.path = s.path /\ o.state = s.state /\ o.timer = s.timer
    BY DEF Going
  <1>3. o.control_command = s.control_command /\ o.forbid_restart = s.forbid_restart
    BY DEF Going
  <1>4. o.main = s.main /\ o.control = s.control /\ o.other = s.other
    BY DEF Going
  <1> HIDE DEF o
  <1>5. Kept(s, o)
    BY <1>4, KeptSame
  <1>6. Still(s, o) /\ Hushed(s, o)
    BY <1>2, <1>3, <1>5 DEF Still, Hushed
  <1>7. QED
    BY <1>1, <1>3, <1>4, <1>6 DEF o

LEMMA StillTodo ==
  ASSUME NEW s \in Going
  PROVE  \A o \in todo(s) : o \in Going /\ Still(s, o)
  <1> DEFINE o == [s EXCEPT !.panic = TRUE]
  <1>1. o \in Going
    BY DEF Going
  <1>2. o.path = s.path /\ o.state = s.state /\ o.timer = s.timer
    BY DEF Going
  <1>3. o.control_command = s.control_command
    BY DEF Going
  <1>4. todo(s) = {o}
    BY DEF todo
  <1> HIDE DEF o
  <1>5. QED
    BY <1>1, <1>2, <1>3, <1>4 DEF Still

\* A handler that reports once.
LEMMA HaltChains ==
  ASSUME ConfOK, ~ Faults, NEW s \in Going, s.path = <<>>, NEW res \in ServiceResult,
         sub_state(s) \in {"starting", "active", "reloading", "stopping"}
  PROVE  /\ Chains(sub_state(s), enter_signal(s, res)) /\ Chains(sub_state(s), enter_stop(s, res))
         /\ Chains(sub_state(s), enter_stop_post(s, res)) /\ Chains(sub_state(s), enter_signal_final(s))
         /\ sub_state(s) # "stopping" => Chains(sub_state(s), enter_running(s, res))
  <1> DEFINE w == sub_state(s)
  <1>1. w \in SubState
    BY SubStateOK
  <1>2. /\ Adds(s, enter_signal(s, res), Halts) /\ Adds(s, enter_stop(s, res), Halts)
        /\ Adds(s, enter_stop_post(s, res), Halts) /\ Adds(s, enter_signal_final(s), Halts)
    BY SignalAdds, StopAdds, StopPostAdds, FinalAdds, HaltWords, AddsMore
  <1>3. Adds(s, enter_running(s, res), Runs)
    BY RunningAdds
  <1> HIDE DEF w
  <1>4. Halts \subseteq Posts /\ Runs \subseteq Posts /\ Halts \subseteq Runs
    BY HaltWords
  <1>5. Halts \subseteq paths(w) /\ (w # "stopping" => Runs \subseteq paths(w))
    BY <1>1, <1>4, PathsOf DEF w
  <1>6. QED
    BY <1>1, <1>2, <1>3, <1>4, <1>5, AddsChains DEF w

LEMMA PostChains ==
  ASSUME ConfOK, ~ Faults, NEW s \in Going, s.path = <<>>, sub_state(s) = "starting", Ready(s)
  PROVE  Chains("starting", enter_start_post(s))
  <1>1. "starting" \in SubState /\ Posts \subseteq paths("starting")
    BY PathsOf DEF SubState
  <1>2. QED
    BY <1>1, StartPostAdds, AddsChains

LEMMA StartChains ==
  ASSUME NEW s, s.path = <<>>, NEW S, Adds(s, S, Starts)
  PROVE  Chains("starting", S)
  <1>1. "starting" \in SubState /\ Posts \subseteq paths("starting") /\ <<"starting">> \in Posts
    BY PathsOf DEF SubState, Posts
  <1> DEFINE w == <<"starting">>
  <1>2. w \in Seq(SubState) /\ w # <<>> /\ w[Len(w)] = "starting"
    BY <1>1
  <1>3. ASSUME NEW o \in S
        PROVE  chained("starting", o.path)
    <2>1. PICK p \in Starts : o.path = s.path \o p
      BY <1>3 DEF Adds, Ran
    <2>2. CASE p \in Posts
      <3>1. p \in Seq(SubState)
        BY <2>2, PostWords
      <3>2. <<>> \o p = p
        BY <3>1, ConcatEmptySeq
      <3>3. QED
        BY <1>1, <2>1, <2>2, <3>1, <3>2, Whole
    <2>3. CASE p \in Twice(Posts)
      <3>1. PICK q \in Posts : p = w \o q
        BY <2>3 DEF Twice
      <3>2. q \in Seq(SubState)
        BY PostWords
      <3> HIDE DEF w
      <3>3. w \o q \in Seq(SubState)
        BY <1>2, <3>2, ConcatProperties
      <3>4. <<>> \o (w \o q) = w \o q
        BY <3>3, ConcatEmptySeq
      <3>5. w \in paths("starting")
        BY <1>1 DEF w
      <3>6. chained("starting", w \o q)
        BY <1>1, <1>2, <3>2, <3>5, Broken
      <3>7. QED
        BY <2>1, <3>1, <3>4, <3>6
    <2>4. QED
      BY <2>2, <2>3 DEF Starts
  <1>4. QED
    BY <1>3 DEF Chains, Adds

LEMMA MainGoneChains ==
  ASSUME ConfOK, ~ Faults, NEW s \in Going, s.path = <<>>, Tidy(s), NEW res \in ServiceResult
  PROVE  Chains(sub_state(s), main_gone(s, res))
  <1> DEFINE w == sub_state(s)
  <1>0. w \in SubState /\ Still(s, s)
    BY SubStateOK DEF Still
  <1>1. Chains(w, {s}) /\ Chains(w, todo(s))
    <2> HIDE DEF w
    <2>1. QED
      BY <1>0, StillChains, StillTodo
  <1>2. CASE s.state = "Dead"
    BY <1>1, <1>2 DEF main_gone
  <1>3. CASE s.state = "Start"
    <2>1. w = "starting"
      BY <1>3 DEF sub_state
    <2>2. Chains(w, enter_signal(s, res)) /\ Chains(w, enter_running(s, res))
      BY <2>1, HaltChains
    <2>3. conf.type = "oneshot" => Chains(w, or_signal(res, s, enter_start_post(s)))
      <3>1. conf.type = "oneshot" => Ready(s)
        BY <1>3 DEF Tidy, Ready
      <3>2. QED
        BY <2>1, <2>2, <3>1, PostChains DEF or_signal
    <2>4. conf.type \in {"simple", "forking", "oneshot", "notify"}
      BY ConfTyped DEF Config
    <2>5. QED
      BY <1>3, <2>2, <2>3, <2>4 DEF main_gone
  <1>4. CASE s.state \in {"StartPost", "Reload"}
    <2>1. w \in {"starting", "reloading"}
      BY <1>4 DEF sub_state
    <2>2. Chains(w, enter_stop(s, res))
      BY <2>1, HaltChains
    <2>3. QED
      BY <1>1, <1>4, <2>2 DEF main_gone
  <1>5. CASE s.state = "Running"
    <2>1. w = "active"
      BY <1>5 DEF sub_state
    <2>2. Chains(w, enter_running(s, res))
      BY <2>1, HaltChains
    <2>3. QED
      BY <1>5, <2>2 DEF main_gone
  <1>6. CASE s.state = "StopSigterm"
    <2>1. w = "stopping"
      BY <1>6 DEF sub_state
    <2>2. Chains(w, enter_stop_post(s, res))
      BY <2>1, HaltChains
    <2>3. QED
      BY <1>6, <2>2 DEF main_gone
  <1>7. CASE s.state \notin {"Dead", "Start", "StartPost", "Reload", "Running", "StopSigterm"}
    BY <1>1, <1>7 DEF main_gone
  <1>8. QED
    BY <1>2, <1>3, <1>4, <1>5, <1>6, <1>7


LEMMA WithMainChanged ==
  ASSUME NEW s \in Going, NEW p \in Process
  PROVE  LET o == [s EXCEPT !.main = p] IN o \in Going /\ Still(s, o)
  <1> DEFINE o == [s EXCEPT !.main = p]
  <1>1. o \in Going
    BY DEF Going
  <1>2. o.path = s.path /\ o.state = s.state /\ o.timer = s.timer
    BY DEF Going
  <1>3. o.control_command = s.control_command
    BY DEF Going
  <1> HIDE DEF o
  <1>4. Still(s, o)
    BY <1>2, <1>3 DEF Still
  <1>5. QED
    BY <1>1, <1>4 DEF o

LEMMA StillResult ==
  ASSUME NEW s \in Going, NEW res \in ServiceResult
  PROVE  set_result(s, res) \in Going /\ Still(s, set_result(s, res))
  <1> DEFINE o == [s EXCEPT !.result = res]
  <1>1. o \in Going
    BY DEF Going
  <1>2. o.path = s.path /\ o.state = s.state /\ o.timer = s.timer
    BY DEF Going
  <1>3. o.control_command = s.control_command
    BY DEF Going
  <1>4. set_result(s, res) = IF s.result = "Success" THEN o ELSE s
    BY DEF set_result
  <1> HIDE DEF o
  <1>5. QED
    BY <1>1, <1>2, <1>3, <1>4 DEF Still

LEMMA StillCommand ==
  ASSUME NEW s \in Going, NEW n \in 0..2
  PROVE  [s EXCEPT !.main_command = n] \in Going /\ Still(s, [s EXCEPT !.main_command = n])
  <1> DEFINE o == [s EXCEPT !.main_command = n]
  <1>1. o \in Going
    BY DEF Going
  <1>2. o.path = s.path /\ o.state = s.state /\ o.timer = s.timer
    BY DEF Going
  <1>3. o.control_command = s.control_command
    BY DEF Going
  <1> HIDE DEF o
  <1>4. Still(s, o)
    BY <1>2, <1>3 DEF Still
  <1>5. QED
    BY <1>1, <1>4 DEF o

LEMMA MainExitChains ==
  ASSUME ConfOK, ~ Faults, NEW s \in Going, s.path = <<>>, Tidy(s), NEW res \in ExitResult
  PROVE  Chains(sub_state(s), sigchld_main(s, res))
  <1> DEFINE s0 == [s EXCEPT !.main = "none"]
             s1 == set_result(s0, res)
             next == [s1 EXCEPT !.main_command = @ - 1]
             s2 == [s1 EXCEPT !.main_command = 0]
             run == set_main(next)
             more == s1.main_command > 0 /\ res = "Success" /\ conf.type = "oneshot"
             w == sub_state(s)
  <1>0. res \in ServiceResult /\ "none" \in Process /\ w \in SubState
    BY Succeeds, SubStateOK DEF Process
  <1>1. sigchld_main(s, res) = load_pid_file_new(s) \cup
          IF more THEN spawned({run}, {next}) ELSE IF cgroup_good(s2) THEN {s2} ELSE main_gone(s2, res)
    BY DEF sigchld_main
  <1>2. s0 \in Going /\ Still(s, s0)
    BY <1>0, WithMainChanged
  <1> HIDE DEF s0
  <1>3. s1 \in Going /\ Still(s, s1)
    BY <1>0, <1>2, StillResult, StillStill
  <1> HIDE DEF s1
  <1>4. s2 \in Going /\ Still(s, s2)
    <2>1. 0 \in 0..2
      OBVIOUS
    <2>2. s2 \in Going /\ Still(s1, s2)
      BY <1>3, <2>1, StillCommand, Zenon
    <2> HIDE DEF s2
    <2>3. QED
      BY <1>3, <2>2, StillStill
  <1>5. ASSUME more
        PROVE  run \in Going /\ Still(s, run)
    <2> DEFINE n == s1.main_command - 1
    <2>1. n \in 0..2
      <3>1. s1.main_command \in 0..2
        BY <1>3 DEF Going
      <3>2. QED
        BY <1>5, <3>1
    <2>2. next = [s1 EXCEPT !.main_command = n]
      OBVIOUS
    <2> HIDE DEF n, next
    <2>3. next \in Going /\ Still(s1, next)
      BY <1>3, <2>1, <2>2, StillCommand, Zenon
    <2>4. QED
      BY <1>3, <2>3, StillMain, StillStill
  <1> HIDE DEF s2, next, run, more
  <1>6. Chains(w, load_pid_file_new(s))
    <2>1. \A o \in load_pid_file_new(s) : o \in Going /\ Still(s, o)
      BY StillAdopt DEF load_pid_file_new
    <2> HIDE DEF w
    <2>2. QED
      BY <1>0, <2>1, StillChains
  <1>7. Chains(w, {s2}) /\ Chains(w, main_gone(s2, res))
    <2>1. Chains(w, {s2})
      <3> HIDE DEF w
      <3>1. QED
        BY <1>0, <1>4, StillChains
    <2>2. sub_state(s2) = w /\ Tidy(s2) /\ s2.path = <<>>
      BY <1>4, StillTidy DEF Still
    <2>3. QED
      BY <1>0, <1>4, <2>1, <2>2, MainGoneChains
  <1>8. more => Chains(w, spawned({run}, {next}))
    <2>1. spawned({run}, {next}) = {run}
      BY DEF spawned
    <2> HIDE DEF w
    <2>2. QED
      BY <1>0, <1>5, <2>1, StillChains
  <1> HIDE DEF w
  <1>9. QED
    BY <1>1, <1>6, <1>7, <1>8 DEF Chains, w

-----------------------------------------------------------------------------
(* Handlers that report twice. *)

LastWords == {"starting", "active", "stopping", "dead", "failed", "autorestart"}
LEMMA LastWord ==
  ASSUME NEW p \in Posts
  PROVE  p[Len(p)] \in LastWords
  <1>1. p \in {<<"starting">>, <<"active">>, <<"stopping">>, <<"dead">>, <<"failed">>,
               <<"dead", "autorestart">>, <<"failed", "autorestart">>}
    BY DEF Posts, Runs, Halts, Ends, Restarting
  <1>2. ASSUME NEW a \in LastWords
        PROVE  <<a>>[Len(<<a>>)] = a
    OBVIOUS
  <1>3. ASSUME NEW a \in LastWords, NEW b \in LastWords
        PROVE  <<a, b>>[Len(<<a, b>>)] = b
    OBVIOUS
  <1>4. (\E a \in LastWords : p = <<a>>) \/ (\E a \in LastWords, b \in LastWords : p = <<a, b>>)
    BY <1>1, Zenon DEF LastWords
  <1>5. CASE \E a \in LastWords : p = <<a>>
    <2>1. PICK a \in LastWords : p = <<a>>
      BY <1>5
    <2>2. QED
      BY <1>2, <2>1
  <1>6. CASE \E a \in LastWords, b \in LastWords : p = <<a, b>>
    <2>1. PICK a \in LastWords, b \in LastWords : p = <<a, b>>
      BY <1>6
    <2>2. QED
      BY <1>3, <2>1
  <1>7. QED
    BY <1>4, <1>5, <1>6

LEMMA PidFileStray ==
  ASSUME conf.pidfile \/ conf.cmds.StartPost # 0
  PROVE  Stray
  BY DEF Stray, undisturbed

\* enter_start_post, called for a forking service that has a PID file.
LEMMA TwiceChains ==
  ASSUME ConfOK, ~ Faults, conf.pidfile, NEW s \in Going, s.path = <<>>, s.state = "Start", s.control_command = 0
  PROVE  Chains("starting", Then(enter_start_post(s), enter_start_post))
  <1> DEFINE S == enter_start_post(s)
  <1>1. "starting" \in SubState /\ Posts \subseteq paths("starting") /\ <<"starting">> \in Posts /\ Runs \subseteq Posts
    BY PathsOf, HaltWords DEF SubState, Posts
  <1>2. Ready(s) /\ Stray
    BY PidFileStray DEF Ready
  <1>3. ASSUME NEW y \in S
        PROVE  Chains("starting", enter_start_post(y))
    <2>1. y \in Going /\ Tidy(y) /\ Adds(s, S, Posts)
      BY <1>2, <1>3, StartPostAdds DEF Adds
    <2>2. Hushed(y, y) /\ Ready(y) /\ sub_state(y) \in SubState
      BY SubStateOK DEF Hushed, Kept, Ready
    <2>3. Adds(y, enter_start_post(y), Posts)
      BY <2>1, <2>2, StartPostAdds
    <2>4. CASE sub_state(y) \in {"starting", "stopping"}
      <3>1. Posts \subseteq paths(sub_state(y))
        BY <1>2, <2>2, <2>4, PathsOf
      <3> HIDE DEF S
      <3>2. QED
        BY <1>1, <1>3, <2>1, <2>2, <2>3, <3>1, AddsTwice
    <2>5. CASE sub_state(y) \notin {"starting", "stopping"}
      <3>1. PICK p \in Posts : sub_state(y) = p[Len(p)]
        BY <1>3, <2>1 DEF Adds, Ran
      <3>2. y.control_command = 0
        BY <2>1, <2>5, <3>1, LastWord DEF Tidy, LastWords
      <3>3. conf.cmds.StartPost = 0
        <4>1. ASSUME conf.cmds.StartPost # 0
              PROVE  FALSE
          <5>1. Adds(s, S, {<<"starting">>})
            BY <1>2, <4>1, StartPostAdds
          <5>2. sub_state(y) = <<"starting">>[Len(<<"starting">>)]
            BY <1>3, <5>1 DEF Adds, Ran
          <5>3. QED
            BY <2>5, <5>2
        <4>2. QED
          BY <4>1
      <3>4. Adds(y, enter_start_post(y), Runs)
        BY <2>1, <2>2, <3>2, <3>3, StartPostAdds
      <3>5. Runs \subseteq paths(sub_state(y))
        BY <1>2, <2>2, PathsOf
      <3> HIDE DEF S
      <3>6. QED
        BY <1>1, <1>3, <2>1, <2>2, <3>4, <3>5, AddsTwice
    <2>6. QED
      BY <2>4, <2>5
  <1>4. \A o \in Then(S, enter_start_post) : \E y \in S : o \in enter_start_post(y)
    BY DEF Then
  <1> HIDE DEF S
  <1>5. QED
    BY <1>3, <1>4 DEF Chains, S

LEMMA RetryAdds ==
  ASSUME ConfOK, ~ Faults, NEW s \in Going
  PROVE  /\ Adds(s, retry_pid_file(s), Runs)
         /\ s.main \notin ExitResult \/ cgroup_good(s) => \A o \in retry_pid_file(s) : cgroup_good(o)
  <1> DEFINE off(x) == [x EXCEPT !.inotify = FALSE]
  <1>1. \A o \in retry_pid_file(s) : \E x \in load_pid_file_ok(s) : o \in enter_running(off(x), "Success")
    BY DEF retry_pid_file, Then
  <1>2. ASSUME NEW x \in load_pid_file_ok(s)
        PROVE  /\ Adds(s, enter_running(off(x), "Success"), Runs)
               /\ s.main \notin ExitResult \/ cgroup_good(s) => \A o \in enter_running(off(x), "Success") : cgroup_good(o)
    <2>1. x \in Going /\ Hushed(s, x) /\ x.main # "none" /\ (x.main = "alive" \/ x.main = s.main)
      BY StillLoad
    <2>2. off(x) \in Going /\ Hushed(x, off(x)) /\ off(x).main = x.main
      BY <2>1, StillInotify
    <2> HIDE DEF off
    <2>3. Adds(off(x), enter_running(off(x), "Success"), Runs)
      BY <2>2, RunningAdds, Succeeds
    <2>4. Hushed(s, off(x))
      BY <2>1, <2>2 DEF Hushed, Kept
    <2>5. ASSUME s.main \notin ExitResult \/ cgroup_good(s)
          PROVE  cgroup_good(off(x))
      <3>1. CASE cgroup_good(s)
        BY <2>4, <3>1 DEF Hushed, Kept
      <3>2. CASE s.main \notin ExitResult
        <4>1. s.main \in Process
          BY DEF Going
        <4>2. x.main = "alive"
          BY <2>1, <3>2, <4>1 DEF Process
        <4>3. QED
          BY <2>2, <4>2 DEF cgroup_good, alive
      <3>3. QED
        BY <2>5, <3>1, <3>2
    <2>6. QED
      BY <2>3, <2>4, <2>5, AddsFrom DEF Adds, Kept
  <1> HIDE DEF off
  <1>3. QED
    BY <1>1, <1>2 DEF Adds

\* The PID file is watched, and may be found at once; if nothing runs the service is ended.
LEMMA WatchChains ==
  ASSUME ConfOK, ~ Faults, conf.pidfile, NEW s \in Going, s.path = <<>>, Tidy(s), sub_state(s) = "starting",
         NEW x \in watch_pid_file(s)
  PROVE  /\ Chains("starting", {x}) /\ Chains("starting", enter_signal(x, "FailureProtocol"))
         /\ Chains("starting", enter_stop(x, "FailureProtocol"))
  <1> DEFINE w == [s EXCEPT !.inotify = TRUE]
  <1>1. w \in Going /\ Still(s, w) /\ Hushed(s, w)
    BY StillInotify
  <1>2. x = w \/ x \in retry_pid_file(w)
    BY DEF watch_pid_file
  <1> HIDE DEF w
  <1>3. "starting" \in SubState /\ Runs \subseteq paths("starting") /\ Runs \subseteq Posts /\ Halts \subseteq Runs
    BY PathsOf, HaltWords DEF SubState
  <1>4. Stray /\ "FailureProtocol" \in ServiceResult
    BY PidFileStray DEF ServiceResult
  <1>5. CASE x = w
    <2>1. sub_state(w) = "starting" /\ w.path = <<>>
      BY <1>1, StillTidy DEF Still
    <2>2. Chains("starting", {w})
      BY <1>1, <1>3, StillChains
    <2>3. QED
      BY <1>1, <1>4, <1>5, <2>1, <2>2, HaltChains
  <1>6. CASE x \in retry_pid_file(w)
    <2>1. Adds(s, retry_pid_file(w), Runs)
      BY <1>1, RetryAdds, AddsFrom
    <2>2. Chains("starting", retry_pid_file(w))
      BY <1>3, <2>1, AddsChains
    <2>3. x \in Going /\ Hushed(x, x) /\ sub_state(x) \in SubState
      BY <1>6, <2>1, SubStateOK DEF Adds, Hushed, Kept
    <2>4. Halts \subseteq paths(sub_state(x)) /\ Halts \subseteq Posts
      BY <1>3, <1>4, <2>3, PathsOf
    <2>5. Adds(x, enter_signal(x, "FailureProtocol"), Halts) /\ Adds(x, enter_stop(x, "FailureProtocol"), Halts)
      BY <1>4, <2>3, SignalAdds, StopAdds
    <2>6. QED
      BY <1>3, <1>6, <2>1, <2>2, <2>3, <2>4, <2>5, AddsTwice DEF Chains
  <1>7. QED
    BY <1>2, <1>5, <1>6

LEMMA ForkedChains ==
  ASSUME ConfOK, ~ Faults, NEW s \in Going, s.path = <<>>, Tidy(s), s.state = "Start", s.control_command = 0
  PROVE  Chains("starting", forked(s))
  <1> DEFINE twice(x) == Then(enter_start_post(x), enter_start_post)
             no_protocol(x) == enter_signal(x, "FailureProtocol")
             loaded == Then(load_pid_file_ok(s), twice)
             watch == Then(watch_pid_file(s), LAMBDA x : IF cgroup_good(x) THEN {x} ELSE no_protocol(x))
             failed == Then(watch_fails(s), no_protocol)
  <1>1. sub_state(s) = "starting" /\ Ready(s)
    BY DEF sub_state, Ready
  <1>2. conf.pidfile => Chains("starting", loaded)
    <2> SUFFICES ASSUME conf.pidfile
                 PROVE  Chains("starting", loaded)
      OBVIOUS
    <2>1. \A o \in loaded : \E x \in load_pid_file_ok(s) : o \in twice(x)
      BY DEF Then
    <2> HIDE DEF loaded
    <2>2. ASSUME NEW x \in load_pid_file_ok(s)
          PROVE  Chains("starting", twice(x))
      <3>1. x \in Going /\ x.path = <<>> /\ x.state = "Start" /\ x.control_command = 0
        BY StillLoad DEF Still
      <3>2. QED
        BY <3>1, TwiceChains
    <2> HIDE DEF twice
    <2>3. QED
      BY <2>1, <2>2 DEF Chains
  <1>3. conf.pidfile => Chains("starting", watch)
    <2> SUFFICES ASSUME conf.pidfile
                 PROVE  Chains("starting", watch)
      OBVIOUS
    <2>1. \A o \in watch : \E x \in watch_pid_file(s) : o = x \/ o \in no_protocol(x)
      BY DEF Then
    <2> HIDE DEF watch
    <2>2. \A x \in watch_pid_file(s) : Chains("starting", {x}) /\ Chains("starting", no_protocol(x))
      BY <1>1, WatchChains
    <2> HIDE DEF no_protocol
    <2>3. QED
      BY <2>1, <2>2 DEF Chains
  <1>4. failed = {}
    BY DEF Then, watch_fails
  <1>5. ~ conf.pidfile => forked(s) = enter_start_post(s)
    BY DEF forked, guess_main_pid, Then
  <1>6. conf.pidfile => forked(s) = loaded \cup (IF conf.cmds.StartPost > 0 THEN twice(s) ELSE watch \cup failed)
    BY DEF forked
  <1>7. Chains("starting", enter_start_post(s)) /\ (conf.pidfile => Chains("starting", twice(s)))
    BY <1>1, PostChains, TwiceChains
  <1> HIDE DEF twice, no_protocol, loaded, watch, failed
  <1>8. CASE conf.pidfile
    BY <1>2, <1>3, <1>4, <1>6, <1>7, <1>8 DEF Chains
  <1>9. CASE ~ conf.pidfile
    BY <1>5, <1>7, <1>9
  <1>10. QED
    BY <1>8, <1>9


\* Nothing of the service that has ended is left to end a second time.
LEMMA SignalSettles ==
  ASSUME ConfOK, ~ Faults, NEW s \in Going, NEW res, NEW o \in enter_signal(s, res)
  PROVE  o.main = "none" \/ o.control = "alive"
  <1> DEFINE s1 == set_result(s, "Success")
             none == enter_signal_final(s1)
             t == popped(s1, "StopPost")
             c == set_control(t)
  <1>1. s1 \in Going
    BY SetResult, Succeeds
  <1>2. o \in run_control(s1, "StopPost", "StopPost", none, enter_signal_final(t))
    BY DEF enter_signal, enter_stop_post
  <1> HIDE DEF s1
  <1>3. CASE control_command_fill(s1, "StopPost").control_command = 0
    <2>1. o \in enter_dead(s1, "Success", TRUE)
      BY <1>2, <1>3 DEF run_control, enter_signal_final
    <2>2. QED
      BY <1>1, <2>1, DeadAdds, Succeeds
  <1>4. CASE control_command_fill(s1, "StopPost").control_command # 0
    <2>1. "StopPost" \in ServiceCommand /\ "StopPost" \in ServiceState /\ "StopPost" \in KeepControl
      BY DEF ServiceCommand, ServiceState, KeepControl, Stopping
    <2>2. t \in Going
      BY <1>1, <1>4, <2>1, Popped
    <2>3. o = set_state(c, "StopPost")
      BY <1>2, <1>4 DEF run_control, spawned
    <2> HIDE DEF t
    <2>4. c \in Going /\ c.control = "alive"
      BY <2>2, SetControl
    <2> HIDE DEF c
    <2>5. QED
      BY <2>1, <2>3, <2>4, SetState
  <1>5. QED
    BY <1>3, <1>4

\* The start is over, after the commands of StartPost.
LEMMA PostedChains ==
  ASSUME ConfOK, ~ Faults, NEW s \in Going, s.path = <<>>, Tidy(s), sub_state(s) = "starting"
  PROVE  Chains("starting", start_posted(s))
  <1> DEFINE run(x) == enter_running(x, "Success")
             stop(x) == enter_stop(x, "FailureProtocol")
             loaded == Then(load_pid_file_ok(s), run)
             watch == Then(watch_pid_file(s), LAMBDA x : IF cgroup_good(x) THEN {x} ELSE stop(x))
             failed == Then(watch_fails(s), LAMBDA x : enter_signal(x, "FailureProtocol"))
  <1>1. Chains("starting", run(s))
    BY HaltChains, Succeeds
  <1>2. Chains("starting", loaded)
    <2>1. \A o \in loaded : \E x \in load_pid_file_ok(s) : o \in run(x)
      BY DEF Then
    <2> HIDE DEF loaded
    <2>2. ASSUME NEW x \in load_pid_file_ok(s)
          PROVE  Chains("starting", run(x))
      <3>1. x \in Going /\ x.path = <<>> /\ sub_state(x) = "starting"
        BY StillLoad, StillTidy DEF Still
      <3>2. QED
        BY <3>1, HaltChains, Succeeds
    <2> HIDE DEF run
    <2>3. QED
      BY <2>1, <2>2 DEF Chains
  <1>3. conf.pidfile => Chains("starting", watch)
    <2> SUFFICES ASSUME conf.pidfile
                 PROVE  Chains("starting", watch)
      OBVIOUS
    <2>1. \A o \in watch : \E x \in watch_pid_file(s) : o = x \/ o \in stop(x)
      BY DEF Then
    <2> HIDE DEF watch
    <2>2. \A x \in watch_pid_file(s) : Chains("starting", {x}) /\ Chains("starting", stop(x))
      BY WatchChains
    <2> HIDE DEF stop
    <2>3. QED
      BY <2>1, <2>2 DEF Chains
  <1>4. failed = {}
    BY DEF Then, watch_fails
  <1>5. ~ conf.pidfile => start_posted(s) = run(s)
    BY DEF start_posted, guess_main_pid, Then
  <1>6. conf.pidfile => start_posted(s) = loaded \cup watch \cup failed
    BY DEF start_posted
  <1> HIDE DEF run, stop, loaded, watch, failed
  <1>7. CASE conf.pidfile
    BY <1>2, <1>3, <1>4, <1>6, <1>7 DEF Chains
  <1>8. CASE ~ conf.pidfile
    BY <1>1, <1>5, <1>8
  <1>9. QED
    BY <1>7, <1>8

\* The same after the service was signalled: it reports at most once more.
LEMMA PostedOnce ==
  ASSUME ConfOK, ~ Faults, NEW s \in Going, s.main = "none" \/ s.control = "alive", NEW o \in start_posted(s)
  PROVE  o \in Going /\ (Still(s, o) \/ Adds(s, {o}, Runs))
  <1> DEFINE run(x) == enter_running(x, "Success")
             stop(x) == enter_stop(x, "FailureProtocol")
             w == [s EXCEPT !.inotify = TRUE]
  <1>1. \/ o \in run(s)
        \/ \E x \in load_pid_file_ok(s) : o \in run(x)
        \/ \E x \in watch_pid_file(s) : IF cgroup_good(x) THEN o = x ELSE o \in stop(x)
    <2>1. CASE ~ conf.pidfile
      BY <2>1 DEF start_posted, guess_main_pid, Then
    <2>2. CASE conf.pidfile
      BY <2>2 DEF start_posted, watch_fails, Then
    <2>3. QED
      BY <2>1, <2>2
  <1>2. ASSUME NEW x \in Going, Hushed(s, x), o \in run(x) \/ o \in stop(x)
        PROVE  o \in Going /\ Adds(s, {o}, Runs)
    <2>1. "FailureProtocol" \in ServiceResult /\ Halts \subseteq Runs
      BY HaltWords DEF ServiceResult
    <2>2. Adds(x, run(x), Runs) /\ Adds(x, stop(x), Runs)
      BY <1>2, <2>1, RunningAdds, StopAdds, Succeeds, AddsMore
    <2> HIDE DEF run, stop
    <2>3. Adds(x, {o}, Runs)
      BY <1>2, <2>2 DEF Adds
    <2>4. Adds(s, {o}, Runs)
      BY <1>2, <2>3, AddsFrom
    <2>5. QED
      BY <2>4 DEF Adds
  <1>3. Hushed(s, s)
    BY DEF Hushed, Kept
  <1>4. ASSUME NEW x \in watch_pid_file(s), IF cgroup_good(x) THEN o = x ELSE o \in stop(x)
        PROVE  o \in Going /\ (Still(s, o) \/ Adds(s, {o}, Runs))
    <2>1. w \in Going /\ Still(s, w) /\ Hushed(s, w) /\ w.main = s.main
      BY StillInotify
    <2>2. x = w \/ x \in retry_pid_file(w)
      BY <1>4 DEF watch_pid_file
    <2>3. w.main \notin ExitResult \/ cgroup_good(w)
      <3>1. CASE s.main = "none"
        BY <2>1, <3>1 DEF ExitResult
      <3>2. CASE s.control = "alive"
        BY <2>1, <3>2 DEF Hushed, Kept, cgroup_good, alive
      <3>3. QED
        BY <3>1, <3>2
    <2> HIDE DEF w, run, stop
    <2>4. CASE x = w
      BY <1>2, <1>4, <2>1, <2>4
    <2>5. CASE x \in retry_pid_file(w)
      <3>1. cgroup_good(x)
        BY <2>1, <2>3, <2>5, RetryAdds
      <3>2. Adds(s, retry_pid_file(w), Runs)
        BY <2>1, RetryAdds, AddsFrom
      <3>3. QED
        BY <1>4, <2>5, <3>1, <3>2 DEF Adds
    <2>6. QED
      BY <2>2, <2>4, <2>5
  <1>5. \A x \in load_pid_file_ok(s) : x \in Going /\ Hushed(s, x)
    BY StillLoad
  <1> HIDE DEF run, stop
  <1>6. QED
    BY <1>1, <1>2, <1>3, <1>4, <1>5

LEMMA PostFailedChains ==
  ASSUME ConfOK, ~ Faults, NEW s \in Going, s.path = <<>>, sub_state(s) = "starting", Stray, NEW res
  PROVE  Chains("starting", Then(enter_signal(s, res), start_posted))
  <1> DEFINE S == enter_signal(s, res)
  <1>1. "starting" \in SubState /\ Halts \subseteq paths("starting") /\ Halts \subseteq Posts /\ Runs \subseteq Posts
    BY PathsOf, HaltWords DEF SubState
  <1>2. Adds(s, S, Halts)
    BY SignalAdds
  <1>3. Chains("starting", S)
    BY <1>1, <1>2, AddsChains
  <1>4. \A o \in Then(S, start_posted) : \E y \in S : o \in start_posted(y)
    BY DEF Then
  <1>5. ASSUME NEW y \in S
        PROVE  y.main = "none" \/ y.control = "alive"
    BY <1>5, SignalSettles
  <1> HIDE DEF S
  <1>6. ASSUME NEW y \in S, NEW o \in start_posted(y)
        PROVE  Chains("starting", {o})
    <2>1. y \in Going /\ Tidy(y) /\ chained("starting", y.path)
      BY <1>3, <1>6 DEF Chains
    <2>2. o \in Going /\ (Still(y, o) \/ Adds(y, {o}, Runs))
      BY <1>5, <1>6, <2>1, PostedOnce
    <2>3. CASE Still(y, o)
      BY <2>1, <2>2, <2>3, StillTidy DEF Chains, Still
    <2>4. CASE Adds(y, {o}, Runs)
      <3>1. sub_state(y) \in SubState /\ Hushed(y, y)
        BY SubStateOK DEF Hushed, Kept
      <3>2. Runs \subseteq paths(sub_state(y))
        BY <3>1, PathsOf
      <3>3. QED
        BY <1>1, <1>2, <1>6, <2>4, <3>1, <3>2, AddsTwice
    <2>5. QED
      BY <2>2, <2>3, <2>4
  <1>7. QED
    BY <1>4, <1>6 DEF Chains, S


LEMMA StillControl ==
  ASSUME NEW s \in Going, NEW p \in Process
  PROVE  LET o == [s EXCEPT !.control = p] IN o \in Going /\ Still(s, o) /\ o.control_command = s.control_command
  <1> DEFINE o == [s EXCEPT !.control = p]
  <1>1. o \in Going
    BY DEF Going
  <1>2. o.path = s.path /\ o.state = s.state /\ o.timer = s.timer
    BY DEF Going
  <1>3. o.control_command = s.control_command
    BY DEF Going
  <1> HIDE DEF o
  <1>4. Still(s, o)
    BY <1>2, <1>3 DEF Still
  <1>5. QED
    BY <1>1, <1>3, <1>4 DEF o

LEMMA StillClear ==
  ASSUME NEW s \in Going
  PROVE  clear_control(s) \in Going /\ Still(s, clear_control(s)) /\ clear_control(s).control_command = 0
  <1> DEFINE o == [s EXCEPT !.control_command = 0]
  <1>1. o \in Going
    BY DEF Going
  <1>2. o.path = s.path /\ o.state = s.state /\ o.timer = s.timer
    BY DEF Going
  <1>3. o.control_command = 0
    BY DEF Going
  <1>4. clear_control(s) = o
    BY DEF clear_control
  <1> HIDE DEF o
  <1>5. QED
    BY <1>1, <1>2, <1>3, <1>4 DEF Still

\* The next command of a queue is run.
LEMMA StillNext ==
  ASSUME NEW s \in Going, s.control_command > 0
  PROVE  set_control(pop_control(s)) \in Going /\ Still(s, set_control(pop_control(s)))
  <1> DEFINE n == s.control_command - 1
             t == [s EXCEPT !.control_command = n]
             c == unwatch_control(t)
             o == [c EXCEPT !.control = "alive"]
  <1>1. n \in 0..2 /\ s.control_command # 0
    <2>1. s.control_command \in 0..2
      BY DEF Going
    <2>2. QED
      BY <2>1
  <1>2. set_control(pop_control(s)) = o
    BY DEF set_control, pop_control
  <1> HIDE DEF n
  <1>3. t \in Going
    BY <1>1 DEF Going
  <1>4. t.path = s.path /\ t.state = s.state /\ t.timer = s.timer
    BY DEF Going
  <1> HIDE DEF t
  <1>5. c \in Going /\ c.state = t.state
    BY <1>3, UnwatchControl
  <1>6. c.path = t.path /\ c.timer = t.timer
    BY <1>3 DEF Going, unwatch_control
  <1> HIDE DEF c
  <1>7. o \in Going /\ o.state = c.state
    BY <1>5 DEF Going, Process
  <1>8. o.path = c.path /\ o.timer = c.timer
    BY <1>5 DEF Going
  <1> HIDE DEF o
  <1>9. QED
    BY <1>1, <1>2, <1>4, <1>5, <1>6, <1>7, <1>8 DEF Still

LEMMA ControlExitChains ==
  ASSUME ConfOK, ~ Faults, NEW s \in Going, s.path = <<>>, Tidy(s), NEW res \in ExitResult
  PROVE  Chains(sub_state(s), sigchld_control(s, res))
  <1> DEFINE s1 == [s EXCEPT !.control = "none"]
             s2 == clear_control(s1)
             pop == pop_control(s1)
             run == set_control(pop)
             w == sub_state(s)
             begun == IF res = "Success" THEN {s2} ELSE enter_signal(s2, res)
             posted == Then(begun, start_posted)
             next == CASE s.state = "Condition"   -> or_signal(res, s2, enter_prestart(s2))
                       [] s.state = "StartPre"    -> or_signal(res, s2, enter_start(s2))
                       [] s.state = "Start" /\ conf.type = "forking" -> or_signal(res, s2, forked(s2))
                       [] s.state = "StartPost"   -> posted
                       [] s.state = "Running"     -> todo(s2)
                       [] s.state = "Reload"      -> enter_running(s2, res)
                       [] s.state = "Stop"        -> enter_signal(s2, res)
                       [] s.state = "StopSigterm" -> enter_stop_post(s2, res)
                       [] s.state = "StopPost"    -> enter_signal_final(s2)
                       [] OTHER -> {s2}
  <1>0. res \in ServiceResult /\ "none" \in Process /\ w \in SubState
    BY Succeeds, SubStateOK DEF Process
  <1>1. sigchld_control(s, res) = IF s1.control_command > 0 /\ res = "Success" THEN spawned({run}, {pop}) ELSE next
    BY DEF sigchld_control
  <1>2. s1 \in Going /\ Still(s, s1) /\ s1.control_command = s.control_command
    BY <1>0, StillControl
  <1> HIDE DEF s1
  <1>3. s2 \in Going /\ Still(s, s2) /\ s2.control_command = 0
    BY <1>2, StillClear, StillStill
  <1> HIDE DEF s2
  <1>4. s1.control_command > 0 => Chains(w, spawned({run}, {pop}))
    <2> SUFFICES ASSUME s1.control_command > 0
                 PROVE  Chains(w, spawned({run}, {pop}))
      OBVIOUS
    <2>1. run \in Going /\ Still(s, run)
      BY <1>2, StillNext, StillStill
    <2>2. spawned({run}, {pop}) = {run}
      BY DEF spawned
    <2> HIDE DEF w, run, pop
    <2>3. QED
      BY <1>0, <2>1, <2>2, StillChains
  <1>5. sub_state(s2) = w /\ Tidy(s2) /\ s2.path = <<>> /\ s2.state = s.state
    BY <1>3, StillTidy DEF Still
  <1> HIDE DEF run, pop
  <1>6. CASE s.state \in {"Condition", "StartPre"} \/ (s.state = "Start" /\ conf.type = "forking")
    <2>1. w = "starting"
      BY <1>6 DEF sub_state
    <2>2. Chains(w, enter_signal(s2, res))
      BY <1>0, <1>3, <1>5, <2>1, HaltChains
    <2>3. Chains(w, enter_prestart(s2)) /\ Chains(w, enter_start(s2))
      BY <1>3, <1>5, <2>1, PrestartAdds, StartAdds, StartChains
    <2>4. s.state = "Start" => Chains(w, forked(s2))
      BY <1>3, <1>5, <2>1, ForkedChains
    <2> HIDE DEF w, begun, posted
    <2>5. Chains(w, next)
      BY <1>6, <2>2, <2>3, <2>4 DEF or_signal
    <2>6. QED
      BY <1>1, <1>4, <2>5 DEF w
  <1>7. CASE s.state = "StartPost"
    <2>1. w = "starting"
      BY <1>7 DEF sub_state
    <2>2. Stray
      BY <1>7, PidFileStray DEF Tidy
    <2>3. ASSUME res = "Success"
          PROVE  Chains(w, posted)
      <3>1. posted = start_posted(s2)
        BY <2>3 DEF Then
      <3>2. QED
        BY <1>3, <1>5, <2>1, <3>1, PostedChains
    <2>4. ASSUME res # "Success"
          PROVE  Chains(w, posted)
      <3>1. posted = Then(enter_signal(s2, res), start_posted)
        BY <2>4
      <3>2. QED
        BY <1>3, <1>5, <2>1, <2>2, <3>1, PostFailedChains
    <2>5. Chains(w, posted)
      BY <2>3, <2>4
    <2> HIDE DEF w, begun, posted
    <2>6. next = posted
      BY <1>7
    <2>7. QED
      BY <1>1, <1>4, <2>5, <2>6 DEF w
  <1>8. CASE s.state \in {"Reload", "Stop", "StopSigterm", "StopPost"}
    <2>1. w \in {"reloading", "stopping"} /\ (s.state = "Reload" => w = "reloading")
      BY <1>8 DEF sub_state
    <2>2. /\ Chains(w, enter_signal(s2, res)) /\ Chains(w, enter_stop_post(s2, res)) /\ Chains(w, enter_signal_final(s2))
          /\ w = "reloading" => Chains(w, enter_running(s2, res))
      BY <1>0, <1>3, <1>5, <2>1, HaltChains
    <2> HIDE DEF w, begun, posted
    <2>3. Chains(w, next)
      BY <1>8, <2>1, <2>2
    <2>4. QED
      BY <1>1, <1>4, <2>3 DEF w
  <1>9. CASE s.state \notin {"Condition", "StartPre", "StartPost", "Reload", "Stop", "StopSigterm", "StopPost"}
             /\ ~ (s.state = "Start" /\ conf.type = "forking")
    <2> HIDE DEF w, begun, posted
    <2>1. Chains(w, {s2}) /\ Chains(w, todo(s2))
      <3>1. Still(s2, s2)
        BY DEF Still
      <3>2. QED
        BY <1>0, <1>3, <1>5, <3>1, StillTodo, StillChains
    <2>2. Chains(w, next)
      BY <1>9, <2>1
    <2>3. QED
      BY <1>1, <1>4, <2>2 DEF w
  <1>10. QED
    BY <1>6, <1>7, <1>8, <1>9


\* do_notify_message
LEMMA StillOther ==
  ASSUME ConfOK, NEW s \in Going, NEW n \in {"Ready", "Stopping"}, NEW v \in {"on", "off"}
  PROVE  /\ LET o == [s EXCEPT !.notify_state = n] IN o \in Going /\ Still(s, o)
         /\ LET o == [s EXCEPT !.override = v] IN o \in Going /\ Still(s, o)
         /\ restart_watchdog(s) \in Going /\ Still(s, restart_watchdog(s))
  <1> DEFINE a == [s EXCEPT !.notify_state = n]
             b == [s EXCEPT !.override = v]
  <1>1. a \in Going /\ a.control_command = s.control_command
    BY DEF Going
  <1>2. a.path = s.path /\ a.state = s.state /\ a.timer = s.timer
    BY DEF Going
  <1>3. b \in Going /\ b.control_command = s.control_command
    BY DEF Going
  <1>4. b.path = s.path /\ b.state = s.state /\ b.timer = s.timer
    BY DEF Going
  <1>5. restart_watchdog(s) \in Going
    BY RestartWatchdog
  <1> HIDE DEF a, b
  <1>6. Still(s, a) /\ Still(s, b) /\ Still(s, restart_watchdog(s))
    BY <1>1, <1>2, <1>3, <1>4, HushWatchdog DEF Still, Hushed
  <1>7. QED
    BY <1>1, <1>3, <1>5, <1>6 DEF a, b

LEMMA NotifyChains ==
  ASSUME ConfOK, ~ Faults, NEW s \in Going, s.path = <<>>, Tidy(s), NEW msg \in Message, msg \in conf.messages
  PROVE  Chains(sub_state(s), do_notify_message(s, msg))
  <1> DEFINE w == sub_state(s)
  <1>0. w \in SubState /\ Still(s, s)
    BY SubStateOK DEF Still
  <1>1. ASSUME NEW S, \A o \in S : o \in Going /\ Still(s, o)
        PROVE  Chains(w, S)
    <2> HIDE DEF w
    <2>1. QED
      BY <1>0, <1>1, StillChains
  <1>2. CASE msg = "MAINPID"
    <2>1. \A o \in do_notify_message(s, msg) : o = s \/ o \in adopt(s)
      BY <1>2 DEF do_notify_message
    <2>2. \A o \in do_notify_message(s, msg) : o \in Going /\ Still(s, o)
      BY <1>0, <2>1, StillAdopt
    <2>3. QED
      BY <1>1, <2>2
  <1>3. CASE msg = "READY"
    <2> DEFINE r == [s EXCEPT !.notify_state = "Ready"]
    <2>1. do_notify_message(s, msg) = IF conf.type = "notify" /\ s.state = "Start" THEN enter_start_post(r) ELSE {r}
      BY <1>3 DEF do_notify_message
    <2>2. r \in Going /\ Still(s, r)
      BY StillOther
    <2> HIDE DEF r
    <2>3. Chains(w, {r})
      BY <1>1, <2>2
    <2>4. ASSUME conf.type = "notify", s.state = "Start"
          PROVE  Chains(w, enter_start_post(r))
      <3>1. w = "starting" /\ sub_state(r) = "starting" /\ Tidy(r) /\ r.path = <<>> /\ r.state = "Start"
        BY <2>2, <2>4, StillTidy DEF Still, sub_state
      <3>2. Ready(r)
        BY <2>4, <3>1 DEF Tidy, Ready
      <3>3. QED
        BY <2>2, <3>1, <3>2, PostChains
    <2>5. QED
      BY <2>1, <2>3, <2>4
  <1>4. CASE msg = "STOPPING"
    <2> DEFINE r == [s EXCEPT !.notify_state = "Stopping"]
               o == set_state(r, "StopSigterm")
    <2>1. do_notify_message(s, msg) = {IF s.state = "Running" THEN o ELSE r}
      BY <1>4 DEF do_notify_message
    <2>2. r \in Going /\ Still(s, r)
      BY StillOther
    <2> HIDE DEF r
    <2>3. Chains(w, {r})
      BY <1>1, <2>2
    <2>4. ASSUME s.state = "Running"
          PROVE  Chains(w, {o})
      <3>1. "StopSigterm" \in ServiceState /\ w = "active" /\ r.path = <<>>
        BY <2>2, <2>4 DEF ServiceState, sub_state, Still
      <3>2. o.state = "StopSigterm"
        BY <2>2, <3>1, SetState
      <3>3. <<sub_state(o)>> \in Halts
        BY <3>2 DEF sub_state, Halts
      <3>4. Adds(r, {o}, Halts)
        BY <2>2, <3>1, <3>3, StateAdds
      <3>5. Halts \subseteq Posts /\ Halts \subseteq paths(w)
        BY <1>0, <3>1, PathsOf, HaltWords
      <3> HIDE DEF w, o
      <3>6. QED
        BY <1>0, <3>1, <3>4, <3>5, AddsChains
    <2> HIDE DEF o
    <2>5. QED
      BY <2>1, <2>3, <2>4
  <1>5. CASE msg = "WATCHDOG=1"
    <2>1. do_notify_message(s, msg) = {restart_watchdog(s)}
      BY <1>5 DEF do_notify_message
    <2>2. QED
      BY <1>1, <2>1, StillOther
  <1>6. CASE msg = "WATCHDOG=trigger"
    <2>1. do_notify_message(s, msg) = enter_signal(s, "FailureWatchdog")
      BY <1>6 DEF do_notify_message
    <2>2. Stray
      BY <1>6 DEF Stray, undisturbed
    <2>3. Adds(s, enter_signal(s, "FailureWatchdog"), Halts)
      BY SignalAdds
    <2>4. Halts \subseteq Posts /\ Halts \subseteq paths(w)
      BY <1>0, <2>2, PathsOf, HaltWords
    <2> HIDE DEF w
    <2>5. Chains(w, enter_signal(s, "FailureWatchdog"))
      BY <1>0, <2>3, <2>4, AddsChains
    <2>6. QED
      BY <2>1, <2>5 DEF w
  <1>7. CASE msg \in {"WATCHDOG_USEC=0", "WATCHDOG_USEC=1"}
    <2> DEFINE v == IF msg = "WATCHDOG_USEC=0" THEN "off" ELSE "on"
               t == [s EXCEPT !.override = v]
    <2>1. do_notify_message(s, msg) = {restart_watchdog(t)} /\ v \in {"on", "off"}
      BY <1>7 DEF do_notify_message
    <2> HIDE DEF v
    <2>2. t \in Going /\ Still(s, t)
      BY <2>1, StillOther
    <2> HIDE DEF t
    <2>3. restart_watchdog(t) \in Going /\ Still(s, restart_watchdog(t))
      BY <2>2, StillOther, StillStill
    <2>4. QED
      BY <1>1, <2>1, <2>3
  <1>8. QED
    BY <1>2, <1>3, <1>4, <1>5, <1>6, <1>7 DEF Message

-----------------------------------------------------------------------------
(* What the engine sees of a step. *)

LEMMA ShownTidy ==
  ASSUME NEW call, NEW err, NEW outcomes, NEW db_update \in BOOLEAN, Handler(call, err, outcomes, db_update),
         \A o \in outcomes : o \in Going /\ Tidy(o)
  PROVE  /\ Tidy(m)'
         /\ \E o \in outcomes : did'.path = o.path /\ did'.call = call /\ did'.err = err
  <1> DEFINE st(s) == IF db_update THEN s.control_command ELSE s.stored
  <1>1. PICK s \in outcomes : m' = [s EXCEPT !.path = <<>>, !.stored = st(s)] /\ did' = shown(call, err, s.path)
    BY DEF Handler
  <1>2. conf' = conf
    BY DEF Handler
  <1>3. s \in Going /\ Tidy(s)
    OBVIOUS
  <1> HIDE DEF st
  <1>4. m'.state = s.state /\ m'.control_command = s.control_command /\ m'.timer = s.timer
    BY <1>1, <1>3 DEF Going
  <1>5. sub_state(m') = sub_state(s)
    BY <1>4 DEF sub_state
  <1>6. Tidy(m)'
    BY <1>2, <1>3, <1>4, <1>5 DEF Tidy
  <1>7. QED
    BY <1>1, <1>6 DEF shown

LEMMA ReportExpected ==
  ASSUME NEW call, call \notin {"start", "stop", "reload"}, NEW err, NEW outcomes, NEW db_update \in BOOLEAN,
         Handler(call, err, outcomes, db_update), Chains(sub_state(m), outcomes)
  PROVE  Tidy(m)' /\ Expected
  <1>1. /\ Tidy(m)'
        /\ \E o \in outcomes : did'.path = o.path /\ did'.call = call /\ did'.err = err
    BY ShownTidy DEF Chains
  <1>2. did'.call = call /\ chained(sub_state(m), did'.path)
    BY <1>1 DEF Chains
  <1>3. QED
    BY <1>1, <1>2 DEF Expected

LEMMA SeenOne ==
  ASSUME NEW a \in SubState
  PROVE  seen(<<a>>) = <<a>>
  <1> DEFINE p == <<a>>
  <1>1. p # <<>> /\ p[1] = a /\ p[Len(p)] = a
    OBVIOUS
  <1> HIDE DEF p
  <1>2. seen(p) = <<a>>
    BY <1>1 DEF seen
  <1>3. QED
    BY <1>2 DEF p

LEMMA SeenTwo ==
  ASSUME NEW a \in SubState, NEW b \in SubState
  PROVE  seen(<<a, b>>) = IF a = b THEN <<a>> ELSE <<a, b>>
  <1> DEFINE p == <<a, b>>
  <1>1. p # <<>> /\ p[1] = a /\ p[Len(p)] = b
    OBVIOUS
  <1> HIDE DEF p
  <1>2. seen(p) = IF a = b THEN <<a>> ELSE <<a, b>>
    BY <1>1 DEF seen
  <1>3. QED
    BY <1>2 DEF p

LEMMA GoodSeen ==
  ASSUME NEW p \in GoodStarts
  PROVE  seen(p) \in AllStartPaths
  <1>1. {"starting", "active", "stopping"} \subseteq SubState
    BY DEF SubState
  <1>2. CASE p \in GoodPosts
    <2>1. PICK a \in {"starting", "active", "stopping"} : p = <<a>>
      BY <1>2 DEF GoodPosts, GoodRuns
    <2>2. seen(p) = <<a>>
      BY <1>1, <2>1, SeenOne
    <2>3. QED
      BY <2>2 DEF AllStartPaths
  <1>3. CASE p \in Twice(GoodPosts)
    <2>1. PICK a \in {"starting", "active", "stopping"} : p = <<"starting">> \o <<a>>
      BY <1>3 DEF GoodPosts, GoodRuns, Twice
    <2>2. <<>> \in Seq(SubState) /\ a \in SubState /\ "starting" \in SubState
      BY <1>1
    <2>3. p = <<"starting", a>>
      BY <2>1, <2>2, TwoWords
    <2>4. seen(p) = IF "starting" = a THEN <<"starting">> ELSE <<"starting", a>>
      BY <2>2, <2>3, SeenTwo
    <2>5. QED
      BY <2>4 DEF AllStartPaths
  <1>4. QED
    BY <1>2, <1>3 DEF GoodStarts


\* A word that was reported by itself.
LEMMA Reported ==
  ASSUME NEW s, s.path = <<>>, NEW S, NEW P, P \subseteq Seq(SubState), Adds(s, S, P), NEW o \in S
  PROVE  o.path \in P
  <1>1. PICK p \in P : o.path = s.path \o p
    BY DEF Adds, Ran
  <1>2. <<>> \o p = p
    BY ConcatEmptySeq
  <1>3. QED
    BY <1>1, <1>2

LEMMA ReportedOne ==
  ASSUME NEW s, s.path = <<>>, NEW S, NEW a \in SubState, Adds(s, S, {<<a>>}), NEW o \in S
  PROVE  o.path = <<a>>
  <1> DEFINE P == {<<a>>}
  <1>1. P \subseteq Seq(SubState) /\ Adds(s, S, P)
    OBVIOUS
  <1>2. \A p \in P : p = <<a>>
    OBVIOUS
  <1> HIDE DEF P
  <1>3. QED
    BY <1>1, <1>2, Reported

LEMMA PathEmpty ==
  ASSUME SvcInv, NEW s, s.path = m.path
  PROVE  s.path = <<>> /\ m.path = <<>> /\ sub_state(m) \in SubState
  BY SubStateOK DEF SvcInv, STypeOK, Mng

LEMMA StartExpected ==
  ASSUME SvcInv, Tidy(m), ~ Faults, StartPaths = AllStartPaths, StartCall
  PROVE  Tidy(m)' /\ Expected
  <1>0. m \in Going /\ ConfOK /\ m.path = <<>>
    BY AtStart, PathEmpty
  <1>1. ASSUME NEW err, Handler("start", err, {m}, FALSE), reply(err, <<>>) \in sub_start(sub_state(m))
        PROVE  Tidy(m)' /\ Expected
    <2> DEFINE S == {m}
    <2>a. Handler("start", err, S, FALSE) /\ \A o \in S : o \in Going /\ Tidy(o) /\ o.path = <<>>
      BY <1>0, <1>1
    <2> HIDE DEF S
    <2>b. /\ Tidy(m)'
          /\ \E o \in S : did'.path = o.path /\ did'.call = "start" /\ did'.err = err
      BY <2>a, ShownTidy
    <2>1. Tidy(m)' /\ did'.path = <<>> /\ did'.call = "start" /\ did'.err = err
      BY <2>a, <2>b
    <2>2. seen(<<>>) = <<>>
      BY DEF seen
    <2>3. QED
      BY <1>1, <2>1, <2>2 DEF Expected
  <1>2. ASSUME m.state \in Stopping, Handler("start", "EAgain", {m}, FALSE)
        PROVE  Tidy(m)' /\ Expected
    <2>1. sub_state(m) = "stopping"
      BY <1>2 DEF sub_state, Stopping
    <2>2. QED
      BY <1>1, <1>2, <2>1 DEF sub_start
  <1>3. ASSUME m.state \in Starting, Handler("start", "Ok", {m}, FALSE)
        PROVE  Tidy(m)' /\ Expected
    <2>1. sub_state(m) = "starting"
      BY <1>3 DEF sub_state, Starting
    <2>2. QED
      BY <1>1, <1>3, <2>1 DEF sub_start
  <1>4. m.state \notin Starting \cup Stopping => sub_state(m) \notin {"starting", "stopping"}
    <2>1. m.state \in ServiceState
      BY <1>0 DEF Going
    <2>2. QED
      BY <2>1 DEF sub_state, Starting, Stopping, ServiceState
  <1>5. ASSUME NEW err, NEW outcomes, NEW P, NEW db_update \in BOOLEAN, Handler("start", err, outcomes, db_update),
               NEW s, s.path = <<>>, Adds(s, outcomes, P), P \subseteq Starts \cup {<<"failed">>},
               \A p \in P : reply(err, seen(p)) \in sub_start(sub_state(m))
        PROVE  Tidy(m)' /\ Expected
    <2>1. /\ Tidy(m)'
          /\ \E o \in outcomes : did'.path = o.path /\ did'.call = "start" /\ did'.err = err
      BY <1>5, ShownTidy DEF Adds
    <2>2. PICK o \in outcomes : did'.path = o.path /\ did'.call = "start" /\ did'.err = err
      BY <2>1
    <2>3. P \subseteq Seq(SubState)
      <3>1. {<<"failed">>} \subseteq Posts
        BY DEF Posts, Runs, Halts, Ends
      <3>2. ASSUME NEW q \in Posts
            PROVE  <<"starting">> \o q \in Seq(SubState)
        <4> DEFINE w == <<"starting">>
        <4>1. w \in Seq(SubState)
          BY DEF SubState
        <4>2. q \in Seq(SubState)
          BY PostWords
        <4> HIDE DEF w
        <4>3. w \o q \in Seq(SubState)
          BY <4>1, <4>2, ConcatProperties
        <4>4. QED
          BY <4>3 DEF w
      <3>3. QED
        BY <1>5, <3>1, <3>2, PostWords DEF Starts, Twice
    <2>4. o.path \in P
      BY <1>5, <2>3, Reported
    <2>5. QED
      BY <1>5, <2>1, <2>2, <2>4 DEF Expected
  <1>6. ASSUME m.state \notin Starting \cup Stopping,
               Handler("start", "ECanceled", enter_dead(m, "FailureStartLimitHit", FALSE), FALSE)
        PROVE  Tidy(m)' /\ Expected
    <2>1. "FailureStartLimitHit" \in ServiceResult /\ "failed" \in SubState
      BY DEF ServiceResult, SubState
    <2>2. Adds(m, enter_dead(m, "FailureStartLimitHit", FALSE), {<<"failed">>})
      BY <1>0, <2>1, DeadAdds
    <2>3. seen(<<"failed">>) = <<"failed">>
      BY <2>1, SeenOne
    <2>4. reply("ECanceled", <<"failed">>) \in sub_start(sub_state(m))
      BY <1>4, <1>6 DEF sub_start
    <2> DEFINE P == {<<"failed">>}
    <2>5. P \subseteq Starts \cup P /\ \A p \in P : reply("ECanceled", seen(p)) \in sub_start(sub_state(m))
      BY <2>3, <2>4
    <2>6. QED
      BY <1>0, <1>5, <1>6, <2>2, <2>5
  <1>7. ASSUME m.state \notin Starting \cup Stopping,
               Handler("start", "Ok", enter_condition([m EXCEPT !.result = "Success"]), TRUE)
        PROVE  Tidy(m)' /\ Expected
    <2> DEFINE s == [m EXCEPT !.result = "Success"]
    <2>1. s \in Going /\ s.path = m.path /\ s.result = "Success"
      BY <1>0, Succeeds DEF Going
    <2>2. Handler("start", "Ok", enter_condition(s), TRUE)
      BY <1>7
    <2> HIDE DEF s
    <2>3. Adds(s, enter_condition(s), GoodStarts)
      BY <1>0, <2>1, ConditionAdds
    <2>4. ASSUME NEW p \in GoodStarts
          PROVE  reply("Ok", seen(p)) \in sub_start(sub_state(m))
      <3>1. seen(p) \in StartPaths
        BY <2>4, GoodSeen
      <3>2. QED
        BY <1>4, <1>7, <3>1 DEF sub_start
    <2>5. GoodStarts \subseteq Starts
      BY GoodWords
    <2>6. QED
      BY <1>0, <1>5, <2>1, <2>2, <2>3, <2>4, <2>5
  <1>8. QED
    BY <1>2, <1>3, <1>6, <1>7 DEF StartCall

LEMMA HaltSeen ==
  ASSUME NEW s, s.forbid_restart, NEW p \in HaltOf(s)
  PROVE  p \in Seq(SubState) /\ reply("Ok", seen(p)) \in sub_stop
  <1>1. PICK a \in {"stopping", "dead", "failed"} : p = <<a>>
    BY DEF HaltOf, EndsOf
  <1>2. a \in SubState
    BY DEF SubState
  <1>3. seen(p) = <<a>> /\ p \in Seq(SubState)
    BY <1>1, <1>2, SeenOne
  <1>4. QED
    BY <1>3 DEF sub_stop

LEMMA StopExpected ==
  ASSUME SvcInv, Tidy(m), ~ Faults, StopCall
  PROVE  Tidy(m)' /\ Expected
  <1>0. m \in Going /\ ConfOK /\ m.path = <<>>
    BY AtStart, PathEmpty
  <1> DEFINE s == [m EXCEPT !.forbid_restart = TRUE]
             outcomes == IF m.state \in Starting \cup {"Reload"} THEN enter_signal(s, "Success")
                         ELSE enter_stop(s, "Success")
  <1>1. Handler("stop", "Ok", outcomes, TRUE)
    BY DEF StopCall
  <1>2. s \in Going /\ s.path = m.path /\ s.forbid_restart
    BY <1>0 DEF Going
  <1> HIDE DEF s
  <1>3. Adds(s, outcomes, HaltOf(s))
    BY <1>0, <1>2, SignalAdds, StopAdds, Succeeds
  <1> HIDE DEF outcomes
  <1>4. /\ Tidy(m)'
        /\ \E o \in outcomes : did'.path = o.path /\ did'.call = "stop" /\ did'.err = "Ok"
    BY <1>1, <1>3, ShownTidy DEF Adds
  <1>5. \A o \in outcomes : o.path \in HaltOf(s)
    BY <1>0, <1>2, <1>3, HaltSeen, Reported
  <1>6. QED
    BY <1>2, <1>4, <1>5, HaltSeen DEF Expected

LEMMA ReloadExpected ==
  ASSUME SvcInv, Tidy(m), ~ Faults, ReloadCall
  PROVE  Tidy(m)' /\ Expected
  <1>0. m \in Going /\ ConfOK /\ m.path = <<>>
    BY AtStart, PathEmpty
  <1>1. Handler("reload", "Ok", enter_reload(m), TRUE) /\ sub_state(m) = "active" /\ conf.cmds.Reload > 0
    BY DEF ReloadCall
  <1>2. Adds(m, enter_reload(m), {<<"reloading">>})
    <2>1. conf.cmds.Reload # 0
      <3>1. conf.cmds.Reload \in 0..2
        BY <1>0, ConfTyped DEF ServiceCommand
      <3>2. QED
        BY <1>1, <3>1
    <2>2. QED
      BY <1>0, <2>1, ReloadAdds
  <1>3. /\ Tidy(m)'
        /\ \E o \in enter_reload(m) : did'.path = o.path /\ did'.call = "reload" /\ did'.err = "Ok"
    BY <1>1, <1>2, ShownTidy DEF Adds
  <1>4. "reloading" \in SubState
    BY DEF SubState
  <1>5. did'.path = <<"reloading">>
    <2>1. \A o \in enter_reload(m) : o.path = <<"reloading">>
      BY <1>0, <1>2, <1>4, ReportedOne
    <2>2. QED
      BY <1>3, <2>1
  <1>6. reply("Ok", <<"reloading">>) \in unit_reload(sub_state(m))
    BY <1>1 DEF unit_reload
  <1>7. QED
    BY <1>3, <1>4, <1>5, <1>6, SeenOne DEF Expected

LEMMA ExitExpected ==
  ASSUME SvcInv, Tidy(m), ~ Faults, SigchldMain \/ SigchldControl
  PROVE  Tidy(m)' /\ Expected
  <1>0. m \in Going /\ ConfOK /\ m.path = <<>>
    BY AtStart, PathEmpty
  <1>1. CASE SigchldMain
    BY <1>0, <1>1, MainExitChains, ReportExpected DEF SigchldMain
  <1>2. CASE SigchldControl
    BY <1>0, <1>2, ControlExitChains, ReportExpected DEF SigchldControl
  <1>3. QED
    BY <1>1, <1>2

LEMMA MessageExpected ==
  ASSUME SvcInv, Tidy(m), ~ Faults, NEW msg \in Message, NotifyMessage(msg)
  PROVE  Tidy(m)' /\ Expected
  <1>0. m \in Going /\ ConfOK /\ m.path = <<>>
    BY AtStart, PathEmpty
  <1>1. QED
    BY <1>0, NotifyChains, ReportExpected DEF NotifyMessage

\* The watchdog and the PID file come back to a service that is disturbed.
LEMMA DisturbedExpected ==
  ASSUME SvcInv, Tidy(m), ~ Faults, WatchdogFires \/ PidFileChanged
  PROVE  Tidy(m)' /\ Expected
  <1>0. m \in Going /\ ConfOK /\ m.path = <<>> /\ sub_state(m) \in SubState /\ Calm(m)
    BY AtStart, PathEmpty
  <1>1. Stray
    BY <1>0 DEF Calm, Stray, WatchdogFires, PidFileChanged
  <1>2. /\ Runs \subseteq paths(sub_state(m)) /\ Halts \subseteq paths(sub_state(m))
        /\ Runs \subseteq Posts /\ Halts \subseteq Posts
    BY <1>0, <1>1, PathsOf, HaltWords
  <1>3. CASE WatchdogFires
    <2> DEFINE s == [m EXCEPT !.watchdog = FALSE]
    <2>1. Handler("watchdog", "Ok", enter_signal(s, "FailureWatchdog"), FALSE)
      BY <1>3 DEF WatchdogFires
    <2>2. s \in Going /\ s.path = <<>>
      BY <1>0 DEF Going
    <2> HIDE DEF s
    <2>3. Adds(s, enter_signal(s, "FailureWatchdog"), Halts)
      BY <1>0, <2>2, SignalAdds
    <2>4. Chains(sub_state(m), enter_signal(s, "FailureWatchdog"))
      BY <1>0, <1>2, <2>2, <2>3, AddsChains
    <2>5. QED
      BY <2>1, <2>4, ReportExpected
  <1>4. CASE PidFileChanged
    <2> DEFINE w == [m EXCEPT !.inotify = TRUE]
               failed == Then(watch_fails(m), LAMBDA x : enter_signal(x, "FailureResources"))
               outcomes == retry_pid_file(m) \cup watch_pid_file(m) \cup failed
    <2>1. Handler("pidfile", "Ok", outcomes, TRUE)
      BY <1>4 DEF PidFileChanged
    <2>2. outcomes = retry_pid_file(m) \cup {w} \cup retry_pid_file(w)
      BY DEF Then, watch_fails, watch_pid_file
    <2>3. w \in Going /\ Still(m, w) /\ w.path = <<>>
      BY <1>0, StillInotify DEF Still
    <2> HIDE DEF w, outcomes
    <2>4. Chains(sub_state(m), {w})
      BY <1>0, <2>3, StillChains
    <2>5. Chains(sub_state(m), retry_pid_file(m)) /\ Chains(sub_state(m), retry_pid_file(w))
      BY <1>0, <1>2, <2>3, RetryAdds, AddsChains
    <2>6. Chains(sub_state(m), outcomes)
      BY <2>2, <2>4, <2>5 DEF Chains
    <2>7. QED
      BY <2>1, <2>6, ReportExpected
  <1>5. QED
    BY <1>3, <1>4

LEMMA TimerExpectedStep ==
  ASSUME SvcInv, Tidy(m), ~ Faults, TimerFires
  PROVE  Tidy(m)' /\ Expected
  <1>0. m \in Going /\ ConfOK /\ m.path = <<>> /\ sub_state(m) \in SubState
    BY AtStart, PathEmpty
  <1> DEFINE s == [m EXCEPT !.timer = FALSE]
             outcomes == CASE m.state = "AutoRestart" -> enter_restart(s)
                           [] m.state = "Running"     -> enter_stop(s, "FailureTimeout")
                           [] OTHER                   -> todo(s)
             w == sub_state(m)
  <1>1. Handler("timer", "Ok", outcomes, FALSE)
    BY DEF TimerFires
  <1>2. s \in Going /\ s.path = <<>> /\ s.state = m.state /\ s.control_command = m.control_command
    BY <1>0 DEF Going
  <1> HIDE DEF s
  <1>3. Tidy(s) /\ Still(s, s)
    BY <1>2 DEF Tidy, sub_state, Still
  <1>4. Chains(w, {s}) /\ Chains(w, todo(s))
    <2> HIDE DEF w
    <2>1. w \in SubState
      BY <1>0 DEF w
    <2>2. QED
      BY <1>2, <1>3, <2>1, StillChains, StillTodo
  <1>5. CASE m.state = "AutoRestart"
    <2> DEFINE dead == enter_dead(s, "FailureResources", FALSE)
    <2>1. outcomes \subseteq {s} \cup dead
      BY <1>5 DEF enter_restart
    <2>2. Adds(s, dead, {<<"failed">>})
      BY <1>2, DeadAdds, Succeeds
    <2> HIDE DEF outcomes, dead, w
    <2>3. /\ Tidy(m)'
          /\ \E o \in outcomes : did'.path = o.path /\ did'.call = "timer" /\ did'.err = "Ok"
      BY <1>1, <1>2, <1>3, <2>1, <2>2, ShownTidy DEF Adds
    <2>4. PICK o \in outcomes : did'.path = o.path /\ did'.call = "timer"
      BY <2>3
    <2>5. CASE o = s
      BY <1>4, <2>3, <2>4, <2>5 DEF Chains, Expected, w
    <2>6. CASE o \in dead
      <3>1. "failed" \in SubState
        BY DEF SubState
      <3>2. o.path = <<"failed">>
        BY <1>2, <2>2, <2>6, <3>1, ReportedOne
      <3>3. QED
        BY <2>3, <2>4, <3>2 DEF Expected
    <2>7. QED
      BY <2>1, <2>4, <2>5, <2>6
  <1>6. CASE m.state = "Running"
    <2>1. w = "active" /\ sub_state(s) = w /\ "FailureTimeout" \in ServiceResult
      BY <1>2, <1>6 DEF sub_state, ServiceResult
    <2>2. Chains(w, enter_stop(s, "FailureTimeout"))
      BY <1>0, <1>2, <2>1, HaltChains
    <2>3. outcomes = enter_stop(s, "FailureTimeout")
      BY <1>6
    <2>4. QED
      BY <1>1, <2>2, <2>3, ReportExpected
  <1>7. CASE m.state \notin {"AutoRestart", "Running"}
    <2>1. outcomes = todo(s)
      BY <1>7
    <2>2. QED
      BY <1>1, <1>4, <2>1, ReportExpected
  <1>8. QED
    BY <1>5, <1>6, <1>7

LEMMA AroundExpected ==
  ASSUME SvcInv, Tidy(m), StopJob \/ Fork \/ OtherExits \/ MainExits \/ ControlExits
  PROVE  Tidy(m)' /\ Expected
  <1>0. m \in Mng /\ sub_state(m) \in SubState
    BY SubStateOK DEF SvcInv, STypeOK
  <1>1. did' = quiet_step /\ conf' = conf
    BY DEF StopJob, Fork, OtherExits, MainExits, ControlExits, Around
  <1>2. m'.state = m.state /\ m'.control_command = m.control_command /\ m'.timer = m.timer
    <2>1. CASE StopJob
      BY <2>1 DEF StopJob, Around
    <2>2. CASE Fork \/ OtherExits
      BY <1>0, <2>2 DEF Fork, OtherExits, Around, Mng
    <2>3. CASE MainExits
      BY <1>0, <2>3 DEF MainExits, Around, Mng
    <2>4. CASE ControlExits
      BY <1>0, <2>4 DEF ControlExits, Around, Mng
    <2>5. QED
      BY <2>1, <2>2, <2>3, <2>4
  <1>3. sub_state(m') = sub_state(m)
    BY <1>2 DEF sub_state
  <1>4. Tidy(m)'
    BY <1>1, <1>2, <1>3 DEF Tidy
  <1>5. chained(sub_state(m), <<>>)
    <2>1. <<>> \in Seq(SubState)
      OBVIOUS
    <2>2. QED
      BY <1>0, <2>1, PathsOf, Whole
  <1>6. QED
    BY <1>1, <1>4, <1>5 DEF Expected, quiet_step, shown

LEMMA StepExpected ==
  ASSUME SvcInv, Tidy(m), ~ Faults, StartPaths = AllStartPaths, SNext
  PROVE  Tidy(m)' /\ Expected
  BY StartExpected, StopExpected, ReloadExpected, ExitExpected, MessageExpected, DisturbedExpected,
     TimerExpectedStep, AroundExpected
  DEF SNext

\* Whatever happens to a service whose commands can be spawned, what it returns to a call of
\* the engine and what it reports, then and by itself, is what the model of the engine
\* expects of a unit.
THEOREM ReportsExpected ==
  ASSUME ~ Faults, StartPaths = AllStartPaths
  PROVE  SSpec => InEnvelope
  <1>1. SInit => Tidy(m)
    <2>1. SUFFICES ASSUME SInit
                   PROVE  Tidy(m)
      OBVIOUS
    <2>2. m.state = "Dead" /\ m.control_command = 0
      BY <2>1 DEF SInit, NewMng
    <2>3. QED
      BY <2>2 DEF Tidy
  <1>2. SvcInv /\ Tidy(m) /\ [SNext]_svars => Tidy(m)'
    <2>1. CASE UNCHANGED svars
      BY <2>1 DEF svars, Tidy, sub_state
    <2>2. QED
      BY <2>1, StepExpected
  <1>3. SvcInv /\ Tidy(m) /\ [SNext]_svars => [Expected]_svars
    BY StepExpected
  <1>4. QED
    BY <1>1, <1>2, <1>3, ServiceAlways, PTL DEF SSpec, InEnvelope
==============================================================================
