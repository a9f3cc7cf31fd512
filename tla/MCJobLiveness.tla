---------------------------- MODULE MCJobLiveness ----------------------------
(***************************************************************************)
(* JobManager with a bounded number of commands and with the fairness of   *)
(* the event loop, to ask whether every job ends.                          *)
(*                                                                         *)
(* Fairness.  The loop dispatches the engine's source whenever it is       *)
(* enabled often enough: it has the highest priority of all sources (-10). *)
(* A handler runs to its end.  That a unit which is starting, stopping or  *)
(* reloading settles some day, and that its restart timer fires, are       *)
(* assumptions on the processes of the unit and on the clock.              *)
(***************************************************************************)
EXTENDS MCJobManager

CONSTANT MaxCommands    \* bound on the commands of a behaviour

VARIABLE issued         \* commands so far
mcvars == <<vars, statvars, issued>>

MCInit == Init /\ StatInit /\ issued = 0

MCCommand ==
  /\ issued < MaxCommands
  /\ \E u \in Unit, kind \in CommandKinds : CountCommand(u, kind)
  /\ issued' = issued + 1

MCNext ==
  \/ MCCommand
  \/ Counted /\ UNCHANGED issued

\* A report by which u leaves a state it is not meant to stay in.
Settles(u) ==
  /\ state[u] \in {"starting", "stopping", "reloading"}
  /\ UnitEvent(u)
  /\ todo'[1] # {notification(u, state[u], state[u], state[u])}

Triggers == \E u \in Unit : PauseEntry(u) \/ TriggerEntry(u)

FairSpec ==
  /\ MCInit /\ [][MCNext]_mcvars
  /\ SF_vars(Dispatch)
  /\ WF_mcvars(CountOwed) /\ WF_vars(Work) /\ WF_vars(EndRun) /\ WF_vars(Triggers)
  /\ \A u \in Unit : SF_vars(Settles(u)) /\ SF_vars(RestartTimer(u))

\* Every job ends: again and again, each unit is without a job.  Nobody waits for
\* ever in a pause, in the queue or for a report (JobTable and JobManagerData::run).
JobsEnd == \A u \in Unit : []<>is_empty(jobs[u])
=============================================================================
