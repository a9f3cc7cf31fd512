----------------------------- MODULE JobManager -----------------------------
(***************************************************************************)
(* The job engine as it runs (core/bin/job/manager.rs on top of table.rs): *)
(* requests come in from commands, from units that change on their own and *)
(* from restart timers; the engine's deferred event source triggers what   *)
(* is ready, one job per unit, in the order the After= and Before= of the  *)
(* units ask for; a unit's report of its new state ends its running job.   *)
(*                                                                         *)
(* The manager is one thread: a handler runs to its end before the event   *)
(* loop dispatches the next one.  What a handler has still to do is kept   *)
(* in `todo', a sequence of groups of tasks, so that every commit to the   *)
(* table is a step of its own; the order inside a group is that of a hash  *)
(* table, hence any.  A handler that is under way excludes the others.     *)
(***************************************************************************)
EXTENDS JobTransaction, UnitCalls

CONSTANTS
  CommandKinds,      \* kinds the commands of sctl ask for (always Replace)
  Restarts,          \* units that Restart= may restart when they end
  Strays,            \* units with a WatchdogSec=, a PIDFile= or an ExecStartPost=
  OnFailureJobMode,  \* [Unit -> JobMode]
  OnSuccessJobMode   \* [Unit -> JobMode]

ASSUME ModesAssumption ==
  /\ CommandKinds \subseteq {"Start", "Stop", "Reload", "Restart"}
  /\ Restarts \subseteq Unit
  /\ Strays \subseteq Unit
  /\ OnFailureJobMode \in [Unit -> JobMode]
  /\ OnSuccessJobMode \in [Unit -> JobMode]

VARIABLES
  jobs,      \* JobTable::t_unit, the entry of every unit
  ready,     \* t_ready and readys together: the units whose entry is ready
  up_ready,  \* JobUnitTable::up_ready, what was reported to the event loop
  armed,     \* the Defer source of the engine is enabled (OneShot)
  running,   \* the source is being dispatched: JobManagerData::run
  state,     \* the sub-state of every unit
  todo       \* the rest of the handler under way

vars == <<jobs, ready, up_ready, armed, running, state, todo>>

\* Tasks besides Request.  A Notify is one call of try_finish: unit u, which is
\* now in sub-state `at', reports that it went from os to ns.
Notify == [op : {"notify"}, u : Unit, os : ActiveState, ns : ActiveState, at : SubState]
Remove == [op : {"remove"}, u : Unit, run_kind : RunKind, attr : JobAttr, result : JobResult]
Relate == [op : {"relate"}, u : Unit, run_kind : RunKind, attr : JobAttr]
Enable == [op : {"enable"}]
Task == Request \cup Notify \cup Remove \cup Relate \cup Enable

idle == ~running /\ todo = <<>>
active == [v \in Unit |-> active_state(state[v])]
live == {v \in Unit : is_active_or_reloading(active[v])}

\* Group g, if there is anything in it, goes before the work s.
push(g, s) == IF g = {} THEN s ELSE <<g>> \o s

\* What is left of todo when task t of the first group is done.
rest(t) == push(Head(todo) \ {t}, Tail(todo))

notification(u, from, to, at) ==
  [op |-> "notify", u |-> u, os |-> active_state(from), ns |-> active_state(to), at |-> at]
enable == [op |-> "enable"]

Init ==
  /\ jobs = [u \in Unit |-> NewJobUnit]
  /\ ready = {}
  /\ up_ready = FALSE
  /\ armed = FALSE
  /\ running = FALSE
  /\ state = [u \in Unit |-> "dead"]
  /\ todo = <<>>

-----------------------------------------------------------------------------
\* JobManagerData::exec: accepted, the stage is committed; refused, nothing is.
accepts(stage, kind, mode) ==
  job_trans_check_input(kind, mode) /\ job_trans_verify(stage, jobs, mode)

commit(stage, mode) ==
  /\ jobs' = commit_jobs(stage, jobs, live, mode)
  /\ ready' = ready_sync(jobs', ready, commit_synced(stage, jobs, mode))

exec(u, kind, mode) ==
  \E stage \in {stage_of(u, kind, mode, active)} :
    IF accepts(stage, kind, mode) THEN commit(stage, mode) ELSE UNCHANGED <<jobs, ready>>

\* Mutant: up_ready is updated before it is compared.
enable_after_update(rdy) == up_ready' = (rdy # {}) /\ UNCHANGED armed

\* JobManager::try_enable, with the ready queue as it is afterwards.
try_enable(rdy) ==
  /\ armed' = (armed \/ (rdy # {} /\ ~up_ready))
  /\ up_ready' = (rdy # {})

\* UnitManager::start_unit, stop_unit, reload and restart_unit.
Command(u, kind) ==
  /\ idle
  /\ \E stage \in {stage_of(u, kind, "Replace", active)} :
       accepts(stage, kind, "Replace") /\ commit(stage, "Replace")
  /\ try_enable(ready')
  /\ UNCHANGED <<running, state, todo>>

-----------------------------------------------------------------------------
\* Source::dispatch of the engine.
Dispatch ==
  /\ idle
  /\ armed
  /\ armed' = FALSE
  /\ running' = TRUE
  /\ UNCHANGED <<jobs, ready, up_ready, state, todo>>

\* is_uv_runnable
is_uv_runnable(u) ==
  \A atom \in {"After", "Before"} : \A v \in dep_gets_atom[u][atom] :
    ~ is_empty(jobs[v]) => is_next_trigger_order_with(jobs[u], jobs[v], atom)

\* shall_restart: only a unit with a Restart= setting goes to autorestart.
configured(u, path) == path \in Restarting => u \in Restarts

\* try_trigger_entry of an entry that has to wait for a neighbour.
PauseEntry(u) ==
  /\ running /\ todo = <<>> /\ u \in ready
  /\ ~ is_uv_runnable(u)
  /\ jobs' = [jobs EXCEPT ![u] = pause(@)]
  /\ ready' = ready \ {u}
  /\ UNCHANGED <<up_ready, armed, running, state, todo>>

\* try_trigger_entry, then the two cases of run: the first report the unit made
\* during the call (a later one is refused), and the result of the call.
TriggerEntry(u) ==
  /\ running /\ todo = <<>> /\ u \in ready
  /\ is_uv_runnable(u)
  /\ LET uv == do_trigger(jobs[u])
         info == get_next_trigger(jobs[u])
     IN  \E r \in job_trigger_unit(state[u], uv.trigger.run_kind, "force" \in uv.trigger.attr) :
           LET result == job_trigger_err_to_result(r.err) IN
           /\ configured(u, r.path)
           /\ jobs' = [jobs EXCEPT ![u] = IF result = "again" THEN trigger_again(uv) ELSE uv]
           /\ ready' = ready \ {u}
           /\ state' = [state EXCEPT ![u] = after(@, r.path)]
           /\ IF r.path = <<>> THEN UNCHANGED <<armed, up_ready>> ELSE try_enable(ready')
           /\ todo' = push(
                IF r.path = <<>> THEN {}
                  ELSE {notification(u, state[u], r.path[1], after(state[u], r.path))},
                IF result \notin JobResult THEN <<>>
                  ELSE <<{[op |-> "remove", u |-> u, run_kind |-> info.run_kind,
                           attr |-> info.attr, result |-> result]}>>)
  /\ UNCHANGED running

\* The end of dispatch: update_up_ready.
EndRun ==
  /\ running /\ todo = <<>> /\ ready = {}
  /\ running' = FALSE
  /\ up_ready' = FALSE
  /\ UNCHANGED <<jobs, ready, armed, state, todo>>

-----------------------------------------------------------------------------
\* finish_trigger, gc and the relations of u when its trigger is deleted.
finish_entry(u, result) ==
  LET deleted == ~ finish_retries(jobs[u].trigger, result)
      done == [jobs EXCEPT ![u] = gc(finish_trigger(@, result))]
      us == IF deleted THEN {u} ELSE {}
  IN  /\ jobs' = resume_related(done, us)
      /\ ready' = ready_sync(jobs', ready,
                     {u} \cup {v \in Unit : resumed(v, us) /\ done[v].pause})

\* simulate_job_notify, before the work s: the retroactive starts and stops.
simulate_job_notify(u, os, ns, s) ==
  CASE is_inactive_or_failed(os) /\ ns \in {"Active", "Activating"}
         -> push(notify_event_start(u)[1],
                 push(notify_event_start(u)[2], push(notify_event_start(u)[3], s)))
    [] os \in {"Active", "Activating"} /\ ns \in {"InActive", "DeActivating"}
         -> push(notify_event_stop(u), s)
    [] OTHER -> s

\* unit_start_on: what OnFailure= and OnSuccess= start.
unit_start_on(u, os, ns) ==
  CASE ns = "Failed" /\ os # "Failed"
         -> notify_result_start(u, "OnFailure", OnFailureJobMode[u])
    [] ns = "InActive" /\ os \notin {"Failed", "InActive", "Maintenance"}
         -> notify_result_start(u, "OnSuccess", OnSuccessJobMode[u])
    [] OTHER -> {}

\* The work that follows do_try_finish of notification t when the running job
\* did, or did not, generate the change.
aftermath(t, generated) ==
  LET started == push(unit_start_on(t.u, t.os, t.ns), rest(t)) IN
  IF generated THEN started ELSE simulate_job_notify(t.u, t.os, t.ns, started)

\* Every sub-unit passes UNIT_NOTIFY_RELOAD_FAILURE with every report.
RELOAD_FAILURE == TRUE

\* do_try_finish
TryFinish(t) ==
  LET job == jobs[t.u].trigger
      says == job_process_unit(job.run_kind, t.ns, RELOAD_FAILURE)
      relation == [op |-> "relate", u |-> t.u, run_kind |-> job.run_kind, attr |-> job.attr]
  IN
  /\ t.op = "notify"
  /\ state' = [state EXCEPT ![t.u] = t.at]
  /\ \/ /\ job = NoJob
        /\ todo' = aftermath(t, FALSE)
        /\ UNCHANGED <<jobs, ready>>
     \/ /\ job # NoJob /\ jobs[t.u].pause
        /\ jobs' = [jobs EXCEPT ![t.u] = resume(@)]
        /\ ready' = ready_sync(jobs', ready, {t.u})
        /\ todo' = aftermath(t, TRUE)
     \/ /\ job # NoJob /\ ~ jobs[t.u].pause /\ says.result = "none"
        /\ todo' = aftermath(t, says.generated)
        /\ UNCHANGED <<jobs, ready>>
     \/ /\ job # NoJob /\ ~ jobs[t.u].pause /\ says.result # "none"
        /\ finish_entry(t.u, says.result)
        /\ todo' = push(IF says.result = "Done" THEN {} ELSE {relation},
                         aftermath(t, says.generated))
  /\ UNCHANGED <<up_ready, armed, running>>

\* Case 2 of run: do_remove of a trigger that its own call has ended, with the
\* OnFailure= of simulate_unit_notify (inside).
RemoveEnded(t) ==
  LET deleted == ~ finish_retries(jobs[t.u].trigger, t.result)
      relation == [op |-> "relate", u |-> t.u, run_kind |-> t.run_kind, attr |-> t.attr]
      onfailure == IF OnFailureJobMode[t.u] = "Fail"
                     THEN notify_result_start(t.u, "OnFailure", "Fail") ELSE {}
  IN
  /\ t.op = "remove"
  /\ \/ /\ jobs[t.u].trigger = NoJob
        /\ todo' = rest(t)
        /\ UNCHANGED <<jobs, ready>>
     \/ /\ jobs[t.u].trigger # NoJob
        /\ finish_entry(t.u, t.result)
        /\ todo' = IF deleted /\ t.result # "Done"
                     THEN push(onfailure, push({relation}, rest(t))) ELSE rest(t)
  /\ UNCHANGED <<up_ready, armed, running, state>>

\* do_remove_relation
RemoveRelation(t) ==
  LET explored == job_trans_fallback(t.u, t.run_kind, jobs)
      hit == {v \in explored : fallback_hit(v, jobs) /\ v # t.u}
  IN
  /\ t.op = "relate"
  /\ \/ /\ "no_relevancy" \in t.attr
        /\ exec(t.u, "Stop", "Replace")
        /\ todo' = rest(t)
     \/ /\ "no_relevancy" \notin t.attr
        /\ jobs' = fallback_jobs(explored, jobs, live)
        /\ ready' = ready_sync(jobs', ready, fallback_synced(explored, jobs))
        /\ todo' = push(UNION {notify_result_start(v, "OnFailure", "Fail") :
                                v \in {w \in hit : OnFailureJobMode[w] = "Fail"}}, rest(t))
  /\ UNCHANGED <<up_ready, armed, running, state>>

Exec(t) ==
  /\ t.op = "exec"
  /\ exec(t.u, t.kind, t.mode)
  /\ todo' = rest(t)
  /\ UNCHANGED <<up_ready, armed, running, state>>

TryEnable(t) ==
  /\ t.op = "enable"
  /\ try_enable(ready)
  /\ todo' = rest(t)
  /\ UNCHANGED <<jobs, ready, running, state>>

Work ==
  /\ todo # <<>>
  /\ \E t \in Head(todo) :
       TryFinish(t) \/ RemoveEnded(t) \/ RemoveRelation(t) \/ Exec(t) \/ TryEnable(t)

-----------------------------------------------------------------------------
has_stop_job(u) == "Stop" \in kinds_of(jobs[u].suspends)

\* enter_dead restarts only when nobody asked for a stop.
restart_allowed(u) == ~ has_stop_job(u) /\ jobs[u].trigger.run_kind # "Stop"

\* Reports of unit u that the event loop dispatches one handler for.
reports(u, path) ==
  IF Len(path) = 1
    THEN <<{notification(u, state[u], path[1], path[1])}, {enable}>>
    ELSE <<{notification(u, state[u], path[1], path[1])}, {enable},
           {notification(u, path[1], path[2], path[2])}, {enable}>>

\* A process of u exits, or a message or a timeout of u comes in.
UnitEvent(u) ==
  /\ idle
  /\ \E path \in IF u \in Strays THEN stray_paths(state[u]) ELSE own_paths(state[u]) :
       /\ configured(u, path)
       /\ path \in Restarting => restart_allowed(u)
       /\ todo' = reports(u, path)
  /\ UNCHANGED <<jobs, ready, up_ready, armed, running, state>>

\* ServiceMng::enter_restart, when the restart timer of u fires: nothing if a
\* Stop waits, a Restart request otherwise, and enter_dead if that is refused.
RestartTimer(u) ==
  /\ idle
  /\ state[u] = "autorestart"
  /\ \/ /\ has_stop_job(u)
        /\ state' = [state EXCEPT ![u] = "restarting"]
        /\ UNCHANGED <<jobs, ready, up_ready, armed, todo>>
     \/ /\ ~ has_stop_job(u)
        /\ \E stage \in {stage_of(u, "Restart", "Replace", active)} :
             \/ /\ accepts(stage, "Restart", "Replace")
                /\ commit(stage, "Replace")
                /\ try_enable(ready')
                /\ state' = [state EXCEPT ![u] = "restarting"]
                /\ UNCHANGED todo
             \/ /\ ~ accepts(stage, "Restart", "Replace")
                /\ todo' = reports(u, <<"failed">>)
                /\ UNCHANGED <<jobs, ready, up_ready, armed, state>>
  /\ UNCHANGED running

Next ==
  \/ \E u \in Unit, kind \in CommandKinds : Command(u, kind)
  \/ Dispatch
  \/ \E u \in Unit : PauseEntry(u) \/ TriggerEntry(u)
  \/ EndRun
  \/ Work
  \/ \E u \in Unit : UnitEvent(u) \/ RestartTimer(u)

Spec == Init /\ [][Next]_vars

-----------------------------------------------------------------------------
(* Invariants. *)

\* Every variable has its type.
TypeOK ==
  /\ jobs \in [Unit -> JobUnitData]
  /\ ready \subseteq Unit
  /\ up_ready \in BOOLEAN /\ armed \in BOOLEAN /\ running \in BOOLEAN
  /\ state \in [Unit -> SubState]
  /\ todo \in Seq(SUBSET Task)

\* What commit and fallback leave of a unit's suspended jobs can be queued: a
\* Stop has no other beside it but a Nop, of Restart, Start and Reload there is
\* one, and the queue holds the suspended jobs, all of them but for a Nop that
\* came with a Stop.  The asserts of reshuffle, sq_order and
\* is_suspends_replace_with say as much.
AllMerged == \A u \in Unit : SuspendsMerged(jobs[u])

\* The interrupt mark of an entry is never stale: while it is up there is a
\* trigger to interrupt and a Stop or a Restart at the front of the queue that
\* interrupts it.  calc_natural_ready_t ("there is no interrupter") and
\* calc_natural_ready_s ("there is nothing to interrupt") assert it.
InterrupterExists == \A u \in Unit : InterruptOK(jobs[u])

\* What is stored for recovery are the jobs of the table: no job is forgotten,
\* none that has ended comes back (Job::wait, run, merge_attr and finish).
StoredAsHeld == \A u \in Unit : StoredOK(jobs[u])

\* The ready queue holds exactly the entries that are ready, although every
\* operation syncs only the entries it believes it has changed.
ReadyInSync == ready = {u \in Unit : is_ready(jobs[u])}

\* What the table of jobs, its ready queue and the stored records say agrees, at every step
\* of every operation.
TableInSync == AllMerged /\ InterrupterExists /\ StoredAsHeld /\ ReadyInSync

\* When the loop is idle with work in the ready queue, the engine's source is
\* enabled: no enabling is lost between up_ready and the OneShot source.
NoLostWakeup == idle /\ ready # {} => armed

\* A report never meets a running job that job_process_unit has no case for, which would
\* reach unreachable!("Invalid job run-kind.").  It holds for the Nop jobs; with Requisite=
\* a Verify job can be running when its unit reports, and the statement fails.
ReportMeetsItsJob ==
  todo # <<>> => \A t \in Head(todo) :
    t.op = "notify" => \/ jobs[t.u].trigger = NoJob
                       \/ jobs[t.u].pause
                       \/ jobs[t.u].trigger.run_kind \in ProcessKind

\* No running job has missed the report that ends it: when the loop is idle, the
\* state of its unit is one that keeps the job running.
NoOverdueTrigger ==
  idle => \A u \in Unit :
    (/\ jobs[u].trigger.run_kind \in ProcessKind
     /\ ~ jobs[u].pause /\ ~ jobs[u].retrigger /\ ~ jobs[u].interrupt)
    => job_process_unit(jobs[u].trigger.run_kind, active[u], RELOAD_FAILURE).result = "none"

\* A job that is suspended will be triggered: an entry that runs nothing and has
\* an empty queue has no suspended job ("nothing triggered or waiting to be
\* triggered exists", calc_natural_ready).  Not so for a Nop that came with a Stop.
NothingLeftBehind ==
  \A u \in Unit : jobs[u].trigger = NoJob /\ jobs[u].sq = {}
                    => kinds_of(jobs[u].suspends) = {}

\* A paused entry still has what it waits for when the loop is idle: a job of an
\* ordered unit that goes first, or its own unit answering EAgain.  Otherwise
\* nobody is left to resume it.
order_blocked(u) ==
  \E atom \in {"After", "Before"} : \E v \in dep_gets_atom[u][atom] :
    ~ is_next_trigger_order_with(resume(jobs[u]), jobs[v], atom)
unit_blocked(u) ==
  /\ jobs[u].retrigger
  /\ reply("EAgain", <<>>) \in job_trigger_unit(state[u], jobs[u].trigger.run_kind, FALSE)
PauseJustified ==
  idle => \A u \in Unit : jobs[u].pause => order_blocked(u) \/ unit_blocked(u)

\* Every job of an idle engine has a reason to be there: what is paused waits for something,
\* what runs waits for its unit, and what is suspended is in the queue.
WaitsJustified == PauseJustified /\ NoOverdueTrigger /\ NothingLeftBehind

\* An Isolate request stops the other units: a unit that has a job in the stage
\* ("there is something assigned, not affected", trans_affect_isolate) is spared.
IsolateSparesAssigned ==
  \A u \in Unit :
    LET asked == job_trans_expand({<<u, "Start">>}, active, "Isolate") IN
    \A v \in Unit : stage_kinds(asked, v) # {}
                     => <<v, "Stop">> \notin job_trans_affect(asked, u, "Isolate")

-----------------------------------------------------------------------------
(* Action properties. *)

\* A running job gives way only to a Stop or a Restart of its unit, however the
\* queue was changed while the interrupt was pending.
InterruptedByStop ==
  [][\A u \in Unit :
       jobs[u].trigger # NoJob /\ jobs'[u].trigger # NoJob
         /\ jobs'[u].trigger.kind # jobs[u].trigger.kind
       => jobs'[u].trigger.kind \in {"Stop", "Restart"}]_vars

\* An irreversible job that waits is not replaced by a request it conflicts with,
\* whatever the mode of that request.
IrreversibleKept ==
  [][\A u \in Unit : \A k \in kinds_of(jobs[u].suspends) :
       /\ "irreversible" \in jobs[u].suspends[k]
       /\ k \notin kinds_of(jobs'[u].suspends)
       => ~ is_suspends_conflict_with({k}, kinds_of(jobs'[u].suspends))]_vars
=============================================================================
