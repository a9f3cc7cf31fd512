------------------------------- MODULE JobStat -------------------------------
(***************************************************************************)
(* core/bin/job/stat.rs on the engine of JobManager: the number of jobs of *)
(* each kind that the table holds, kept up from what the operations of the *)
(* table report as added and deleted.  An assert refuses a deletion that   *)
(* takes a number below zero, and the manager panics.  The model notes the *)
(* step and goes on, so that what the engine does is JobManager's alone.   *)
(***************************************************************************)
EXTENDS JobManager, Integers

VARIABLES
  num,       \* JobKindNum: [BasicKind -> Int]
  owed,      \* deletions of do_remove_one and do_remove_relation that are counted once the
             \* OnFailure= requests before it are done, and the work that is left then
  overflow   \* assert!(!overflow) has failed in the last step

statvars == <<num, owed, overflow>>

Nothing == [dels |-> {}, left |-> 0]

StatInit ==
  /\ num = [k \in BasicKind |-> 0]
  /\ owed = Nothing
  /\ overflow = FALSE

of_kind(js, k) == Cardinality({j \in js : j[2] = k})

\* JobKindNum::update: first the deleted jobs, then the added ones. A job is its unit and
\* kind; one that is flushed, added again and absorbed is deleted twice.
update(adds, dels) ==
  /\ overflow' = (\E k \in {j[2] : j \in dels} : of_kind(dels, k) > num[k])
  /\ num' = [k \in BasicKind |-> num[k] - of_kind(dels, k) + of_kind(adds, k)]

uncounted == num' = num /\ overflow' = FALSE

\* What merge_suspends reports as added, and isolate_suspends and merge_suspends as flushed.
added_to(held, asked) == IF is_suspends_conflict_with(held, asked) THEN asked ELSE asked \ held
added(stage) ==
  UNION {{v} \X added_to(kinds_of(jobs[v].suspends), stage_kinds(stage, v)) : v \in Unit}
flushed(stage, mode) ==
  UNION {{v} \X kinds_of(jobs[v].suspends) : v \in commit_flushed(stage, jobs, mode)}

\* What reshuffle reports: the jobs that another one absorbs, one that was just added included.
absorbed(v, stage, mode) ==
  jobs_merge_suspend(kinds_of(commit_merged(v, stage, jobs, mode).suspends), v \in live)
merged(stage, mode) ==
  UNION {{v} \X absorbed(v, stage, mode) \X {"merged"} :
           v \in {w \in Unit : commit_dirty(w, stage, jobs, mode)}}

\* JobManagerData::exec
count_exec(u, kind, mode) ==
  /\ \E stage \in {stage_of(u, kind, mode, active)} :
       IF accepts(stage, kind, mode)
         THEN update(added(stage), flushed(stage, mode) \cup merged(stage, mode))
         ELSE uncounted
  /\ UNCHANGED owed

\* The requests of OnFailure=, if there are any, come before the count.
count_after(dels, left) ==
  IF Len(todo') > left
    THEN owed' = [dels |-> dels, left |-> left] /\ uncounted
    ELSE update({}, dels) /\ UNCHANGED owed

\* do_try_finish: the deleted trigger of unit u.
count_finish(t) ==
  LET job == jobs[t.u].trigger
      result == job_process_unit(job.run_kind, t.ns, RELOAD_FAILURE).result
  IN  IF job = NoJob \/ jobs[t.u].pause \/ result = "none" \/ finish_retries(job, result)
        THEN uncounted /\ UNCHANGED owed
        ELSE update({}, {<<t.u, job.kind>>}) /\ UNCHANGED owed

\* do_remove_one
count_remove(t) ==
  LET job == jobs[t.u].trigger
      related == IF t.result = "Done" THEN 0 ELSE 1
  IN  IF job = NoJob \/ finish_retries(job, t.result)
        THEN uncounted /\ UNCHANGED owed
        ELSE count_after({<<t.u, job.kind>>}, Len(rest(t)) + related)

\* Mutant: the jobs that fall with a failed one are not counted.
count_relation_none(t) ==
  IF "no_relevancy" \in t.attr THEN count_exec(t.u, "Stop", "Replace") ELSE uncounted /\ UNCHANGED owed

\* do_remove_relation
count_relation(t) ==
  IF "no_relevancy" \in t.attr
    THEN count_exec(t.u, "Stop", "Replace")
    ELSE count_after({<<v, k>> \in job_trans_fallback(t.u, t.run_kind, jobs) \X FallbackKinds :
                        k \in kinds_of(jobs[v].suspends)}, Len(rest(t)))

count_task(t) ==
  CASE t.op = "exec"   -> count_exec(t.u, t.kind, t.mode)
    [] t.op = "notify" -> count_finish(t)
    [] t.op = "remove" -> count_remove(t)
    [] t.op = "relate" -> count_relation(t)
    [] t.op = "enable" -> uncounted /\ UNCHANGED owed

-----------------------------------------------------------------------------
\* The actions of JobManager, each with its count.

due == owed # Nothing /\ Len(todo) = owed.left
counting == ~ due

CountOwed ==
  /\ due
  /\ update({}, owed.dels)
  /\ owed' = Nothing
  /\ UNCHANGED vars

CountCommand(u, kind) == counting /\ Command(u, kind) /\ count_exec(u, kind, "Replace")

CountWork ==
  /\ counting /\ todo # <<>>
  /\ \E t \in Head(todo) :
       /\ TryFinish(t) \/ RemoveEnded(t) \/ RemoveRelation(t) \/ Exec(t) \/ TryEnable(t)
       /\ count_task(t)

\* run: the trigger that the new one interrupts.
CountTrigger(u) ==
  /\ counting /\ TriggerEntry(u)
  /\ update({}, IF calc_ready(jobs[u]) = "suspend" /\ jobs[u].interrupt
                  THEN {<<u, jobs[u].trigger.kind>>} ELSE {})
  /\ UNCHANGED owed

CountRestart(u) ==
  /\ counting /\ RestartTimer(u)
  /\ IF has_stop_job(u) THEN uncounted /\ UNCHANGED owed ELSE count_exec(u, "Restart", "Replace")

CountOther ==
  /\ counting
  /\ Dispatch \/ EndRun \/ \E u \in Unit : PauseEntry(u) \/ UnitEvent(u)
  /\ uncounted /\ UNCHANGED owed

Counted ==
  \/ CountWork \/ CountOwed \/ CountOther
  \/ \E u \in Unit : CountTrigger(u) \/ CountRestart(u)

\* The engine with its counts.
CountNext == Counted \/ \E u \in Unit, kind \in CommandKinds : CountCommand(u, kind)

CountInit == Init /\ StatInit

CountSpec == CountInit /\ [][CountNext]_<<vars, statvars>>

-----------------------------------------------------------------------------
\* The numbers are those of the jobs in the table, whatever path a job left it on:
\* cancelled by a conflicting request, absorbed by another job, interrupted as the trigger,
\* finished, or failed with the job it depends on, and whatever OnFailure= requests came
\* in between (JobStat::update_changes in each operation of JobManagerData).
CountsHeld ==
  owed = Nothing =>
    \A k \in BasicKind :
       num[k] = Cardinality({u \in Unit : k \in kinds_of(jobs[u].suspends)})
                + Cardinality({u \in Unit : jobs[u].trigger # NoJob /\ jobs[u].trigger.kind = k})

\* assert!(!overflow) of JobKindNum::update.
NoOverflow == ~ overflow
=============================================================================
