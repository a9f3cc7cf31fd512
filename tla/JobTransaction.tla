--------------------------- MODULE JobTransaction ---------------------------
(***************************************************************************)
(* One request on the table of jobs (core/bin/job/transaction.rs, notify.rs*)
(* and JobTable::commit of table.rs): the stage a request expands to along *)
(* the dependencies, the checks that may refuse it, what the commit makes  *)
(* of the table, and what falls back when a job fails.  Nothing here is a  *)
(* state: `jobs' maps each unit to its JobUnit entry, `ready' is the set   *)
(* of units in the ready queue, `live' the units active or reloading.      *)
(***************************************************************************)
EXTENDS JobUnit, Naturals, FiniteSets, Sequences

CONSTANTS
  Unit,             \* the loaded units
  Deps,             \* configured dependencies: <<unit, relation, unit>>
  IgnoreOnIsolate   \* units with IgnoreOnIsolate=

unit_relation_to_inverse ==
  [Requires |-> "RequiresBy", Requisite |-> "RequisiteOf", Wants |-> "WantsBy",
   BindsTo |-> "BoundBy", PartOf |-> "ConsistsOf", UpHolds |-> "UpHeldBy",
   Conflicts |-> "ConflictedBy", Before |-> "After", After |-> "Before",
   OnSuccess |-> "OnSuccessOf", OnFailure |-> "onFailureOf",
   Triggers |-> "TriggeredBy", PropagatesReloadTo |-> "ReloadPropagatedFrom",
   PropagatesStopTo |-> "StopPropagatedFrom"]

Relation == DOMAIN unit_relation_to_inverse

ASSUME DepsAssumption ==
  /\ IsFiniteSet(Unit)
  /\ Deps \subseteq Unit \X Relation \X Unit
  /\ \A d \in Deps : d[1] # d[3]
  /\ IgnoreOnIsolate \subseteq Unit

\* UnitDepData::insert: a dependency is stored in both directions.
dep_gets(u, r) ==
  {v \in Unit : \/ <<u, r, v>> \in Deps
                \/ \E q \in Relation : unit_relation_to_inverse[q] = r /\ <<v, q, u>> \in Deps}

unit_relation_from_unique_atom ==
  [PullInStart |-> {"Requires", "BindsTo"},
   PullInStartIgnored |-> {"Wants", "UpHolds"},
   PullInVerify |-> {"Requisite"},
   PullInStop |-> {"Conflicts"},
   PullInStopIgnored |-> {"ConflictedBy"},
   RetroActiveStartReplace |-> {"Requires", "BindsTo", "UpHolds"},
   RetroActiveStartFail |-> {"Wants"},
   RetroActiveStopOnStart |-> {"Conflicts", "ConflictedBy"},
   RetroActiveStopOnStop |-> {"BoundBy", "PropagatesStopTo"},
   PropagateStartFailure |-> {"RequiresBy", "RequisiteOf", "BoundBy"},
   PropagateStopFailure |-> {"ConflictedBy"},
   PropagateStop |-> {"RequiresBy", "RequisiteOf", "BoundBy", "ConsistsOf", "PropagatesStopTo"},
   PropagateRestart |-> {"RequiresBy", "RequisiteOf", "BoundBy", "ConsistsOf"},
   PropagatesReloadTo |-> {"PropagatesReloadTo"},
   Before |-> {"Before"}, After |-> {"After"},
   OnSuccess |-> {"OnSuccess"}, OnFailure |-> {"OnFailure"},
   TriggeredBy |-> {"TriggeredBy"}]

\* UnitDep::gets_atom of every unit and atom.
dep_gets_atom ==
  [u \in Unit |-> [a \in DOMAIN unit_relation_from_unique_atom |->
     UNION {dep_gets(u, r) : r \in unit_relation_from_unique_atom[a]}]]

\* Mutant: the units that come after u are forgotten.
related_after_only(u) == dep_gets_atom[u].After

\* The units whose order depends on u: process_relation resumes them.
order_related(u) == dep_gets_atom[u].After \cup dep_gets_atom[u].Before

-----------------------------------------------------------------------------
(* The stage: a set of <<unit, kind>>. *)

Node == Unit \X BasicKind

\* The requests that expanding one job of the stage makes.
expand_start(u) ==
  LET d == dep_gets_atom[u] IN
  ((d.PullInStart \cup d.PullInStartIgnored) \X {"Start"})
    \cup (d.PullInVerify \X {"Verify"})
    \cup ((d.PullInStop \cup d.PullInStopIgnored) \X {"Stop"})

expand_stop(u, kind) ==
  IF kind = "Stop" THEN dep_gets_atom[u].PropagateStop \X {"Stop"}
                   ELSE dep_gets_atom[u].PropagateRestart \X {"TryRestart"}

expand_one(u, kind) ==
  CASE kind = "Start"   -> expand_start(u)
    [] kind = "Stop"    -> expand_stop(u, kind)
    [] kind = "Reload"  -> dep_gets_atom[u].PropagatesReloadTo \X {"TryReload"}
    [] kind = "Restart" -> expand_start(u) \cup expand_stop(u, kind)
    [] OTHER            -> {}

\* JobConf::map of a request; state is ActiveState by unit.
map_conf(req, state) == <<req[1], job_merge_unit(req[2], state[req[1]])>>

\* job_trans_expand from a set of requests: a job is recorded once and, when it
\* is new, expanded.  The recursion reaches what repeated expansion reaches.
job_trans_expand(reqs, state, mode) ==
  LET first == {map_conf(r, state) : r \in reqs}
      more(S) == UNION {{n} \cup {map_conf(r, state) : r \in expand_one(n[1], n[2])} : n \in S}
      reach[i \in Nat] == IF i = 0 THEN first ELSE more(reach[i - 1])
  IN  IF mode \in {"IgnoreDependencies", "IgnoreRequirements"} THEN first
      ELSE reach[Cardinality(Unit) * 6]

\* is_unit_empty says TRUE for a unit that is in the stage (table.rs).
is_unit_empty(stage, u) == \E k \in BasicKind : <<u, k>> \in stage

\* job_trans_affect: the units an Isolate or a Trigger request stops as well.
job_trans_affect(stage, u, mode) ==
  CASE mode = "Isolate" ->
         {v \in Unit \ IgnoreOnIsolate : is_unit_empty(stage, v)} \X {"Stop"}
    [] mode = "Trigger" ->
         {v \in dep_gets_atom[u].TriggeredBy : is_unit_empty(stage, u)} \X {"Stop"}
    [] OTHER -> {}

\* job_trans_check_input
job_trans_check_input(kind, mode) ==
  (mode = "Isolate" => kind = "Start") /\ (mode = "Trigger" => kind = "Stop")

\* The stage of a request, expansion and affection together.
stage_of(u, kind, mode, state) ==
  LET asked == job_trans_expand({<<u, kind>>}, state, mode)
      hit == job_trans_affect(asked, u, mode)
  IN  (asked \cup job_trans_expand(hit, state, mode)) \cap Node

stage_kinds(stage, v) == {k \in BasicKind : <<v, k>> \in stage}
stage_jobs(stage, v, mode) ==
  [k \in BasicKind |-> IF <<v, k>> \in stage THEN init_attr(k, mode) ELSE Absent]

\* job_trans_verify: not conflicting in itself, and not destructive.
job_trans_verify(stage, jobs, mode) ==
  /\ \A v \in Unit : ~ is_suspends_conflict(stage_kinds(stage, v))
  /\ (\E v \in Unit : is_suspends_conflict_with(kinds_of(jobs[v].suspends), stage_kinds(stage, v)))
       => /\ mode # "Fail"
          /\ \A v \in Unit : is_suspends_replace_with(jobs[v], stage_jobs(stage, v, mode))

-----------------------------------------------------------------------------
(* JobTable: every operator gives the new entries, or the new ready queue. *)

\* isolate_suspends: the entries an Isolate or Flush commit empties.
isolated(v, stage, jobs, mode) ==
  /\ mode \in {"Isolate", "Flush"}
  /\ v \notin IgnoreOnIsolate
  /\ stage_kinds(stage, v) = {}
  /\ ~ is_empty(jobs[v])

commit_dirty(v, stage, jobs, mode) ==
  \/ isolated(v, stage, jobs, mode)
  \/ merge_dirty(jobs[v], stage_jobs(stage, v, mode))

\* The units that lose jobs to the commit: process_relation is run for them.
commit_flushed(stage, jobs, mode) ==
  {v \in Unit : /\ kinds_of(jobs[v].suspends) # {}
                /\ \/ isolated(v, stage, jobs, mode)
                   \/ is_suspends_conflict_with(kinds_of(jobs[v].suspends), stage_kinds(stage, v))}

commit_merged(v, stage, jobs, mode) ==
  IF isolated(v, stage, jobs, mode) THEN flush_suspends(jobs[v])
  ELSE merge_suspends(jobs[v], stage_jobs(stage, v, mode))

\* isolate, merge, reshuffle of one unit.
commit_unit(v, stage, jobs, live, mode) ==
  LET merged == commit_merged(v, stage, jobs, mode) IN
  gc(IF commit_dirty(v, stage, jobs, mode) THEN reshuffle(merged, v \in live) ELSE merged)

\* process_relation: resume the entries ordered with a unit of us.
resumed(v, us) == \E u \in us : v \in order_related(u)
resume_related(jobs, us) ==
  [v \in Unit |-> IF resumed(v, us) THEN resume(jobs[v]) ELSE jobs[v]]

\* ready_sync of the entries in `synced'; the others stay as they were.
ready_sync(jobs, ready, synced) ==
  {v \in Unit : IF v \in synced THEN is_ready(jobs[v]) ELSE v \in ready}

commit_jobs(stage, jobs, live, mode) ==
  resume_related([v \in Unit |-> commit_unit(v, stage, jobs, live, mode)],
                 commit_flushed(stage, jobs, mode))

\* Mutant: the entries that the commit resumes are not synced.
synced_dirty_only(stage, jobs, mode) == {v \in Unit : commit_dirty(v, stage, jobs, mode)}

commit_synced(stage, jobs, mode) ==
  {v \in Unit : \/ commit_dirty(v, stage, jobs, mode)
                \/ resumed(v, commit_flushed(stage, jobs, mode)) /\ jobs[v].pause}

-----------------------------------------------------------------------------
\* job_trans_fallback: who is explored when the job of u, run as run_kind, has
\* failed.  An explored unit loses its suspended Start and Verify; if it had
\* one, those that require it are explored too.
fallback_atom(u, run_kind) ==
  CASE run_kind \in {"Start", "Verify"} -> dep_gets_atom[u].PropagateStartFailure
    [] run_kind = "Stop"                -> dep_gets_atom[u].PropagateStopFailure
    [] OTHER                            -> {}

FallbackKinds == {"Start", "Verify"}
fallback_hit(v, jobs) == kinds_of(jobs[v].suspends) \cap FallbackKinds # {}

job_trans_fallback(u, run_kind, jobs) ==
  LET more(S) == UNION {{v} \cup IF fallback_hit(v, jobs) THEN fallback_atom(v, "Start")
                                                         ELSE {} : v \in S}
      reach[i \in Nat] == IF i = 0 THEN fallback_atom(u, run_kind) ELSE more(reach[i - 1])
  IN  Unit \cap reach[Cardinality(Unit)]

fallback_jobs(explored, jobs, live) ==
  resume_related([v \in Unit |->
                    IF v \in explored
                      THEN gc(remove_suspends(jobs[v], FallbackKinds, v \in live))
                      ELSE jobs[v]],
                 {v \in explored : fallback_hit(v, jobs)})

fallback_synced(explored, jobs) ==
  {v \in Unit : \/ v \in explored
                \/ resumed(v, {w \in explored : fallback_hit(w, jobs)}) /\ jobs[v].pause}

-----------------------------------------------------------------------------
(* notify.rs: the requests that a change nobody asked for makes, in groups  *)
(* as they are executed; within a group the order is that of a hash table. *)

Request == [op : {"exec"}, u : Unit, kind : JobKind, mode : JobMode]
request(v, kind, mode) == [op |-> "exec", u |-> v, kind |-> kind, mode |-> mode]
requests(us, kind, mode) == {request(v, kind, mode) : v \in us}

notify_event_start(u) ==
  LET d == dep_gets_atom[u] IN
  <<requests(d.RetroActiveStartReplace \ d.After, "Start", "Replace"),
    requests(d.RetroActiveStartFail \ d.After, "Start", "Fail"),
    requests(d.RetroActiveStopOnStart, "Stop", "Replace")>>

notify_event_stop(u) ==
  requests(dep_gets_atom[u].RetroActiveStopOnStop, "Stop", "Replace")

notify_result_start(u, atom, mode) == requests(dep_gets_atom[u][atom], "Start", mode)
=============================================================================
