---------------------------- MODULE JobRecovery ----------------------------
(***************************************************************************)
(* The job engine across crashes of the manager and daemon reloads.        *)
(*                                                                         *)
(* The reliability layer (core/lib/rel) keeps two databases: the history,  *)
(* to which the tables of rentry.rs are written by commits at the end of   *)
(* every handler and of every round of run, and the last words, written at *)
(* once, which name the unit that was being handled.  recover() imports    *)
(* the history, turns what was triggered into a job that can be run again  *)
(* (db_compensate), rebuilds the table of jobs (db_map) and triggers the   *)
(* recovered jobs one unit after the other (make_consistent).              *)
(***************************************************************************)
EXTENDS JobManager

CONSTANTS
  NoUnit,       \* not a unit
  MaxCrashes    \* bound on the crashes and daemon reloads of a behaviour

ASSUME RecoveryAssumption == NoUnit \notin Unit /\ MaxCrashes \in Nat

VARIABLES
  stored,    \* the committed history, by unit
  last,      \* ReliLast: the unit being handled, or NoUnit
  pending,   \* recovered units that make_consistent has still to trigger
  target,    \* the unit of run(Some(unit)) under way, or NoUnit
  crashes

revars == <<stored, last, pending, target, crashes>>
rvars == <<vars, revars>>

Record == [suspends : Suspends, trigger : Re \cup {NoRe}, state : SubState]

\* What a commit writes for every unit.
export == [u \in Unit |-> [suspends |-> jobs[u].re_suspends,
                           trigger |-> jobs[u].re_trigger, state |-> state[u]]]

recovering == pending # {} \/ target # NoUnit

RInit ==
  /\ Init
  /\ stored = export
  /\ last = NoUnit /\ pending = {} /\ target = NoUnit /\ crashes = 0

-----------------------------------------------------------------------------
\* clear_last_unit and clear_last_frame: the end of a round or of a handler
\* commits; until then the last words name unit u.
record(u) ==
  /\ stored' = IF todo' = <<>> THEN export' ELSE stored
  /\ last' = IF todo' = <<>> THEN NoUnit ELSE u

\* The steps of the engine in normal operation.  SIGCHLD and notifications name
\* their unit in the last words, timers do not.
Operate ==
  /\ ~ recovering
  /\ \/ /\ \/ \E u \in Unit, kind \in CommandKinds : Command(u, kind)
           \/ Dispatch
           \/ \E u \in Unit : PauseEntry(u)
           \/ EndRun
           \/ \E u \in Unit : RestartTimer(u)
        /\ record(NoUnit)
     \/ \E u \in Unit : TriggerEntry(u) /\ record(u)
     \/ \E u \in Unit, l \in Unit \cup {NoUnit} :
          l \in {u, NoUnit} /\ UnitEvent(u) /\ record(l)
     \/ Work /\ record(last)
  /\ UNCHANGED <<pending, target, crashes>>

-----------------------------------------------------------------------------
\* job_merge_trigger_iskeep
job_merge_trigger_iskeep(kind) == kind \in {"Stop", "Verify", "Nop"}

\* rentry_trigger_merge: a job that may have been half done becomes one that can
\* be done again; the unit named by the last words gets one in any case.
rentry_trigger_merge(re, force) ==
  LET always == {"ignore_order", "irreversible"} \cup (IF force THEN {"force"} ELSE {})
      old == IF re = NoRe THEN [kind |-> "Restart", attr |-> always \cup {"no_relevancy"}] ELSE re
      keep == job_merge_trigger_iskeep(old.kind)
  IN  [kind |-> IF keep THEN old.kind ELSE "Restart",
       attr |-> old.attr \cup always \cup IF keep THEN {} ELSE {"no_relevancy"}]

\* db_compensate: the history first, then the last words.
db_compensate(re, is_last) ==
  LET history == IF re = NoRe THEN NoRe ELSE rentry_trigger_merge(re, FALSE) IN
  IF is_last THEN rentry_trigger_merge(history, TRUE) ELSE history

\* Mutant: a recovered job is not marked to be triggered again.
db_map_no_retrigger(suspends, re, is_live) ==
  gc(reshuffle([NewJobUnit EXCEPT
       !.trigger = IF re = NoRe THEN NoJob
                   ELSE [kind |-> re.kind, run_kind |-> job_rkind_new(re.kind), attr |-> re.attr],
       !.suspends = suspends, !.re_suspends = suspends, !.re_trigger = re], is_live))

\* Mutant: the job that is compensated is not recorded.
db_map_unrecorded(suspends, re, is_live) ==
  gc(reshuffle([NewJobUnit EXCEPT
       !.trigger = IF re = NoRe THEN NoJob
                   ELSE [kind |-> re.kind, run_kind |-> job_rkind_new(re.kind), attr |-> re.attr],
       !.retrigger = re # NoRe,
       !.suspends = suspends, !.re_suspends = suspends], is_live))

\* db_map of one unit: insert_trigger marks it to be triggered again, then the
\* suspended jobs are inserted and the entry is reshuffled.
db_map(suspends, re, is_live) ==
  gc(reshuffle([NewJobUnit EXCEPT
       !.trigger = IF re = NoRe THEN NoJob
                   ELSE [kind |-> re.kind, run_kind |-> job_rkind_new(re.kind), attr |-> re.attr],
       !.retrigger = re # NoRe,
       !.suspends = suspends, !.re_suspends = suspends, !.re_trigger = re], is_live))

\* The units the last words may name now: run() names the unit of a round before
\* it calls it, and nothing is committed before the round has ended.
may_be_last ==
  {last} \cup IF ~ recovering /\ running /\ todo = <<>>
                THEN {u \in ready : is_uv_runnable(u)} ELSE {}

\* The manager dies between two steps, or in a round, and starts again with
\* recover(); a daemon reload of an idle manager does the same.
Crash ==
  /\ crashes < MaxCrashes
  /\ crashes' = crashes + 1
  /\ \E lu \in may_be_last :
       LET re == [u \in Unit |-> db_compensate(stored[u].trigger, u = lu)]
           is_live(u) == is_active_or_reloading(active_state(stored[u].state))
       IN
       /\ jobs' = [u \in Unit |-> db_map(stored[u].suspends, re[u], is_live(u))]
       /\ stored' = [u \in Unit |-> [stored[u] EXCEPT !.trigger = re[u]]]
       /\ last' = lu
       /\ pending' = {u \in Unit : re[u] # NoRe}
  /\ ready' = {u \in Unit : is_ready(jobs'[u])}
  /\ state' = [u \in Unit |-> stored[u].state]
  /\ running' = (pending' # {})
  /\ target' = NoUnit
  /\ up_ready' = FALSE /\ armed' = FALSE /\ todo' = <<>>

\* do_compensate_last and do_compensate_others call trigger_unit: the unit of
\* the last words first, then the others in the order of a hash table.
TriggerUnit ==
  /\ target = NoUnit
  /\ \E u \in pending :
       /\ last \in pending => u = last
       /\ target' = u
       /\ pending' = pending \ {u}
  /\ UNCHANGED <<vars, stored, last, crashes>>

\* A round of run(Some(target)); the last words are not touched in recovery.
Round ==
  /\ target # NoUnit
  /\ PauseEntry(target) \/ TriggerEntry(target) \/ Work
  /\ stored' = IF todo' = <<>> THEN export' ELSE stored
  /\ UNCHANGED <<last, pending, target, crashes>>

\* The end of trigger_unit, and of recover() with the last of them.
TriggerUnitEnd ==
  /\ target # NoUnit /\ todo = <<>> /\ target \notin ready
  /\ try_enable(ready)
  /\ target' = NoUnit
  /\ running' = (pending # {})
  /\ last' = IF pending = {} THEN NoUnit ELSE last
  /\ UNCHANGED <<jobs, ready, state, todo, stored, pending, crashes>>

RNext == Operate \/ Crash \/ TriggerUnit \/ Round \/ TriggerUnitEnd

RSpec == RInit /\ [][RNext]_rvars

\* The manager does not stop by itself in the middle of recover().
RFairSpec == RSpec /\ WF_rvars(TriggerUnit) /\ WF_rvars(Round) /\ WF_rvars(TriggerUnitEnd)

-----------------------------------------------------------------------------
\* Every variable has its type.
RTypeOK ==
  /\ TypeOK
  /\ stored \in [Unit -> Record]
  /\ last \in Unit \cup {NoUnit} /\ target \in Unit \cup {NoUnit}
  /\ pending \subseteq Unit
  /\ crashes \in 0..MaxCrashes

\* trigger_unit asserts that something is triggered for each recovered job: the
\* rounds of the units before it leave a recovered job ready to be triggered.
RecoveredReady == todo = <<>> => pending \subseteq ready

\* Recovery comes to an end: no recovered job keeps run(Some(unit)) going.
RecoveryEnds == []<>(~ recovering)
=============================================================================
