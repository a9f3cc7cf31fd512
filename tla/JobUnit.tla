------------------------------- MODULE JobUnit -------------------------------
(***************************************************************************)
(* The jobs of one unit (core/bin/job/junit.rs, JobUnitData): at most one  *)
(* triggered job, the suspended ones by kind, the queue `sq' the next one  *)
(* is taken from, and the flags that say whether the entry may be          *)
(* triggered.  Every operation is a function from an entry to an entry.    *)
(*                                                                         *)
(* `sq' is a list in the fixed order [stop] | [(restart|start|reload) ->   *)
(* verify -> nop]; a set of kinds and its front say the same.  `order' and *)
(* `dirty' are raised and cleared within one operation of the table, which *)
(* here is one operator, so they are not kept.  re_suspends and re_trigger *)
(* are this unit's entries of the persistent JobRe tables (rentry.rs).     *)
(***************************************************************************)
EXTENDS JobEntry

NoJob == [kind |-> "none", run_kind |-> "none", attr |-> {}]
Job == [kind : BasicKind, run_kind : RunKind, attr : JobAttr]

NoRe == [kind |-> "none", attr |-> {}]
Re == [kind : BasicKind, attr : JobAttr]

\* HashMap<JobKind, Rc<Job>>: the attributes of the suspended jobs, by kind.
Absent == {"absent"}
Suspends == [BasicKind -> JobAttr \cup {Absent}]
NoSuspends == [k \in BasicKind |-> Absent]
kinds_of(f) == {k \in BasicKind : f[k] # Absent}

JobUnitData ==
  [suspends : Suspends, sq : SUBSET BasicKind, trigger : Job \cup {NoJob},
   interrupt : BOOLEAN, retrigger : BOOLEAN, pause : BOOLEAN,
   re_suspends : Suspends, re_trigger : Re \cup {NoRe}]

\* The entry of a unit that has no jobs: JobUnitData::new, and nothing stored.
NewJobUnit ==
  [suspends |-> NoSuspends, sq |-> {}, trigger |-> NoJob,
   interrupt |-> FALSE, retrigger |-> FALSE, pause |-> FALSE,
   re_suspends |-> NoSuspends, re_trigger |-> NoRe]

without(f, ks) == [k \in BasicKind |-> IF k \in ks THEN Absent ELSE f[k]]

suspended(uv, k) ==
  [kind |-> k, run_kind |-> job_rkind_new(k), attr |-> uv.suspends[k]]

is_empty(uv) == uv.trigger = NoJob /\ kinds_of(uv.suspends) = {}

-----------------------------------------------------------------------------
\* Conflicts: a Stop goes with nothing but a Nop.
others(kinds) == kinds \ {"Stop", "Nop"}
is_suspends_conflict(kinds) == "Stop" \in kinds /\ others(kinds) # {}
is_suspends_conflict_with(ks, ko) == is_suspends_conflict(ks \cup ko)

is_suspends_irreversible(uv) ==
  \E k \in kinds_of(uv.suspends) : "irreversible" \in uv.suspends[k]

\* Mutant: only a Stop that waits is protected from what would start the unit.
replace_with_any_stop(uv, st) ==
  \/ ~ ("Stop" \in kinds_of(uv.suspends) /\ others(kinds_of(st)) # {})
  \/ ~ is_suspends_irreversible(uv)

\* Can the jobs st of a stage replace the suspended ones?
is_suspends_replace_with(uv, st) ==
  LET ks == kinds_of(uv.suspends)  ko == kinds_of(st) IN
  \/ ~ (others(ks) # {} /\ "Stop" \in ko) /\ ~ ("Stop" \in ks /\ others(ko) # {})
  \/ ~ is_suspends_irreversible(uv)

-----------------------------------------------------------------------------
\* The queue.
sq_front(sq) ==
  CASE "Stop" \in sq    -> "Stop"
    [] "Restart" \in sq -> "Restart"
    [] "Start" \in sq   -> "Start"
    [] "Reload" \in sq  -> "Reload"
    [] "Verify" \in sq  -> "Verify"
    [] OTHER            -> "Nop"

sq_order(kinds) == IF "Stop" \in kinds THEN {"Stop"} ELSE kinds

\* Mutant: a Restart absorbs a Reload only.
merge_suspend_keeps_start(kinds, live) ==
  IF "Stop" \notin kinds /\ "Restart" \in kinds THEN kinds \cap {"Reload"} ELSE {}

\* jobs_merge_suspend: the suspended jobs that another one absorbs.
jobs_merge_suspend(kinds, live) ==
  CASE "Stop" \in kinds                         -> {}
    [] "Stop" \notin kinds /\ "Restart" \in kinds -> kinds \cap {"Start", "Reload"}
    [] "Stop" \notin kinds /\ "Restart" \notin kinds /\ {"Start", "Reload"} \subseteq kinds
         -> IF live THEN {"Start"} ELSE {"Reload"}
    [] OTHER                                    -> {}

\* Mutant: a Start interrupts the trigger as well.
prepare_start_interrupts(uv) ==
  IF uv.trigger # NoJob /\ uv.sq # {}
    THEN [uv EXCEPT !.interrupt = sq_front(uv.sq) \in {"Stop", "Restart", "Start"}]
    ELSE uv

\* jobs_merge_trigger_prepare: the front of the queue interrupts the trigger.
\* The flag keeps its value when there is no trigger or nothing queued.
jobs_merge_trigger_prepare(uv) ==
  IF uv.trigger # NoJob /\ uv.sq # {}
    THEN [uv EXCEPT !.interrupt = sq_front(uv.sq) \in {"Stop", "Restart"}]
    ELSE uv

\* reshuffle of a dirty entry; live: the unit is active or reloading.
reshuffle(uv, live) ==
  LET gone == jobs_merge_suspend(kinds_of(uv.suspends), live) IN
  jobs_merge_trigger_prepare(
    [uv EXCEPT !.suspends = without(uv.suspends, gone),
               !.re_suspends = without(uv.re_suspends, gone),
               !.sq = sq_order(kinds_of(uv.suspends) \ gone)])

\* Mutant: the jobs are dropped, their records are not.
flush_keeps_records(uv) == [uv EXCEPT !.suspends = NoSuspends]

\* flush_suspends: every suspended job ends as Cancelled.
flush_suspends(uv) ==
  [uv EXCEPT !.suspends = NoSuspends,
             !.re_suspends = without(uv.re_suspends, kinds_of(uv.suspends))]

\* merge_suspends, union: a job of the same kind takes the attributes of the
\* stage's one (merge_attr), any other is inserted (wait).
merge_attr(f, st) ==
  [k \in BasicKind |-> IF f[k] = Absent THEN st[k]
                      ELSE IF st[k] = Absent THEN f[k] ELSE f[k] \cup st[k]]
union_suspends(uv, st) ==
  [uv EXCEPT !.suspends = merge_attr(@, st),
             !.re_suspends = [k \in BasicKind |-> IF st[k] = Absent THEN @[k]
                                                 ELSE merge_attr(uv.suspends, st)[k]]]

\* Mutant: what conflicts is not flushed.
merge_without_flush(uv, st) == union_suspends(uv, st)

\* merge_suspends: replace what conflicts, join what does not.
merge_suspends(uv, st) ==
  union_suspends(
    IF is_suspends_conflict_with(kinds_of(uv.suspends), kinds_of(st))
      THEN flush_suspends(uv) ELSE uv, st)

\* Mutant: an inserted job does not make the entry dirty.
dirty_on_conflict_only(uv, st) ==
  is_suspends_conflict_with(kinds_of(uv.suspends), kinds_of(st))

\* Is the entry dirty after merge_suspends?  Merged attributes leave it clean.
merge_dirty(uv, st) ==
  \/ is_suspends_conflict_with(kinds_of(uv.suspends), kinds_of(st))
  \/ ~ (kinds_of(st) \subseteq kinds_of(uv.suspends))

\* remove_suspend for each kind, then reshuffle_entry.
remove_suspends(uv, kinds, live) ==
  reshuffle([uv EXCEPT !.suspends = without(uv.suspends, kinds),
                       !.re_suspends = without(uv.re_suspends,
                                               kinds_of(uv.suspends) \cap kinds)], live)

-----------------------------------------------------------------------------
\* calc_ready: what the entry would trigger now.
calc_ready(uv) ==
  CASE uv.pause                                              -> "none"
    [] ~uv.pause /\ uv.trigger # NoJob /\ uv.sq # {} /\ uv.interrupt -> "suspend"
    [] ~uv.pause /\ uv.trigger # NoJob /\ ~(uv.sq # {} /\ uv.interrupt)
         -> IF uv.retrigger THEN "retrigger" ELSE "none"
    [] OTHER -> IF uv.sq # {} THEN "suspend" ELSE "none"

is_ready(uv) == calc_ready(uv) # "none"

get_next_trigger(uv) ==
  IF calc_ready(uv) = "suspend" THEN suspended(uv, sq_front(uv.sq)) ELSE uv.trigger

\* is_next_trigger_order_with: may the next job of uv go before other's jobs?
is_next_trigger_order_with(uv, other, atom) ==
  LET job == get_next_trigger(uv) IN
  \/ "ignore_order" \in job.attr
  \/ job.kind = "Nop"
  \/ /\ \A k \in kinds_of(other.suspends) : ~ is_order_with(job, suspended(other, k), atom)
     /\ other.trigger # NoJob => ~ is_order_with(job, other.trigger, atom)

-----------------------------------------------------------------------------
\* do_trigger, up to the call of the unit: do_next_trigger, the end of the
\* interrupted trigger (Merged), and the record run() makes of the new one.
do_trigger(uv) ==
  IF calc_ready(uv) = "retrigger"
    THEN [uv EXCEPT !.retrigger = FALSE]
    ELSE LET k == sq_front(uv.sq)
             cur == suspended(uv, k)
             job == IF uv.trigger.kind = k
                      THEN [cur EXCEPT !.attr = cur.attr \cup uv.trigger.attr] ELSE cur
         IN  [uv EXCEPT !.suspends = without(uv.suspends, {k}),
                        !.sq = uv.sq \ {k},
                        !.trigger = job,
                        !.interrupt = FALSE,
                        !.retrigger = uv.retrigger /\ ~uv.interrupt,
                        !.re_suspends = without(uv.re_suspends, {k}),
                        !.re_trigger = [kind |-> k, attr |-> job.attr]]

\* do_trigger, after the unit answered EAgain: wait for the unit to change.
trigger_again(uv) == [uv EXCEPT !.pause = TRUE, !.retrigger = TRUE]

pause(uv) == [uv EXCEPT !.pause = TRUE]
resume(uv) == [uv EXCEPT !.pause = FALSE]

\* Job::finish -> update_runkind: a Restart whose stop is done goes on to start.
finish_retries(job, result) ==
  result = "Done" /\ job.kind = "Restart" /\ job.run_kind = "Stop"

\* Mutant: the interrupt of the job that ends is left pending.
finish_keeps_interrupt(uv, result) ==
  IF finish_retries(uv.trigger, result)
    THEN [uv EXCEPT !.trigger.run_kind = "Start", !.retrigger = TRUE]
    ELSE [uv EXCEPT !.trigger = NoJob, !.retrigger = FALSE, !.re_trigger = NoRe]

\* Mutant: a Restart whose stop is done is stopped again.
finish_never_starts(uv, result) ==
  IF finish_retries(uv.trigger, result)
    THEN [uv EXCEPT !.retrigger = TRUE]
    ELSE [uv EXCEPT !.trigger = NoJob, !.interrupt = FALSE, !.retrigger = FALSE,
                    !.re_trigger = NoRe]

finish_trigger(uv, result) ==
  IF finish_retries(uv.trigger, result)
    THEN [uv EXCEPT !.trigger.run_kind = "Start", !.retrigger = TRUE]
    ELSE [uv EXCEPT !.trigger = NoJob, !.interrupt = FALSE, !.retrigger = FALSE,
                    !.re_trigger = NoRe]

\* try_gc_empty_unit: the entry of a unit without jobs is dropped, and a new
\* one is made when it is needed; what is stored is not touched.
gc(uv) == IF is_empty(uv)
            THEN [NewJobUnit EXCEPT !.re_suspends = uv.re_suspends,
                                    !.re_trigger = uv.re_trigger]
            ELSE uv

-----------------------------------------------------------------------------
(* What holds of every entry between two operations of the table. *)

SuspendsMerged(uv) ==
  LET ks == kinds_of(uv.suspends) IN
  /\ uv.sq \subseteq ks /\ ks \ uv.sq \subseteq {"Nop"}
  /\ ~ is_suspends_conflict(ks)
  /\ "Restart" \in ks => ks \cap {"Start", "Reload"} = {}
  /\ ~ ({"Start", "Reload"} \subseteq ks)

InterruptOK(uv) ==
  /\ uv.interrupt => /\ uv.trigger # NoJob
                     /\ uv.sq # {}
                     /\ sq_front(uv.sq) \in {"Stop", "Restart"}
  /\ uv.retrigger => uv.trigger # NoJob

StoredOK(uv) ==
  /\ uv.re_suspends = uv.suspends
  /\ uv.re_trigger = IF uv.trigger = NoJob THEN NoRe
                     ELSE [kind |-> uv.trigger.kind, attr |-> uv.trigger.attr]
=============================================================================
