------------------------------ MODULE JobEntry ------------------------------
(***************************************************************************)
(* The vocabulary of the job engine: kinds, attributes, modes and results  *)
(* of a job (core/bin/job/rentry.rs, core/bin/job/entry.rs), and the pure  *)
(* tables entry.rs decides by: what a job becomes on a unit, which of two  *)
(* jobs of ordered units goes first, and what a change of the unit's       *)
(* active state means to the job that is running on it.                    *)
(***************************************************************************)

\* job_is_basic_op: the kinds a job in a table can have.
BasicKind == {"Start", "Stop", "Reload", "Restart", "Verify", "Nop"}

JobKind == BasicKind \cup {"TryReload", "TryRestart", "ReloadOrStart"}

\* What a running job asks of its unit; a Restart runs as Stop, then Start.
RunKind == BasicKind \ {"Restart"}

\* JobAttr is four booleans joined by 'or': the set of those that are true.
JobAttr == SUBSET {"ignore_order", "irreversible", "force", "no_relevancy"}

JobMode == {"Fail", "Replace", "ReplaceIrreversible", "Isolate", "Flush",
            "IgnoreDependencies", "IgnoreRequirements", "Trigger"}

\* The results this model tells apart; the other JobResults that are not Done
\* (Invalid, Assert, UnSupported, Once, ...) are handled like Skipped.
JobResult == {"Done", "Failed", "Skipped"}

ActiveState == {"Active", "Reloading", "InActive", "Failed", "Activating",
                "DeActivating", "Maintenance"}

is_active_or_reloading(s) == s \in {"Active", "Reloading"}
is_inactive_or_failed(s) == s \in {"InActive", "Failed"}

-----------------------------------------------------------------------------
\* JobConf::map: a compound kind becomes a basic one by the unit's state.
job_merge_unit(kind, s) ==
  LET live == is_active_or_reloading(s) IN
  CASE kind = "TryReload"     -> IF live THEN "Reload"  ELSE "Nop"
    [] kind = "TryRestart"    -> IF live THEN "Restart" ELSE "Nop"
    [] kind = "ReloadOrStart" -> IF live THEN "Reload"  ELSE "Start"
    [] OTHER                  -> kind

init_attr(kind, mode) ==
  (IF mode = "IgnoreDependencies" \/ kind = "Nop" THEN {"ignore_order"} ELSE {})
    \cup (IF mode = "ReplaceIrreversible" THEN {"irreversible"} ELSE {})

\* Mutant: a Restart is run as it is, not as a Stop first.
job_rkind_new_unmapped(kind) == kind

job_rkind_new(kind) == IF kind = "Restart" THEN "Stop" ELSE kind

\* job_order_compare(a, b, atom) > 0: of two jobs whose units are related by
\* atom (the unit of a is After or Before the unit of b), a waits for b.
\* Stops go in the reverse of the starting order, and before starts.
waits_for(rk_a, rk_b, atom) ==
  /\ rk_a # "Nop" /\ rk_b # "Nop"
  /\ \/ atom = "Before" /\ rk_b = "Stop"
     \/ atom = "After"  /\ rk_a # "Stop"

\* Job::is_order_with > 0; a job is any record with a run_kind and an attr.
is_order_with(a, b, atom) ==
  /\ "ignore_order" \notin a.attr
  /\ "ignore_order" \notin b.attr
  /\ waits_for(a.run_kind, b.run_kind, atom)

-----------------------------------------------------------------------------
\* job_process_unit: what the new active state ns says about the running job:
\* a result, or "none" to keep it, and whether the job generated the change.
job_process_unit_start(ns) ==
  [result |-> CASE ns \in {"Active", "InActive"} -> "Done"
                [] ns = "Failed"                 -> "Failed"
                [] OTHER                         -> "none",
   generated |-> ns \in {"Active", "Activating"}]

job_process_unit_stop(ns) ==
  [result |-> CASE is_inactive_or_failed(ns) -> "Done"
                [] ns = "DeActivating"       -> "none"
                [] OTHER                     -> "Failed",
   generated |-> is_inactive_or_failed(ns) \/ ns = "DeActivating"]

job_process_unit_reload(ns, reload_failure) ==
  [result |-> CASE ns = "Active"   -> IF reload_failure THEN "Failed" ELSE "Done"
                [] ns = "InActive" -> "Done"
                [] ns = "Failed"   -> "Failed"
                [] OTHER           -> "none",
   generated |-> is_active_or_reloading(ns)]

\* The kinds job_process_unit accepts; any other reaches its unreachable!().
ProcessKind == {"Start", "Stop", "Reload"}

job_process_unit(run_kind, ns, reload_failure) ==
  CASE run_kind = "Start"  -> job_process_unit_start(ns)
    [] run_kind = "Stop"   -> job_process_unit_stop(ns)
    [] run_kind = "Reload" -> job_process_unit_reload(ns, reload_failure)
    [] OTHER               -> [result |-> "none", generated |-> TRUE]

\* Mutant: a unit that is there already does not end its job.
job_trigger_err_no_already(err) ==
  CASE err \in {"Ok", "EAlready"} -> "none"
    [] err = "EAgain"             -> "again"
    [] err = "EComm"              -> "Done"
    [] err \in {"EFailed", "EInval", "EBusy", "ENoent", "ECanceled"} -> "Failed"
    [] OTHER                      -> "Skipped"

\* job_trigger_err_to_result: how a call of the unit ends the job at once;
\* "again" re-triggers it, "none" leaves it running (the call succeeded).
job_trigger_err_to_result(err) ==
  CASE err = "Ok"                              -> "none"
    [] err = "EAgain"                          -> "again"
    [] err \in {"EAlready", "EComm"}           -> "Done"
    [] err \in {"EFailed", "EInval", "EBusy", "ENoent", "ECanceled"} -> "Failed"
    [] OTHER                                   -> "Skipped"
=============================================================================
