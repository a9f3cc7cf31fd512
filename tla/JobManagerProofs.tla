-------------------------- MODULE JobManagerProofs --------------------------
(***************************************************************************)
(* The job engine keeps its table consistent, for every set of units and   *)
(* every configuration of dependencies, job modes and commands, with and   *)
(* without crashes of the manager.                                         *)
(*                                                                         *)
(* The inductive invariant IInv has a part for every entry (EntryOK), one  *)
(* for the ready queue, one for the work under way and one for the event   *)
(* source.  The operations of a JobUnit entry are shown to keep EntryOK    *)
(* first, then the operators of JobTransaction to keep the parts about the *)
(* table, then every action is.                                            *)
(*                                                                         *)
(* The last part is about JobRecovery: its invariant RInv is IInv without  *)
(* the event source, what is stored, and the jobs still to be triggered.   *)
(***************************************************************************)
EXTENDS JobRecovery, TLAPS

-----------------------------------------------------------------------------
(* What the operations of a JobUnit entry preserve, for every entry. *)

\* Attributes are joined by union, and "absent" is none of them.
LEMMA AttrType ==
  /\ \A x, y \in JobAttr : x \cup y \in JobAttr
  /\ Absent \notin JobAttr
  /\ {} \in JobAttr
  BY DEF JobAttr, Absent

\* The fields of an entry.
LEMMA EntryType ==
  ASSUME NEW uv \in JobUnitData
  PROVE  /\ uv.suspends \in Suspends /\ uv.re_suspends \in Suspends
         /\ uv.sq \subseteq BasicKind
         /\ uv.trigger \in Job \cup {NoJob} /\ uv.re_trigger \in Re \cup {NoRe}
         /\ uv.interrupt \in BOOLEAN /\ uv.retrigger \in BOOLEAN /\ uv.pause \in BOOLEAN
  BY DEF JobUnitData

\* Removing kinds from a map of suspended jobs removes exactly those kinds.
LEMMA WithoutType ==
  ASSUME NEW f \in Suspends, NEW ks
  PROVE  /\ without(f, ks) \in Suspends
         /\ kinds_of(without(f, ks)) = kinds_of(f) \ ks
  BY DEF Suspends, without, kinds_of

\* The map without suspended jobs is the only one without kinds.
LEMMA EmptyType ==
  /\ NoSuspends \in Suspends
  /\ kinds_of(NoSuspends) = {}
  /\ \A f \in Suspends : kinds_of(f) = {} => f = NoSuspends
  BY DEF Suspends, NoSuspends, kinds_of

\* Merged maps hold the kinds of both.
LEMMA MergeAttrType ==
  ASSUME NEW f \in Suspends, NEW g \in Suspends
  PROVE  /\ merge_attr(f, g) \in Suspends
         /\ kinds_of(merge_attr(f, g)) = kinds_of(f) \cup kinds_of(g)
  <1>1. ASSUME NEW k \in BasicKind
        PROVE  /\ merge_attr(f, g)[k] \in JobAttr \cup {Absent}
               /\ merge_attr(f, g)[k] # Absent <=> f[k] # Absent \/ g[k] # Absent
    BY AttrType DEF merge_attr, Suspends
  <1>2. merge_attr(f, g) \in Suspends
    BY <1>1 DEF merge_attr, Suspends
  <1>3. QED
    BY <1>1, <1>2 DEF kinds_of

\* The front of a queue that is not empty is one of its kinds.
LEMMA FrontType ==
  /\ \A sq \in SUBSET BasicKind : sq # {} => sq_front(sq) \in sq
  /\ \A sq : sq_front(sq) \in BasicKind
  BY DEF sq_front, BasicKind

\* A suspended job is a job.
LEMMA SuspendedType ==
  ASSUME NEW uv \in JobUnitData, NEW k \in kinds_of(uv.suspends)
  PROVE  suspended(uv, k) \in Job
  BY EntryType DEF suspended, Job, job_rkind_new, RunKind, BasicKind, kinds_of, Suspends

-----------------------------------------------------------------------------
(* An entry's invariant: its type, the merged suspends, what is stored, and   *)
(* the part of InterruptOK that every request keeps.  A Flush or an Isolate   *)
(* request may leave an interrupt mark with an empty queue, hence NotStale.   *)

FlagsOK(uv) ==
  /\ uv.interrupt => /\ uv.trigger # NoJob
                     /\ uv.sq # {} => sq_front(uv.sq) \in {"Stop", "Restart"}
  /\ uv.retrigger => uv.trigger # NoJob

NotStale(uv) == uv.interrupt => uv.sq # {}

EntryOK(uv) == uv \in JobUnitData /\ SuspendsMerged(uv) /\ StoredOK(uv) /\ FlagsOK(uv)

\* The two parts together are what InterrupterExists says of an entry.
LEMMA InterruptParts ==
  ASSUME NEW uv, EntryOK(uv)
  PROVE  InterruptOK(uv) <=> NotStale(uv)
  BY DEF EntryOK, FlagsOK, NotStale, InterruptOK

\* No irreversible job is lost to one that it conflicts with.
Kept(uv, e) ==
  \A k \in kinds_of(uv.suspends) :
    "irreversible" \in uv.suspends[k] /\ k \notin kinds_of(e.suspends)
      => ~ is_suspends_conflict_with({k}, kinds_of(e.suspends))

\* An entry that gets no new kind loses nothing to a conflict.
LEMMA ShrinkKept ==
  ASSUME NEW uv, EntryOK(uv), NEW e, kinds_of(e.suspends) \subseteq kinds_of(uv.suspends)
  PROVE  Kept(uv, e)
  BY DEF EntryOK, SuspendsMerged, Kept, is_suspends_conflict_with, is_suspends_conflict, others

\* The entry of a unit without jobs.
LEMMA NewJobUnitOK == EntryOK(NewJobUnit) /\ NotStale(NewJobUnit) /\ is_empty(NewJobUnit)
  <1>1. NewJobUnit \in JobUnitData
    BY EmptyType DEF NewJobUnit, JobUnitData
  <1>2. SuspendsMerged(NewJobUnit) /\ is_empty(NewJobUnit)
    BY EmptyType DEF NewJobUnit, SuspendsMerged, is_suspends_conflict, is_empty
  <1>3. StoredOK(NewJobUnit) /\ FlagsOK(NewJobUnit) /\ NotStale(NewJobUnit)
    BY DEF NewJobUnit, StoredOK, FlagsOK, NotStale
  <1>4. QED
    BY <1>1, <1>2, <1>3 DEF EntryOK

\* Pausing and resuming an entry leaves its jobs alone, and a paused entry is
\* not ready.
LEMMA PauseOK ==
  ASSUME NEW uv, EntryOK(uv)
  PROVE  /\ EntryOK(pause(uv)) /\ EntryOK(resume(uv))
         /\ NotStale(uv) => NotStale(pause(uv)) /\ NotStale(resume(uv))
         /\ pause(uv).trigger = uv.trigger /\ resume(uv).trigger = uv.trigger
         /\ pause(uv).suspends = uv.suspends /\ resume(uv).suspends = uv.suspends
         /\ ~ is_ready(pause(uv))
         /\ ~ uv.pause => resume(uv) = uv
         /\ is_empty(uv) => is_empty(resume(uv))
  <1>1. uv \in JobUnitData
    BY DEF EntryOK
  <1>2. pause(uv) \in JobUnitData /\ resume(uv) \in JobUnitData
    BY <1>1 DEF JobUnitData, pause, resume
  <1>3. /\ SuspendsMerged(pause(uv)) /\ SuspendsMerged(resume(uv))
        /\ StoredOK(pause(uv)) /\ StoredOK(resume(uv))
        /\ FlagsOK(pause(uv)) /\ FlagsOK(resume(uv))
    BY <1>1 DEF EntryOK, JobUnitData, pause, resume, SuspendsMerged, StoredOK, FlagsOK
  <1>4. /\ NotStale(uv) => NotStale(pause(uv)) /\ NotStale(resume(uv))
        /\ pause(uv).trigger = uv.trigger /\ resume(uv).trigger = uv.trigger
        /\ pause(uv).suspends = uv.suspends /\ resume(uv).suspends = uv.suspends
    BY <1>1 DEF JobUnitData, pause, resume, NotStale
  <1>5. ~ is_ready(pause(uv)) /\ (is_empty(uv) => is_empty(resume(uv)))
    BY <1>1 DEF JobUnitData, pause, resume, is_ready, calc_ready, is_empty
  <1>6. ~ uv.pause => resume(uv) = uv
    BY <1>1 DEF JobUnitData, resume
  <1>7. QED
    BY <1>2, <1>3, <1>4, <1>5, <1>6 DEF EntryOK

\* gc makes a new entry of an empty one, and changes no other.
LEMMA GcOK ==
  ASSUME NEW uv, EntryOK(uv)
  PROVE  /\ EntryOK(gc(uv))
         /\ NotStale(uv) => NotStale(gc(uv))
         /\ is_ready(gc(uv)) <=> is_ready(uv)
         /\ gc(uv).pause => uv.pause
         /\ (is_empty(gc(uv)) <=> is_empty(uv))
         /\ gc(uv).trigger = uv.trigger /\ gc(uv).suspends = uv.suspends
  <1>1. uv \in JobUnitData
    BY DEF EntryOK
  <1>2. CASE is_empty(uv)
    <2>1. uv.suspends = NoSuspends /\ uv.trigger = NoJob /\ uv.sq = {}
      BY <1>1, <1>2, EmptyType, EntryType DEF is_empty, EntryOK, SuspendsMerged
    <2>2. uv.re_suspends = NoSuspends /\ uv.re_trigger = NoRe
      BY <2>1 DEF EntryOK, StoredOK
    <2>3. gc(uv) = NewJobUnit
      BY <1>2, <2>2 DEF gc, NewJobUnit
    <2>4. ~ is_ready(uv)
      BY <2>1 DEF is_ready, calc_ready
    <2>5. ~ is_ready(NewJobUnit)
      BY DEF NewJobUnit, is_ready, calc_ready
    <2>6. NewJobUnit.suspends = NoSuspends /\ NewJobUnit.trigger = NoJob /\ ~ NewJobUnit.pause
      BY DEF NewJobUnit
    <2>7. QED
      BY <1>2, <2>1, <2>3, <2>4, <2>5, <2>6, NewJobUnitOK
  <1>3. CASE ~ is_empty(uv)
    BY <1>3 DEF gc
  <1>4. QED
    BY <1>2, <1>3

-----------------------------------------------------------------------------
\* What merging and ordering leave of a set of kinds without a conflict.
LEMMA MergedKinds ==
  ASSUME NEW ks \in SUBSET BasicKind, ~ is_suspends_conflict(ks), NEW is_live
  PROVE  LET left == ks \ jobs_merge_suspend(ks, is_live) IN
         /\ ~ is_suspends_conflict(left)
         /\ "Restart" \in left => left \cap {"Start", "Reload"} = {}
         /\ ~ ({"Start", "Reload"} \subseteq left)
         /\ left = {} <=> ks = {}
         /\ sq_order(left) \subseteq left /\ left \ sq_order(left) \subseteq {"Nop"}
         /\ sq_order(left) = {} <=> left = {}
  <1> DEFINE gone == jobs_merge_suspend(ks, is_live)
             left == ks \ gone
  <1>1. CASE "Stop" \in ks
    <2>1. gone = {}
      BY <1>1 DEF jobs_merge_suspend
    <2>2. QED
      BY <1>1, <2>1 DEF is_suspends_conflict, others, sq_order
  <1>2. CASE "Stop" \notin ks /\ "Restart" \in ks
    <2>1. gone = ks \cap {"Start", "Reload"}
      BY <1>2 DEF jobs_merge_suspend
    <2>2. QED
      BY <1>2, <2>1 DEF is_suspends_conflict, others, sq_order
  <1>3. CASE "Stop" \notin ks /\ "Restart" \notin ks /\ {"Start", "Reload"} \subseteq ks
    <2>1. gone = {"Start"} \/ gone = {"Reload"}
      BY <1>3 DEF jobs_merge_suspend
    <2>2. QED
      BY <1>3, <2>1 DEF is_suspends_conflict, others, sq_order
  <1>4. CASE "Stop" \notin ks /\ "Restart" \notin ks /\ ~ ({"Start", "Reload"} \subseteq ks)
    <2>1. gone = {}
      BY <1>4 DEF jobs_merge_suspend
    <2>2. QED
      BY <1>4, <2>1 DEF is_suspends_conflict, others, sq_order
  <1>5. QED
    BY <1>1, <1>2, <1>3, <1>4

\* jobs_merge_trigger_prepare changes the interrupt mark only.
LEMMA PrepareFields ==
  ASSUME NEW uv \in JobUnitData
  PROVE  LET r == jobs_merge_trigger_prepare(uv)
             stops == sq_front(uv.sq) \in {"Stop", "Restart"}
         IN  /\ r \in JobUnitData
             /\ r = [uv EXCEPT !.interrupt = r.interrupt]
             /\ uv.trigger # NoJob /\ uv.sq # {} => (r.interrupt <=> stops)
             /\ ~ (uv.trigger # NoJob /\ uv.sq # {}) => r.interrupt = uv.interrupt
  <1> DEFINE r == jobs_merge_trigger_prepare(uv)
             stops == sq_front(uv.sq) \in {"Stop", "Restart"}
  <1>1. CASE uv.trigger # NoJob /\ uv.sq # {}
    <2>1. stops \in BOOLEAN
      OBVIOUS
    <2>2. r = [uv EXCEPT !.interrupt = stops]
      BY <1>1 DEF jobs_merge_trigger_prepare
    <2> HIDE DEF stops, r
    <2>3. r \in JobUnitData /\ r.interrupt = stops /\ r = [uv EXCEPT !.interrupt = r.interrupt]
      BY <2>1, <2>2 DEF JobUnitData
    <2>4. QED
      BY <1>1, <2>3 DEF r, stops
  <1>2. CASE ~ (uv.trigger # NoJob /\ uv.sq # {})
    <2>1. r = uv
      BY <1>2 DEF jobs_merge_trigger_prepare
    <2>2. uv = [uv EXCEPT !.interrupt = uv.interrupt]
      BY DEF JobUnitData
    <2>3. QED
      BY <1>2, <2>1, <2>2
  <1>3. QED
    BY <1>1, <1>2

\* The fields of a reshuffled entry.
LEMMA ReshuffleFields ==
  ASSUME NEW uv \in JobUnitData, NEW is_live
  PROVE  LET r == reshuffle(uv, is_live)
             gone == jobs_merge_suspend(kinds_of(uv.suspends), is_live)
         IN  /\ r \in JobUnitData
             /\ r.suspends = without(uv.suspends, gone)
             /\ r.re_suspends = without(uv.re_suspends, gone)
             /\ r.sq = sq_order(kinds_of(uv.suspends) \ gone)
             /\ r.trigger = uv.trigger /\ r.retrigger = uv.retrigger /\ r.pause = uv.pause
             /\ r.re_trigger = uv.re_trigger
             /\ r.trigger # NoJob /\ r.sq # {}
                => (r.interrupt <=> sq_front(r.sq) \in {"Stop", "Restart"})
             /\ ~ (r.trigger # NoJob /\ r.sq # {}) => r.interrupt = uv.interrupt
  <1> DEFINE gone == jobs_merge_suspend(kinds_of(uv.suspends), is_live)
             sq == sq_order(kinds_of(uv.suspends) \ gone)
             mid == [uv EXCEPT !.suspends = without(uv.suspends, gone),
                               !.re_suspends = without(uv.re_suspends, gone),
                               !.sq = sq]
  <1>1. sq \subseteq BasicKind
    BY DEF sq_order, kinds_of, BasicKind
  <1>2. /\ without(uv.suspends, gone) \in Suspends
        /\ without(uv.re_suspends, gone) \in Suspends
    BY EntryType, WithoutType
  <1>3. /\ mid \in JobUnitData
        /\ mid.suspends = without(uv.suspends, gone)
        /\ mid.re_suspends = without(uv.re_suspends, gone)
        /\ mid.sq = sq
        /\ mid.trigger = uv.trigger /\ mid.retrigger = uv.retrigger /\ mid.pause = uv.pause
        /\ mid.re_trigger = uv.re_trigger /\ mid.interrupt = uv.interrupt
    <2> HIDE DEF gone, sq
    <2> QED
      BY <1>1, <1>2 DEF JobUnitData
  <1>4. reshuffle(uv, is_live) = jobs_merge_trigger_prepare(mid)
    BY DEF reshuffle
  <1> DEFINE r == reshuffle(uv, is_live)
  <1> HIDE DEF mid
  <1>5. /\ r \in JobUnitData
        /\ r = [mid EXCEPT !.interrupt = r.interrupt]
        /\ mid.trigger # NoJob /\ mid.sq # {}
           => (r.interrupt <=> sq_front(mid.sq) \in {"Stop", "Restart"})
        /\ ~ (mid.trigger # NoJob /\ mid.sq # {}) => r.interrupt = mid.interrupt
    BY <1>3, <1>4, PrepareFields
  <1> HIDE DEF r
  <1>6. /\ r.suspends = mid.suspends /\ r.re_suspends = mid.re_suspends /\ r.sq = mid.sq
        /\ r.trigger = mid.trigger /\ r.retrigger = mid.retrigger /\ r.pause = mid.pause
        /\ r.re_trigger = mid.re_trigger
    BY <1>3, <1>5 DEF JobUnitData
  <1>7. QED
    BY <1>3, <1>5, <1>6 DEF r

\* A reshuffled entry is consistent when its suspended jobs were free of
\* conflicts.
LEMMA ReshuffleOK ==
  ASSUME NEW uv \in JobUnitData, StoredOK(uv), NEW is_live,
         ~ is_suspends_conflict(kinds_of(uv.suspends)),
         uv.interrupt => uv.trigger # NoJob, uv.retrigger => uv.trigger # NoJob
  PROVE  LET r == reshuffle(uv, is_live) IN
         /\ EntryOK(r)
         /\ r.trigger = uv.trigger
         /\ kinds_of(r.suspends) \subseteq kinds_of(uv.suspends)
         /\ kinds_of(r.suspends) = {} <=> kinds_of(uv.suspends) = {}
         /\ (uv.interrupt => kinds_of(uv.suspends) # {}) => NotStale(r)
  <1> DEFINE ks == kinds_of(uv.suspends)
             gone == jobs_merge_suspend(ks, is_live)
             r == reshuffle(uv, is_live)
  <1>1. ks \in SUBSET BasicKind
    BY DEF kinds_of
  <1>2. /\ r \in JobUnitData
        /\ r.suspends = without(uv.suspends, gone)
        /\ r.re_suspends = without(uv.re_suspends, gone)
        /\ r.sq = sq_order(ks \ gone)
        /\ r.trigger = uv.trigger /\ r.retrigger = uv.retrigger /\ r.pause = uv.pause
        /\ r.re_trigger = uv.re_trigger
        /\ r.trigger # NoJob /\ r.sq # {}
           => (r.interrupt <=> sq_front(r.sq) \in {"Stop", "Restart"})
        /\ ~ (r.trigger # NoJob /\ r.sq # {}) => r.interrupt = uv.interrupt
    BY ReshuffleFields
  <1>3. kinds_of(r.suspends) = ks \ gone
    BY <1>2, WithoutType, EntryType
  <1>4. /\ ~ is_suspends_conflict(ks \ gone)
        /\ "Restart" \in ks \ gone => (ks \ gone) \cap {"Start", "Reload"} = {}
        /\ ~ ({"Start", "Reload"} \subseteq ks \ gone)
        /\ ks \ gone = {} <=> ks = {}
        /\ sq_order(ks \ gone) \subseteq ks \ gone
        /\ (ks \ gone) \ sq_order(ks \ gone) \subseteq {"Nop"}
        /\ sq_order(ks \ gone) = {} <=> ks \ gone = {}
    BY <1>1, MergedKinds
  <1> HIDE DEF gone, ks, r
  <1>5. SuspendsMerged(r)
    BY <1>2, <1>3, <1>4 DEF SuspendsMerged
  <1>6. StoredOK(r)
    BY <1>2 DEF StoredOK
  <1>7. FlagsOK(r) /\ ((uv.interrupt => ks # {}) => NotStale(r))
    BY <1>2, <1>4 DEF FlagsOK, NotStale
  <1>8. EntryOK(r)
    BY <1>2, <1>5, <1>6, <1>7 DEF EntryOK
  <1>9. QED
    BY <1>2, <1>3, <1>4, <1>7, <1>8 DEF ks, r

-----------------------------------------------------------------------------
\* flush_suspends empties an entry and what is stored of its suspended jobs.
LEMMA FlushOK ==
  ASSUME NEW uv, EntryOK(uv)
  PROVE  LET f == flush_suspends(uv) IN
         /\ f \in JobUnitData /\ StoredOK(f)
         /\ f.suspends = NoSuspends /\ kinds_of(f.suspends) = {}
         /\ f = [uv EXCEPT !.suspends = NoSuspends, !.re_suspends = NoSuspends]
  <1> DEFINE re == without(uv.re_suspends, kinds_of(uv.suspends))
  <1>1. uv \in JobUnitData /\ uv.re_suspends = uv.suspends
    BY DEF EntryOK, StoredOK
  <1>2. re = NoSuspends
    BY <1>1, EntryType, WithoutType, EmptyType
  <1>3. flush_suspends(uv) = [uv EXCEPT !.suspends = NoSuspends, !.re_suspends = NoSuspends]
    BY <1>2 DEF flush_suspends
  <1>4. flush_suspends(uv) \in JobUnitData
    BY <1>1, <1>3, EmptyType DEF JobUnitData
  <1>5. StoredOK(flush_suspends(uv)) /\ flush_suspends(uv).suspends = NoSuspends
    BY <1>1, <1>3 DEF JobUnitData, StoredOK, EntryOK
  <1>6. QED
    BY <1>3, <1>4, <1>5, EmptyType

\* union_suspends stores what it holds.
LEMMA UnionOK ==
  ASSUME NEW uv \in JobUnitData, StoredOK(uv), NEW st \in Suspends
  PROVE  LET m == union_suspends(uv, st) IN
         /\ m \in JobUnitData /\ StoredOK(m)
         /\ kinds_of(m.suspends) = kinds_of(uv.suspends) \cup kinds_of(st)
         /\ m.sq = uv.sq /\ m.trigger = uv.trigger /\ m.interrupt = uv.interrupt
         /\ m.retrigger = uv.retrigger /\ m.pause = uv.pause
  <1> DEFINE f == merge_attr(uv.suspends, st)
             g == [k \in BasicKind |-> IF st[k] = Absent THEN uv.re_suspends[k] ELSE f[k]]
             m == union_suspends(uv, st)
  <1>1. /\ uv.suspends \in Suspends /\ uv.re_suspends = uv.suspends
        /\ f \in Suspends /\ kinds_of(f) = kinds_of(uv.suspends) \cup kinds_of(st)
    BY EntryType, MergeAttrType DEF StoredOK
  <1>2. g = f
    <2>1. ASSUME NEW k \in BasicKind PROVE g[k] = f[k]
      BY <1>1 DEF merge_attr
    <2> QED
      BY <1>1, <2>1 DEF Suspends, merge_attr
  <1>3. m = [uv EXCEPT !.suspends = f, !.re_suspends = g]
    BY DEF union_suspends
  <1> HIDE DEF f, g, m
  <1>4. /\ m \in JobUnitData /\ m.suspends = f /\ m.re_suspends = f
        /\ m.sq = uv.sq /\ m.trigger = uv.trigger /\ m.interrupt = uv.interrupt
        /\ m.retrigger = uv.retrigger /\ m.pause = uv.pause /\ m.re_trigger = uv.re_trigger
    BY <1>1, <1>2, <1>3 DEF JobUnitData
  <1>5. StoredOK(m)
    BY <1>4 DEF StoredOK
  <1>6. QED
    BY <1>1, <1>4, <1>5 DEF m

\* Merging a stage leaves no conflict, and loses no job but to a conflict.
LEMMA MergeOK ==
  ASSUME NEW uv, EntryOK(uv), NEW st \in Suspends, ~ is_suspends_conflict(kinds_of(st))
  PROVE  LET m == merge_suspends(uv, st) IN
         /\ m \in JobUnitData /\ StoredOK(m)
         /\ ~ is_suspends_conflict(kinds_of(m.suspends))
         /\ kinds_of(uv.suspends) # {} => kinds_of(m.suspends) # {}
         /\ kinds_of(st) \subseteq kinds_of(m.suspends)
         /\ ~ merge_dirty(uv, st) => kinds_of(m.suspends) = kinds_of(uv.suspends)
         /\ ~ is_suspends_conflict_with(kinds_of(uv.suspends), kinds_of(st))
            => kinds_of(m.suspends) = kinds_of(uv.suspends) \cup kinds_of(st)
         /\ m.sq = uv.sq /\ m.trigger = uv.trigger /\ m.interrupt = uv.interrupt
         /\ m.retrigger = uv.retrigger /\ m.pause = uv.pause
  <1> DEFINE m == merge_suspends(uv, st)
             clash == is_suspends_conflict_with(kinds_of(uv.suspends), kinds_of(st))
             base == IF clash THEN flush_suspends(uv) ELSE uv
  <1>1. uv \in JobUnitData /\ StoredOK(uv)
    BY DEF EntryOK
  <1>2. /\ base \in JobUnitData /\ StoredOK(base)
        /\ kinds_of(base.suspends) = IF clash THEN {} ELSE kinds_of(uv.suspends)
        /\ base.sq = uv.sq /\ base.trigger = uv.trigger /\ base.interrupt = uv.interrupt
        /\ base.retrigger = uv.retrigger /\ base.pause = uv.pause
    <2>1. CASE clash
      <3>1. base = flush_suspends(uv)
        BY <2>1
      <3>2. base = [uv EXCEPT !.suspends = NoSuspends, !.re_suspends = NoSuspends]
        BY <3>1, FlushOK
      <3>3. base \in JobUnitData /\ StoredOK(base) /\ kinds_of(base.suspends) = {}
        BY <3>1, FlushOK
      <3> HIDE DEF base, clash
      <3>4. QED
        BY <1>1, <2>1, <3>2, <3>3 DEF JobUnitData
    <2>2. CASE ~ clash
      BY <1>1, <2>2
    <2>3. QED
      BY <2>1, <2>2
  <1>3. m = union_suspends(base, st)
    BY DEF merge_suspends
  <1> HIDE DEF base
  <1>4. /\ m \in JobUnitData /\ StoredOK(m)
        /\ kinds_of(m.suspends) = kinds_of(base.suspends) \cup kinds_of(st)
        /\ m.sq = uv.sq /\ m.trigger = uv.trigger /\ m.interrupt = uv.interrupt
        /\ m.retrigger = uv.retrigger /\ m.pause = uv.pause
    BY <1>2, <1>3, UnionOK
  <1>5. /\ ~ is_suspends_conflict(kinds_of(m.suspends))
        /\ kinds_of(uv.suspends) # {} => kinds_of(m.suspends) # {}
    <2>1. ~ is_suspends_conflict(kinds_of(uv.suspends))
      BY DEF EntryOK, SuspendsMerged
    <2>2. CASE clash
      <3>1. kinds_of(m.suspends) = kinds_of(st)
        BY <1>2, <1>4, <2>2
      <3>2. is_suspends_conflict(kinds_of(uv.suspends) \cup kinds_of(st))
        BY <2>2 DEF is_suspends_conflict_with
      <3>3. kinds_of(st) # {}
        BY <2>1, <3>2
      <3>4. QED
        BY <3>1, <3>3
    <2>3. CASE ~ clash
      BY <1>2, <1>4, <2>3 DEF is_suspends_conflict_with
    <2>4. QED
      BY <2>2, <2>3
  <1>6. /\ ~ merge_dirty(uv, st) => kinds_of(m.suspends) = kinds_of(uv.suspends)
        /\ ~ clash => kinds_of(m.suspends) = kinds_of(uv.suspends) \cup kinds_of(st)
    BY <1>2, <1>4 DEF merge_dirty
  <1>7. QED
    BY <1>4, <1>5, <1>6

\* An entry merged with the jobs of a stage and, if that made it dirty, reshuffled.
LEMMA CommitEntryOK ==
  ASSUME NEW uv, EntryOK(uv), NEW st \in Suspends, ~ is_suspends_conflict(kinds_of(st)),
         NEW is_live
  PROVE  LET m == merge_suspends(uv, st)
             e == IF merge_dirty(uv, st) THEN reshuffle(m, is_live) ELSE m
         IN  /\ EntryOK(e)
             /\ NotStale(uv) => NotStale(e)
             /\ ~ merge_dirty(uv, st) => (is_ready(e) <=> is_ready(uv)) /\ e.pause = uv.pause
             /\ e.trigger = uv.trigger
             /\ (is_suspends_conflict_with(kinds_of(uv.suspends), kinds_of(st))
                   => ~ is_suspends_irreversible(uv))
                => Kept(uv, e)
  <1> DEFINE m == merge_suspends(uv, st)
             e == IF merge_dirty(uv, st) THEN reshuffle(m, is_live) ELSE m
  <1>1. /\ m \in JobUnitData /\ StoredOK(m)
        /\ ~ is_suspends_conflict(kinds_of(m.suspends))
        /\ kinds_of(uv.suspends) # {} => kinds_of(m.suspends) # {}
        /\ ~ merge_dirty(uv, st) => kinds_of(m.suspends) = kinds_of(uv.suspends)
        /\ ~ is_suspends_conflict_with(kinds_of(uv.suspends), kinds_of(st))
           => kinds_of(m.suspends) = kinds_of(uv.suspends) \cup kinds_of(st)
        /\ m.sq = uv.sq /\ m.trigger = uv.trigger /\ m.interrupt = uv.interrupt
        /\ m.retrigger = uv.retrigger /\ m.pause = uv.pause
    BY MergeOK
  <1>2. /\ m.interrupt => m.trigger # NoJob
        /\ m.retrigger => m.trigger # NoJob
        /\ NotStale(uv) => (m.interrupt => kinds_of(m.suspends) # {})
    BY <1>1 DEF FlagsOK, NotStale, EntryOK, SuspendsMerged
  <1> DEFINE safe == is_suspends_conflict_with(kinds_of(uv.suspends), kinds_of(st))
                       => ~ is_suspends_irreversible(uv)
  <1>k. ASSUME NEW x, kinds_of(x.suspends) \subseteq kinds_of(m.suspends), safe
        PROVE  Kept(uv, x)
    <2>1. CASE is_suspends_conflict_with(kinds_of(uv.suspends), kinds_of(st))
      BY <1>k, <2>1 DEF Kept, is_suspends_irreversible
    <2>2. CASE ~ is_suspends_conflict_with(kinds_of(uv.suspends), kinds_of(st))
      <3>1. ~ is_suspends_conflict(kinds_of(m.suspends))
        BY <1>1
      <3>2. kinds_of(uv.suspends) \subseteq kinds_of(m.suspends)
        BY <1>1, <2>2
      <3> HIDE DEF m
      <3>3. QED
        BY <1>k, <3>1, <3>2 DEF Kept, is_suspends_conflict_with, is_suspends_conflict, others
    <2>3. QED
      BY <2>1, <2>2
  <1>3. CASE merge_dirty(uv, st)
    <2>1. e = reshuffle(m, is_live)
      BY <1>3
    <2> HIDE DEF m, e
    <2>2. /\ EntryOK(e) /\ e.trigger = m.trigger /\ (NotStale(uv) => NotStale(e))
          /\ kinds_of(e.suspends) \subseteq kinds_of(m.suspends)
      BY <1>1, <1>2, <2>1, ReshuffleOK
    <2>3. safe => Kept(uv, e)
      BY <1>k, <2>2
    <2>4. QED
      BY <1>1, <1>3, <2>2, <2>3 DEF e, m
  <1>4. CASE ~ merge_dirty(uv, st)
    <2>1. e = m
      BY <1>4
    <2> HIDE DEF m, e
    <2>2. SuspendsMerged(m)
      BY <1>1, <1>4 DEF EntryOK, SuspendsMerged
    <2>3. FlagsOK(m) /\ (NotStale(uv) => NotStale(m))
      BY <1>1 DEF EntryOK, FlagsOK, NotStale
    <2>4. is_ready(m) <=> is_ready(uv)
      BY <1>1 DEF is_ready, calc_ready
    <2>5. EntryOK(m) /\ (safe => Kept(uv, m))
      BY <1>1, <1>k, <2>2, <2>3 DEF EntryOK
    <2>6. QED
      BY <1>1, <2>1, <2>3, <2>4, <2>5 DEF e, m
  <1>5. QED
    BY <1>3, <1>4

\* An entry an Isolate or Flush request empties; its interrupt mark may be stale.
LEMMA IsolateEntryOK ==
  ASSUME NEW uv, EntryOK(uv), NEW is_live
  PROVE  LET e == reshuffle(flush_suspends(uv), is_live) IN
         EntryOK(e) /\ e.trigger = uv.trigger /\ Kept(uv, e)
  <1> DEFINE f == flush_suspends(uv)
  <1>1. /\ f \in JobUnitData /\ StoredOK(f) /\ kinds_of(f.suspends) = {}
        /\ f = [uv EXCEPT !.suspends = NoSuspends, !.re_suspends = NoSuspends]
    BY FlushOK
  <1>2. ~ is_suspends_conflict(kinds_of(f.suspends))
    BY <1>1 DEF is_suspends_conflict
  <1>3. /\ f.trigger = uv.trigger
        /\ f.interrupt => f.trigger # NoJob
        /\ f.retrigger => f.trigger # NoJob
    BY <1>1 DEF EntryOK, JobUnitData, FlagsOK
  <1> HIDE DEF f
  <1>4. /\ EntryOK(reshuffle(f, is_live)) /\ reshuffle(f, is_live).trigger = f.trigger
        /\ kinds_of(reshuffle(f, is_live).suspends) = {}
    BY <1>1, <1>2, <1>3, ReshuffleOK
  <1>5. Kept(uv, reshuffle(f, is_live))
    BY <1>4, ShrinkKept
  <1>6. QED
    BY <1>3, <1>4, <1>5 DEF f

\* Removing jobs other than a Stop or a Restart, as the fallback does.
LEMMA RemoveSuspendsOK ==
  ASSUME NEW uv, EntryOK(uv), NEW ks \in SUBSET (BasicKind \ {"Stop", "Restart"}), NEW is_live
  PROVE  LET e == remove_suspends(uv, ks, is_live) IN
         /\ EntryOK(e)
         /\ NotStale(uv) => NotStale(e)
         /\ e.trigger = uv.trigger
         /\ Kept(uv, e)
  <1> DEFINE f == without(uv.suspends, ks)
             m == [uv EXCEPT !.suspends = f, !.re_suspends = f]
             e == remove_suspends(uv, ks, is_live)
  <1>1. uv \in JobUnitData /\ StoredOK(uv) /\ uv.suspends \in Suspends
    BY EntryType DEF EntryOK
  <1>2. f \in Suspends /\ kinds_of(f) = kinds_of(uv.suspends) \ ks
    BY <1>1, WithoutType
  <1>3. without(uv.re_suspends, kinds_of(uv.suspends) \cap ks) = f
    BY <1>1 DEF StoredOK, Suspends, without, kinds_of
  <1>4. e = reshuffle(m, is_live)
    BY <1>3 DEF remove_suspends
  <1> HIDE DEF f, e
  <1>5. /\ m \in JobUnitData /\ m.suspends = f /\ m.re_suspends = f
        /\ m.trigger = uv.trigger /\ m.interrupt = uv.interrupt /\ m.retrigger = uv.retrigger
        /\ m.re_trigger = uv.re_trigger
    BY <1>1, <1>2 DEF JobUnitData
  <1> HIDE DEF m
  <1>6. StoredOK(m)
    BY <1>1, <1>5 DEF StoredOK
  <1>7. ~ is_suspends_conflict(kinds_of(m.suspends))
    BY <1>2, <1>5 DEF EntryOK, SuspendsMerged, is_suspends_conflict, others
  <1>8. /\ m.interrupt => m.trigger # NoJob
        /\ m.retrigger => m.trigger # NoJob
        /\ NotStale(uv) => (m.interrupt => kinds_of(m.suspends) # {})
    <2>1. uv.sq \subseteq kinds_of(uv.suspends) /\ uv.sq \in SUBSET BasicKind
      BY <1>1, EntryType DEF EntryOK, SuspendsMerged
    <2>2. uv.sq # {} => sq_front(uv.sq) \in uv.sq
      BY <2>1, FrontType
    <2>3. QED
      BY <1>2, <1>5, <2>1, <2>2 DEF EntryOK, FlagsOK, NotStale
  <1>9. /\ EntryOK(e) /\ e.trigger = m.trigger /\ (NotStale(uv) => NotStale(e))
        /\ kinds_of(e.suspends) \subseteq kinds_of(m.suspends)
    BY <1>4, <1>5, <1>6, <1>7, <1>8, ReshuffleOK
  <1>10. Kept(uv, e)
    BY <1>2, <1>5, <1>9, ShrinkKept
  <1>11. QED
    BY <1>5, <1>9, <1>10 DEF e

-----------------------------------------------------------------------------
\* What a ready entry triggers next.
LEMMA NextTriggerType ==
  ASSUME NEW uv, EntryOK(uv), is_ready(uv)
  PROVE  /\ get_next_trigger(uv) \in Job
         /\ calc_ready(uv) \in {"suspend", "retrigger"}
         /\ calc_ready(uv) = "suspend" => sq_front(uv.sq) \in kinds_of(uv.suspends)
         /\ calc_ready(uv) = "retrigger" => uv.trigger # NoJob
  <1>1. uv \in JobUnitData /\ uv.sq \subseteq kinds_of(uv.suspends) /\ uv.sq \in SUBSET BasicKind
    BY EntryType DEF EntryOK, SuspendsMerged
  <1>2. calc_ready(uv) \in {"suspend", "retrigger"}
    BY DEF is_ready, calc_ready
  <1>3. calc_ready(uv) = "suspend" => uv.sq # {}
    BY DEF calc_ready
  <1>4. calc_ready(uv) = "retrigger" => uv.trigger # NoJob
    BY DEF calc_ready
  <1>5. calc_ready(uv) = "suspend" => sq_front(uv.sq) \in kinds_of(uv.suspends)
    BY <1>1, <1>3, FrontType
  <1>6. uv.trigger \in Job \cup {NoJob}
    BY <1>1, EntryType
  <1>7. calc_ready(uv) = "suspend" => suspended(uv, sq_front(uv.sq)) \in Job
    BY <1>1, <1>5, SuspendedType
  <1>8. get_next_trigger(uv) \in Job
    BY <1>2, <1>4, <1>6, <1>7 DEF get_next_trigger
  <1>9. QED
    BY <1>2, <1>4, <1>5, <1>8

\* A triggered entry is consistent, and it is not ready (try_trigger_entry
\* asserts it), whether its unit accepted the call or answered EAgain.
LEMMA DoTriggerOK ==
  ASSUME NEW uv, EntryOK(uv), is_ready(uv)
  PROVE  LET d == do_trigger(uv) IN
         /\ EntryOK(d) /\ d.trigger # NoJob /\ d.trigger \in Job
         /\ NotStale(uv) => NotStale(d)
         /\ ~ is_ready(d)
         /\ uv.trigger # NoJob /\ d.trigger.kind # uv.trigger.kind
            => d.trigger.kind \in {"Stop", "Restart"}
         /\ kinds_of(d.suspends) \subseteq kinds_of(uv.suspends)
  <1> DEFINE d == do_trigger(uv)
             k == sq_front(uv.sq)
             cur == suspended(uv, k)
             job == IF uv.trigger.kind = k
                      THEN [cur EXCEPT !.attr = cur.attr \cup uv.trigger.attr] ELSE cur
  <1>1. /\ uv \in JobUnitData /\ StoredOK(uv) /\ SuspendsMerged(uv) /\ FlagsOK(uv)
        /\ uv.suspends \in Suspends /\ uv.trigger \in Job \cup {NoJob}
        /\ uv.re_suspends = uv.suspends
    BY EntryType DEF EntryOK, StoredOK
  <1>2. CASE calc_ready(uv) = "retrigger"
    <2>1. d = [uv EXCEPT !.retrigger = FALSE]
      BY <1>2 DEF do_trigger
    <2>2. uv.trigger # NoJob
      BY <1>2, NextTriggerType
    <2> HIDE DEF d
    <2>3. /\ d \in JobUnitData /\ d.suspends = uv.suspends /\ d.re_suspends = uv.re_suspends
          /\ d.sq = uv.sq /\ d.trigger = uv.trigger /\ d.re_trigger = uv.re_trigger
          /\ d.interrupt = uv.interrupt /\ d.pause = uv.pause /\ d.retrigger = FALSE
      BY <1>1, <2>1 DEF JobUnitData
    <2>4. EntryOK(d)
      BY <1>1, <2>3 DEF EntryOK, SuspendsMerged, StoredOK, FlagsOK
    <2>5. NotStale(uv) => NotStale(d)
      BY <2>3 DEF NotStale
    <2>6. ~ (uv.sq # {} /\ uv.interrupt)
      BY <1>2 DEF calc_ready
    <2>7. ~ is_ready(d)
      BY <2>2, <2>3, <2>6 DEF is_ready, calc_ready
    <2>8. QED
      BY <1>1, <2>2, <2>3, <2>4, <2>5, <2>7 DEF d
  <1>3. CASE calc_ready(uv) # "retrigger"
    <2>1. calc_ready(uv) = "suspend" /\ k \in kinds_of(uv.suspends) /\ k \in BasicKind
      BY <1>3, NextTriggerType DEF kinds_of
    <2>2. cur \in Job /\ cur.kind = k
      BY <1>1, <2>1, SuspendedType DEF suspended
    <2>3. job \in Job /\ job.kind = k
      <3>1. CASE uv.trigger.kind = k
        <4>1. uv.trigger # NoJob
          BY <2>1, <3>1 DEF NoJob, BasicKind
        <4>2. uv.trigger.attr \in JobAttr /\ cur.attr \in JobAttr
          BY <1>1, <2>2, <4>1 DEF Job
        <4>3. cur.attr \cup uv.trigger.attr \in JobAttr
          BY <4>2, AttrType
        <4>4. job = [cur EXCEPT !.attr = cur.attr \cup uv.trigger.attr]
          BY <3>1
        <4> HIDE DEF cur, job, k
        <4>5. QED
          BY <2>2, <4>3, <4>4 DEF Job
      <3>2. CASE uv.trigger.kind # k
        BY <2>2, <3>2
      <3>3. QED
        BY <3>1, <3>2
    <2>4. d = [uv EXCEPT !.suspends = without(uv.suspends, {k}), !.sq = uv.sq \ {k},
                         !.trigger = job, !.interrupt = FALSE,
                         !.retrigger = uv.retrigger /\ ~uv.interrupt,
                         !.re_suspends = without(uv.re_suspends, {k}),
                         !.re_trigger = [kind |-> k, attr |-> job.attr]]
      BY <1>3 DEF do_trigger
    <2> HIDE DEF job, k, d, cur
    <2>5. /\ without(uv.suspends, {k}) \in Suspends
          /\ kinds_of(without(uv.suspends, {k})) = kinds_of(uv.suspends) \ {k}
      BY <1>1, WithoutType
    <2>6. [kind |-> k, attr |-> job.attr] \in Re /\ (uv.retrigger /\ ~uv.interrupt) \in BOOLEAN
      BY <2>1, <2>3 DEF Re, Job
    <2>7. /\ d \in JobUnitData /\ d.suspends = without(uv.suspends, {k})
          /\ d.re_suspends = without(uv.suspends, {k})
          /\ d.sq = uv.sq \ {k} /\ d.trigger = job
          /\ d.re_trigger = [kind |-> k, attr |-> job.attr]
          /\ d.interrupt = FALSE /\ d.pause = uv.pause
          /\ d.retrigger = (uv.retrigger /\ ~uv.interrupt)
      BY <1>1, <2>3, <2>4, <2>5, <2>6 DEF JobUnitData
    <2>8. job # NoJob
      BY <2>1, <2>3 DEF NoJob, BasicKind
    <2>9. SuspendsMerged(d)
      BY <1>1, <2>5, <2>7 DEF SuspendsMerged, is_suspends_conflict, others
    <2>10. StoredOK(d)
      BY <2>3, <2>7, <2>8 DEF StoredOK
    <2>11. FlagsOK(d) /\ NotStale(d)
      BY <2>7, <2>8 DEF FlagsOK, NotStale
    <2>12. uv.trigger # NoJob => uv.interrupt /\ uv.sq # {}
      BY <2>1 DEF calc_ready
    <2>13. ~ d.retrigger
      BY <1>1, <2>7, <2>12 DEF FlagsOK
    <2>14. ~ is_ready(d)
      BY <2>7, <2>8, <2>13 DEF is_ready, calc_ready
    <2>15. uv.trigger # NoJob => d.trigger.kind \in {"Stop", "Restart"}
      BY <1>1, <2>3, <2>7, <2>12 DEF FlagsOK, k
    <2>16. EntryOK(d) /\ d.trigger \in Job /\ d.trigger # NoJob
      BY <2>3, <2>7, <2>8, <2>9, <2>10, <2>11 DEF EntryOK
    <2>17. kinds_of(d.suspends) \subseteq kinds_of(uv.suspends)
      BY <2>5, <2>7
    <2>18. QED
      BY <2>11, <2>14, <2>15, <2>16, <2>17 DEF d
  <1>4. QED
    BY <1>2, <1>3
\* An entry whose unit answered EAgain waits, whatever else it holds.
LEMMA TriggerAgainOK ==
  ASSUME NEW uv, EntryOK(uv), uv.trigger # NoJob
  PROVE  LET e == trigger_again(uv) IN
         /\ EntryOK(e) /\ e.trigger = uv.trigger /\ e.suspends = uv.suspends
         /\ ~ is_ready(e)
         /\ NotStale(uv) => NotStale(e)
  <1> DEFINE e == trigger_again(uv)
  <1>1. uv \in JobUnitData /\ e = [uv EXCEPT !.pause = TRUE, !.retrigger = TRUE]
    BY DEF EntryOK, trigger_again
  <1> HIDE DEF e
  <1>2. /\ e \in JobUnitData /\ e.suspends = uv.suspends /\ e.re_suspends = uv.re_suspends
        /\ e.sq = uv.sq /\ e.trigger = uv.trigger /\ e.re_trigger = uv.re_trigger
        /\ e.interrupt = uv.interrupt /\ e.pause = TRUE /\ e.retrigger = TRUE
    BY <1>1 DEF JobUnitData
  <1>3. EntryOK(e)
    BY <1>2 DEF EntryOK, SuspendsMerged, StoredOK, FlagsOK
  <1>4. NotStale(uv) => NotStale(e)
    BY <1>2 DEF NotStale
  <1>5. ~ is_ready(e)
    BY <1>2 DEF is_ready, calc_ready
  <1>6. QED
    BY <1>2, <1>3, <1>4, <1>5 DEF e

\* The end of a running job: it leaves the entry, or goes on as a Start.
LEMMA FinishOK ==
  ASSUME NEW uv, EntryOK(uv), uv.trigger # NoJob, NEW result
  PROVE  LET e == finish_trigger(uv, result) IN
         /\ EntryOK(e)
         /\ NotStale(uv) => NotStale(e)
         /\ e.trigger # NoJob => e.trigger.kind = uv.trigger.kind
         /\ e.suspends = uv.suspends
  <1> DEFINE e == finish_trigger(uv, result)
  <1>1. /\ uv \in JobUnitData /\ SuspendsMerged(uv) /\ StoredOK(uv) /\ FlagsOK(uv)
        /\ uv.trigger \in Job
    BY EntryType DEF EntryOK
  <1>2. CASE finish_retries(uv.trigger, result)
    <2>1. e = [uv EXCEPT !.trigger.run_kind = "Start", !.retrigger = TRUE]
      BY <1>2 DEF finish_trigger
    <2> HIDE DEF e
    <2>2. /\ e.trigger \in Job /\ e.trigger.kind = uv.trigger.kind
          /\ e.trigger.attr = uv.trigger.attr
          /\ e.suspends = uv.suspends /\ e.re_suspends = uv.re_suspends
          /\ e.sq = uv.sq /\ e.re_trigger = uv.re_trigger
          /\ e.interrupt = uv.interrupt /\ e.pause = uv.pause /\ e.retrigger = TRUE
          /\ e \in JobUnitData
      BY <1>1, <2>1 DEF JobUnitData, Job, RunKind, BasicKind
    <2>3. e.trigger # NoJob
      BY <2>2 DEF Job, NoJob, BasicKind
    <2>4. EntryOK(e)
      BY <1>1, <2>2, <2>3 DEF EntryOK, SuspendsMerged, StoredOK, FlagsOK
    <2>5. NotStale(uv) => NotStale(e)
      BY <2>2 DEF NotStale
    <2>6. QED
      BY <2>2, <2>4, <2>5 DEF e
  <1>3. CASE ~ finish_retries(uv.trigger, result)
    <2>1. e = [uv EXCEPT !.trigger = NoJob, !.interrupt = FALSE, !.retrigger = FALSE,
                         !.re_trigger = NoRe]
      BY <1>3 DEF finish_trigger
    <2> HIDE DEF e
    <2>2. /\ e \in JobUnitData /\ e.suspends = uv.suspends /\ e.re_suspends = uv.re_suspends
          /\ e.sq = uv.sq /\ e.trigger = NoJob /\ e.re_trigger = NoRe
          /\ e.interrupt = FALSE /\ e.pause = uv.pause /\ e.retrigger = FALSE
      BY <1>1, <2>1 DEF JobUnitData
    <2>3. EntryOK(e) /\ NotStale(e)
      BY <1>1, <2>2 DEF EntryOK, SuspendsMerged, StoredOK, FlagsOK, NotStale
    <2>4. QED
      BY <2>2, <2>3 DEF e
  <1>4. QED
    BY <1>2, <1>3

-----------------------------------------------------------------------------
(* The table, the ready queue and the work. *)

\* The modes of the requests the engine makes by itself.
UsedModes ==
  {"Replace", "Fail"} \cup {OnFailureJobMode[u] : u \in Unit}
                      \cup {OnSuccessJobMode[u] : u \in Unit}
UsedTask == {t \in Task : t.op = "exec" => t.mode \in UsedModes}
UsedRequest == {t \in Request : t.mode \in UsedModes}

\* No request of the engine empties the table.
EmptyingModes == {"Isolate", "Flush"}
SafeModes == UsedModes \cap EmptyingModes = {}

\* The parts about the table and the ready queue.
TableOK(js) == js \in [Unit -> JobUnitData] /\ \A u \in Unit : EntryOK(js[u])
SyncOK(js, rdy) == rdy = {u \in Unit : is_ready(js[u])}
FreshOK(js) == \A u \in Unit : NotStale(js[u])

\* What no step may do to an entry.
TableStep(js, js2) ==
  \A u \in Unit :
    /\ Kept(js[u], js2[u])
    /\ (js[u].trigger # NoJob /\ js2[u].trigger # NoJob
          /\ js2[u].trigger.kind # js[u].trigger.kind)
       => js2[u].trigger.kind \in {"Stop", "Restart"}

-----------------------------------------------------------------------------
\* A table that does not change takes a step.
LEMMA SameStep ==
  ASSUME NEW js
  PROVE  TableStep(js, js)
  BY DEF TableStep, Kept

\* An entry that gets no new job and keeps its trigger, or ends it, steps.
LEMMA EntryStep ==
  ASSUME NEW js, TableOK(js), NEW js2,
         \A u \in Unit : /\ kinds_of(js2[u].suspends) \subseteq kinds_of(js[u].suspends)
                         /\ \/ js2[u].trigger = NoJob
                            \/ js2[u].trigger.kind = js[u].trigger.kind
  PROVE  TableStep(js, js2)
  BY ShrinkKept DEF TableStep, TableOK

\* process_relation changes paused entries only, and only their pause mark.
LEMMA ResumeRelated ==
  ASSUME NEW js, TableOK(js), NEW us
  PROVE  LET j2 == resume_related(js, us) IN
         /\ TableOK(j2)
         /\ FreshOK(js) => FreshOK(j2)
         /\ \A v \in Unit : /\ j2[v].trigger = js[v].trigger
                            /\ j2[v].suspends = js[v].suspends
                            /\ ~ (resumed(v, us) /\ js[v].pause) => j2[v] = js[v]
  <1> DEFINE j2 == resume_related(js, us)
  <1>1. ASSUME NEW v \in Unit
        PROVE  /\ EntryOK(j2[v])
               /\ NotStale(js[v]) => NotStale(j2[v])
               /\ j2[v].trigger = js[v].trigger
               /\ j2[v].suspends = js[v].suspends
               /\ ~ (resumed(v, us) /\ js[v].pause) => j2[v] = js[v]
    <2>1. EntryOK(js[v])
      BY DEF TableOK
    <2>2. j2[v] = IF resumed(v, us) THEN resume(js[v]) ELSE js[v]
      BY DEF resume_related
    <2>3. CASE resumed(v, us)
      <3>1. j2[v] = resume(js[v])
        BY <2>2, <2>3
      <3> HIDE DEF j2
      <3>2. QED
        BY <2>1, <2>3, <3>1, PauseOK
    <2>4. CASE ~ resumed(v, us)
      BY <2>1, <2>2, <2>4
    <2>5. QED
      BY <2>3, <2>4
  <1>2. j2 \in [Unit -> JobUnitData]
    <2>1. j2 = [v \in Unit |-> j2[v]]
      BY DEF resume_related
    <2>2. \A v \in Unit : j2[v] \in JobUnitData
      BY <1>1 DEF EntryOK
    <2>3. QED
      BY <2>1, <2>2
  <1> HIDE DEF j2
  <1>3. TableOK(j2) /\ (FreshOK(js) => FreshOK(j2))
    BY <1>1, <1>2 DEF TableOK, FreshOK
  <1>4. QED
    BY <1>1, <1>3 DEF j2

\* The jobs of a stage, as a map from kinds to attributes.
LEMMA StageJobs ==
  ASSUME NEW stage, NEW v, NEW mode
  PROVE  /\ stage_jobs(stage, v, mode) \in Suspends
         /\ kinds_of(stage_jobs(stage, v, mode)) = stage_kinds(stage, v)
  <1>1. \A k : init_attr(k, mode) \in JobAttr
    BY DEF init_attr, JobAttr
  <1>2. \A k : init_attr(k, mode) # Absent
    BY <1>1, AttrType
  <1>3. QED
    BY <1>1, <1>2 DEF stage_jobs, Suspends, kinds_of, stage_kinds

\* A request that is accepted replaces no irreversible job it conflicts with.
LEMMA VerifiedKeeps ==
  ASSUME NEW js, TableOK(js), NEW stage, NEW mode, job_trans_verify(stage, js, mode),
         NEW v \in Unit
  PROVE  LET ks == kinds_of(js[v].suspends)
             ko == stage_kinds(stage, v)
         IN  is_suspends_conflict_with(ks, ko) => ~ is_suspends_irreversible(js[v])
  <1> DEFINE ks == kinds_of(js[v].suspends)
             ko == stage_kinds(stage, v)
  <1>1. ~ is_suspends_conflict(ks) /\ ~ is_suspends_conflict(ko)
    BY DEF TableOK, EntryOK, SuspendsMerged, job_trans_verify
  <1>2. kinds_of(stage_jobs(stage, v, mode)) = ko
    BY StageJobs
  <1>3. \/ ~ is_suspends_conflict_with(ks, ko)
        \/ ~ (others(ks) # {} /\ "Stop" \in ko) /\ ~ ("Stop" \in ks /\ others(ko) # {})
        \/ ~ is_suspends_irreversible(js[v])
    BY <1>2 DEF job_trans_verify, is_suspends_replace_with
  <1> HIDE DEF ks, ko
  <1>4. is_suspends_conflict_with(ks, ko)
          => (others(ks) # {} /\ "Stop" \in ko) \/ ("Stop" \in ks /\ others(ko) # {})
    BY <1>1 DEF is_suspends_conflict_with, is_suspends_conflict, others
  <1>5. QED
    BY <1>3, <1>4 DEF ks, ko
\* commit of one unit: isolate, merge, reshuffle and gc.
LEMMA CommitUnit ==
  ASSUME NEW js, TableOK(js), NEW stage, NEW mode, job_trans_verify(stage, js, mode),
         NEW lv, NEW v \in Unit
  PROVE  LET e == commit_unit(v, stage, js, lv, mode) IN
         /\ EntryOK(e)
         /\ mode \notin EmptyingModes => (NotStale(js[v]) => NotStale(e))
         /\ ~ commit_dirty(v, stage, js, mode) => /\ is_ready(e) <=> is_ready(js[v])
                                                  /\ e.pause => js[v].pause
         /\ e.trigger = js[v].trigger
         /\ Kept(js[v], e)
  <1> DEFINE st == stage_jobs(stage, v, mode)
             e == commit_unit(v, stage, js, lv, mode)
             m == merge_suspends(js[v], st)
             x == IF merge_dirty(js[v], st) THEN reshuffle(m, v \in lv) ELSE m
  <1>1. EntryOK(js[v])
    BY DEF TableOK
  <1>2. st \in Suspends /\ kinds_of(st) = stage_kinds(stage, v)
    BY StageJobs
  <1>3. ~ is_suspends_conflict(kinds_of(st))
    BY <1>2 DEF job_trans_verify
  <1>4. is_suspends_conflict_with(kinds_of(js[v].suspends), kinds_of(st))
          => ~ is_suspends_irreversible(js[v])
    BY <1>2, VerifiedKeeps
  <1>5. CASE isolated(v, stage, js, mode)
    <2> DEFINE i == reshuffle(flush_suspends(js[v]), v \in lv)
    <2>1. e = gc(i)
      BY <1>5 DEF commit_unit, commit_merged, commit_dirty
    <2>2. EntryOK(i) /\ i.trigger = js[v].trigger /\ Kept(js[v], i)
      BY <1>1, IsolateEntryOK
    <2> HIDE DEF i, e
    <2>3. /\ EntryOK(e) /\ e.trigger = js[v].trigger
          /\ e.suspends = i.suspends
      BY <2>1, <2>2, GcOK
    <2>4. Kept(js[v], e)
      BY <2>2, <2>3 DEF Kept
    <2>5. mode \in EmptyingModes
      BY <1>5 DEF isolated, EmptyingModes
    <2>6. commit_dirty(v, stage, js, mode)
      BY <1>5 DEF commit_dirty
    <2>7. QED
      BY <2>3, <2>4, <2>5, <2>6 DEF e
  <1>6. CASE ~ isolated(v, stage, js, mode)
    <2>1. /\ e = gc(x)
          /\ commit_dirty(v, stage, js, mode) <=> merge_dirty(js[v], st)
      BY <1>6 DEF commit_unit, commit_merged, commit_dirty
    <2>2. /\ EntryOK(x)
          /\ NotStale(js[v]) => NotStale(x)
          /\ ~ merge_dirty(js[v], st) => (is_ready(x) <=> is_ready(js[v])) /\ x.pause = js[v].pause
          /\ x.trigger = js[v].trigger
          /\ Kept(js[v], x)
      BY <1>1, <1>2, <1>3, <1>4, CommitEntryOK
    <2> HIDE DEF x, e, st
    <2>3. /\ EntryOK(e) /\ e.trigger = js[v].trigger /\ e.suspends = x.suspends
          /\ NotStale(js[v]) => NotStale(e)
          /\ is_ready(e) <=> is_ready(x)
          /\ e.pause => x.pause
      BY <2>1, <2>2, GcOK
    <2>4. Kept(js[v], e)
      BY <2>2, <2>3 DEF Kept
    <2>5. ~ commit_dirty(v, stage, js, mode)
            => (is_ready(e) <=> is_ready(js[v])) /\ (e.pause => js[v].pause)
      BY <2>1, <2>2, <2>3
    <2>6. QED
      BY <2>3, <2>4, <2>5 DEF e
  <1>7. QED
    BY <1>5, <1>6

\* JobTable::commit: the table stays consistent, the ready queue in sync though
\* only the entries believed to have changed are synced, and nothing
\* irreversible is replaced.
LEMMA CommitJobs ==
  ASSUME NEW js, TableOK(js), NEW rdy, SyncOK(js, rdy), NEW stage, NEW mode,
         job_trans_verify(stage, js, mode), NEW lv
  PROVE  LET j2 == commit_jobs(stage, js, lv, mode) IN
         /\ TableOK(j2)
         /\ SyncOK(j2, ready_sync(j2, rdy, commit_synced(stage, js, mode)))
         /\ mode \notin EmptyingModes => (FreshOK(js) => FreshOK(j2))
         /\ TableStep(js, j2)
  <1> DEFINE flushed == commit_flushed(stage, js, mode)
             j1 == [v \in Unit |-> commit_unit(v, stage, js, lv, mode)]
             j2 == commit_jobs(stage, js, lv, mode)
  <1>1. \A v \in Unit :
          /\ EntryOK(j1[v])
          /\ mode \notin EmptyingModes => (NotStale(js[v]) => NotStale(j1[v]))
          /\ ~ commit_dirty(v, stage, js, mode) => /\ is_ready(j1[v]) <=> is_ready(js[v])
                                                   /\ j1[v].pause => js[v].pause
          /\ j1[v].trigger = js[v].trigger
          /\ Kept(js[v], j1[v])
    BY CommitUnit
  <1>2. j1 \in [Unit -> JobUnitData]
    BY <1>1 DEF EntryOK
  <1>3. j2 = resume_related(j1, flushed)
    BY DEF commit_jobs
  <1> HIDE DEF j1, j2
  <1>4. TableOK(j1) /\ (mode \notin EmptyingModes => (FreshOK(js) => FreshOK(j1)))
    BY <1>1, <1>2 DEF TableOK, FreshOK
  <1>5. /\ TableOK(j2)
        /\ FreshOK(j1) => FreshOK(j2)
        /\ \A v \in Unit : /\ j2[v].trigger = j1[v].trigger
                           /\ j2[v].suspends = j1[v].suspends
                           /\ ~ (resumed(v, flushed) /\ j1[v].pause) => j2[v] = j1[v]
    BY <1>3, <1>4, ResumeRelated
  <1>6. ASSUME NEW v \in Unit, v \notin commit_synced(stage, js, mode)
        PROVE  is_ready(j2[v]) <=> v \in rdy
    <2>1. ~ commit_dirty(v, stage, js, mode) /\ ~ (resumed(v, flushed) /\ js[v].pause)
      BY <1>6 DEF commit_synced
    <2>2. j2[v] = j1[v]
      BY <1>1, <1>5, <2>1
    <2>3. QED
      BY <1>1, <2>1, <2>2 DEF SyncOK
  <1>7. SyncOK(j2, ready_sync(j2, rdy, commit_synced(stage, js, mode)))
    BY <1>6 DEF SyncOK, ready_sync
  <1>8. TableStep(js, j2)
    BY <1>1, <1>5 DEF TableStep, Kept
  <1>9. QED
    BY <1>4, <1>5, <1>7, <1>8 DEF j2

\* remove_suspends of the explored units: nothing but Starts and Verifys goes.
LEMMA FallbackJobs ==
  ASSUME NEW js, TableOK(js), NEW rdy, SyncOK(js, rdy), NEW explored, NEW lv
  PROVE  LET j2 == fallback_jobs(explored, js, lv) IN
         /\ TableOK(j2)
         /\ SyncOK(j2, ready_sync(j2, rdy, fallback_synced(explored, js)))
         /\ FreshOK(js) => FreshOK(j2)
         /\ TableStep(js, j2)
  <1> DEFINE hit == {v \in explored : fallback_hit(v, js)}
             left(v) == remove_suspends(js[v], FallbackKinds, v \in lv)
             j1 == [v \in Unit |-> IF v \in explored THEN gc(left(v)) ELSE js[v]]
             j2 == fallback_jobs(explored, js, lv)
  <1>1. ASSUME NEW v \in Unit
        PROVE  /\ EntryOK(j1[v])
               /\ NotStale(js[v]) => NotStale(j1[v])
               /\ j1[v].trigger = js[v].trigger
               /\ Kept(js[v], j1[v])
               /\ v \notin explored => j1[v] = js[v]
    <2>1. EntryOK(js[v])
      BY DEF TableOK
    <2>2. CASE v \in explored
      <3>1. j1[v] = gc(left(v))
        BY <2>2
      <3>2. FallbackKinds \in SUBSET (BasicKind \ {"Stop", "Restart"})
        BY DEF FallbackKinds, BasicKind
      <3>3. /\ EntryOK(left(v)) /\ (NotStale(js[v]) => NotStale(left(v)))
            /\ left(v).trigger = js[v].trigger /\ Kept(js[v], left(v))
        BY <2>1, <3>2, RemoveSuspendsOK
      <3> HIDE DEF left, j1
      <3>4. /\ EntryOK(j1[v]) /\ (NotStale(js[v]) => NotStale(j1[v]))
            /\ j1[v].trigger = js[v].trigger /\ j1[v].suspends = left(v).suspends
        BY <3>1, <3>3, GcOK
      <3>5. QED
        BY <2>2, <3>3, <3>4 DEF Kept
    <2>3. CASE v \notin explored
      <3>1. j1[v] = js[v]
        BY <2>3
      <3> HIDE DEF j1
      <3>2. QED
        BY <2>1, <3>1 DEF Kept
    <2>4. QED
      BY <2>2, <2>3
  <1>2. j1 \in [Unit -> JobUnitData]
    <2>1. \A v \in Unit : j1[v] \in JobUnitData
      BY <1>1 DEF EntryOK
    <2>2. j1 = [v \in Unit |-> j1[v]]
      OBVIOUS
    <2> HIDE DEF j1
    <2>3. QED
      BY <2>1, <2>2
  <1>3. j2 = resume_related(j1, hit)
    BY DEF fallback_jobs
  <1> HIDE DEF j1, j2, hit
  <1>4. TableOK(j1) /\ (FreshOK(js) => FreshOK(j1))
    BY <1>1, <1>2 DEF TableOK, FreshOK
  <1>5. /\ TableOK(j2)
        /\ FreshOK(j1) => FreshOK(j2)
        /\ \A v \in Unit : /\ j2[v].trigger = j1[v].trigger
                           /\ j2[v].suspends = j1[v].suspends
                           /\ ~ (resumed(v, hit) /\ j1[v].pause) => j2[v] = j1[v]
    BY <1>3, <1>4, ResumeRelated
  <1>6. ASSUME NEW v \in Unit, v \notin fallback_synced(explored, js)
        PROVE  is_ready(j2[v]) <=> v \in rdy
    <2>1. v \notin explored /\ ~ (resumed(v, hit) /\ js[v].pause)
      BY <1>6 DEF fallback_synced, hit
    <2>2. j2[v] = js[v]
      BY <1>1, <1>5, <2>1
    <2>3. QED
      BY <2>2 DEF SyncOK
  <1>7. SyncOK(j2, ready_sync(j2, rdy, fallback_synced(explored, js)))
    BY <1>6 DEF SyncOK, ready_sync
  <1>8. TableStep(js, j2)
    BY <1>1, <1>5 DEF TableStep, Kept
  <1>9. QED
    BY <1>4, <1>5, <1>7, <1>8 DEF j2
-----------------------------------------------------------------------------
(* The work under way. *)

\* The last thing a handler of the event loop does is try_enable.
EndsEnabling(s) == s # <<>> /\ s[Len(s)] = {enable}

\* A group put before other work.
LEMMA PushOK ==
  ASSUME NEW S, NEW g \in SUBSET S, NEW s \in Seq(SUBSET S)
  PROVE  /\ push(g, s) \in Seq(SUBSET S)
         /\ EndsEnabling(s) => EndsEnabling(push(g, s))
  <1>1. CASE g = {}
    BY <1>1 DEF push
  <1>2. CASE g # {}
    <2>1. push(g, s) = <<g>> \o s
      BY <1>2 DEF push
    <2>2. <<g>> \in Seq(SUBSET S) /\ Len(<<g>>) = 1
      OBVIOUS
    <2>3. /\ <<g>> \o s \in Seq(SUBSET S)
          /\ Len(<<g>> \o s) = 1 + Len(s)
          /\ s # <<>> => (<<g>> \o s)[1 + Len(s)] = s[Len(s)]
      BY <2>2
    <2>4. 1 + Len(s) # 0 /\ <<g>> \o s # <<>>
      BY <2>3
    <2>5. QED
      BY <2>1, <2>3, <2>4 DEF EndsEnabling
  <1>3. QED
    BY <1>1, <1>2

\* The work that is left when a task of the first group is done.
LEMMA RestOK ==
  ASSUME NEW S, todo \in Seq(SUBSET S), todo # <<>>, NEW t \in Head(todo)
  PROVE  /\ t \in S
         /\ rest(t) \in Seq(SUBSET S)
         /\ EndsEnabling(todo) /\ t.op # "enable" => EndsEnabling(rest(t))
         /\ EndsEnabling(todo) /\ rest(t) # <<>> => EndsEnabling(rest(t))
  <1> DEFINE g == Head(todo) \ {t}
  <1>1. Head(todo) \in SUBSET S /\ Tail(todo) \in Seq(SUBSET S)
    OBVIOUS
  <1>2. t \in S /\ g \in SUBSET S
    BY <1>1
  <1>3. rest(t) = push(g, Tail(todo))
    BY DEF rest
  <1>4. /\ rest(t) \in Seq(SUBSET S)
        /\ EndsEnabling(Tail(todo)) => EndsEnabling(rest(t))
    BY <1>1, <1>2, <1>3, PushOK
  <1>5. Tail(todo) # <<>> => Tail(todo)[Len(Tail(todo))] = todo[Len(todo)]
    OBVIOUS
  <1>6. Tail(todo) # <<>> /\ EndsEnabling(todo) => EndsEnabling(rest(t))
    BY <1>4, <1>5 DEF EndsEnabling
  <1>7. Tail(todo) = <<>> /\ EndsEnabling(todo) => t = enable /\ g = {}
    <2>0. Len(<<>>) = 0
      OBVIOUS
    <2>1. Tail(todo) = <<>> => Len(Tail(todo)) = 0
      BY <2>0, Zenon
    <2>2. Len(Tail(todo)) = Len(todo) - 1 /\ Len(todo) \in Nat /\ Head(todo) = todo[1]
      OBVIOUS
    <2>3. Tail(todo) = <<>> => Len(todo) = 1
      BY <2>1, <2>2
    <2>4. QED
      BY <2>2, <2>3 DEF EndsEnabling
  <1>8. Tail(todo) = <<>> /\ EndsEnabling(todo) => t.op = "enable" /\ rest(t) = <<>>
    BY <1>3, <1>7 DEF enable, push
  <1>9. QED
    BY <1>2, <1>4, <1>6, <1>8

\* The requests the engine makes are tasks, with a mode in use.
LEMMA RequestTasks == UsedRequest \subseteq UsedTask
  BY DEF UsedRequest, UsedTask, Task, Request

\* The requests for a set of units.
LEMMA RequestsOK ==
  ASSUME NEW us \in SUBSET Unit, NEW kind \in JobKind, NEW mode \in UsedModes
  PROVE  requests(us, kind, mode) \in SUBSET UsedRequest
  <1>1. mode \in JobMode
    BY ModesAssumption DEF UsedModes, JobMode
  <1>2. ASSUME NEW v \in us
        PROVE  request(v, kind, mode) \in UsedRequest
    BY <1>1 DEF request, UsedRequest, Request
  <1>3. QED
    BY <1>2 DEF requests

\* The neighbours of a unit are units.
LEMMA DepsType ==
  ASSUME NEW u \in Unit, NEW a \in DOMAIN unit_relation_from_unique_atom
  PROVE  dep_gets_atom[u][a] \in SUBSET Unit
  BY DEF dep_gets_atom, dep_gets

\* The requests that the change of a unit makes are requests of the engine.
LEMMA NotifyRequests ==
  ASSUME NEW u \in Unit
  PROVE  /\ notify_event_stop(u) \in SUBSET UsedRequest
         /\ notify_event_start(u)[1] \in SUBSET UsedRequest
         /\ notify_event_start(u)[2] \in SUBSET UsedRequest
         /\ notify_event_start(u)[3] \in SUBSET UsedRequest
         /\ \A atom \in {"OnFailure", "OnSuccess"} : \A mode \in UsedModes :
              notify_result_start(u, atom, mode) \in SUBSET UsedRequest
  <1> DEFINE atoms == {"RetroActiveStartReplace", "RetroActiveStartFail",
                       "RetroActiveStopOnStart", "RetroActiveStopOnStop",
                       "OnFailure", "OnSuccess"}
             d == dep_gets_atom[u]
  <1>1. atoms \subseteq DOMAIN unit_relation_from_unique_atom
    BY DEF unit_relation_from_unique_atom
  <1>2. \A a \in atoms : d[a] \in SUBSET Unit
    BY <1>1, DepsType
  <1>3. "Start" \in JobKind /\ "Stop" \in JobKind /\ "Replace" \in UsedModes /\ "Fail" \in UsedModes
    BY DEF JobKind, BasicKind, UsedModes
  <1>4. /\ d.RetroActiveStartReplace \ d.After \in SUBSET Unit
        /\ d.RetroActiveStartFail \ d.After \in SUBSET Unit
        /\ d.RetroActiveStopOnStart \in SUBSET Unit
        /\ d.RetroActiveStopOnStop \in SUBSET Unit
    BY <1>2
  <1> HIDE DEF d
  <1>5. /\ requests(d.RetroActiveStartReplace \ d.After, "Start", "Replace") \in SUBSET UsedRequest
        /\ requests(d.RetroActiveStartFail \ d.After, "Start", "Fail") \in SUBSET UsedRequest
        /\ requests(d.RetroActiveStopOnStart, "Stop", "Replace") \in SUBSET UsedRequest
        /\ requests(d.RetroActiveStopOnStop, "Stop", "Replace") \in SUBSET UsedRequest
    BY <1>3, <1>4, RequestsOK
  <1>6. \A atom \in {"OnFailure", "OnSuccess"} : \A mode \in UsedModes :
          requests(d[atom], "Start", mode) \in SUBSET UsedRequest
    BY <1>2, <1>3, RequestsOK
  <1>7. QED
    BY <1>5, <1>6 DEF notify_event_stop, notify_event_start, notify_result_start, d

\* What follows a notification is put before the work that was left.
LEMMA AftermathOK ==
  ASSUME NEW S, UsedRequest \subseteq S, NEW t \in Notify, NEW generated, rest(t) \in Seq(SUBSET S)
  PROVE  /\ aftermath(t, generated) \in Seq(SUBSET S)
         /\ EndsEnabling(rest(t)) => EndsEnabling(aftermath(t, generated))
  <1> DEFINE on == unit_start_on(t.u, t.os, t.ns)
             started == push(on, rest(t))
             s3 == push(notify_event_start(t.u)[3], started)
             s2 == push(notify_event_start(t.u)[2], s3)
             s1 == push(notify_event_start(t.u)[1], s2)
             stop == push(notify_event_stop(t.u), started)
  <1>1. t.u \in Unit
    BY DEF Notify
  <1>0. /\ notify_event_stop(t.u) \in SUBSET S
        /\ notify_event_start(t.u)[1] \in SUBSET S
        /\ notify_event_start(t.u)[2] \in SUBSET S
        /\ notify_event_start(t.u)[3] \in SUBSET S
    <2>1. SUBSET UsedRequest \subseteq SUBSET S
      OBVIOUS
    <2>2. QED
      BY <1>1, <2>1, NotifyRequests
  <1>2. on \in SUBSET S
    <2>1. OnFailureJobMode[t.u] \in UsedModes /\ OnSuccessJobMode[t.u] \in UsedModes
      BY <1>1 DEF UsedModes
    <2>2. QED
      BY <1>1, <2>1, NotifyRequests DEF unit_start_on
  <1> HIDE DEF on
  <1>3. started \in Seq(SUBSET S) /\ (EndsEnabling(rest(t)) => EndsEnabling(started))
    BY <1>2, PushOK
  <1> HIDE DEF started
  <1>4. s3 \in Seq(SUBSET S) /\ (EndsEnabling(started) => EndsEnabling(s3))
    BY <1>0, <1>3, PushOK
  <1> HIDE DEF s3
  <1>5. s2 \in Seq(SUBSET S) /\ (EndsEnabling(s3) => EndsEnabling(s2))
    BY <1>0, <1>4, PushOK
  <1> HIDE DEF s2
  <1>6. s1 \in Seq(SUBSET S) /\ (EndsEnabling(s2) => EndsEnabling(s1))
    BY <1>0, <1>5, PushOK
  <1>7. stop \in Seq(SUBSET S) /\ (EndsEnabling(started) => EndsEnabling(stop))
    BY <1>0, <1>3, PushOK
  <1>8. aftermath(t, generated) \in {started, s1, stop}
    BY DEF aftermath, simulate_job_notify, started, on, s3, s2
  <1> HIDE DEF s1, stop
  <1>9. QED
    BY <1>3, <1>4, <1>5, <1>6, <1>7, <1>8
\* The states a call of a unit goes through, and what its result is.
LEMMA ReplyType ==
  ASSUME NEW s \in SubState, NEW rk, NEW force, NEW r \in job_trigger_unit(s, rk, force)
  PROVE  r.path # <<>> => r.path[1] \in SubState /\ after(s, r.path) \in SubState
  <1> DEFINE Paths == AllStartPaths \cup {<<>>, <<"reloading">>, <<"active">>}
  <1>1. r.path \in Paths
    <2>1. ASSUME NEW x \in sub_start(s) PROVE x.path \in Paths
      BY <2>1, StartPathsAssumption DEF sub_start, reply, AllStartPaths
    <2>2. ASSUME NEW x \in sub_stop PROVE x.path \in Paths
      BY <2>2 DEF sub_stop, reply, AllStartPaths
    <2>3. ASSUME NEW x \in unit_start(s) PROVE x.path \in Paths
      BY <2>1, <2>3 DEF unit_start, reply
    <2>4. ASSUME NEW x \in unit_stop(s, force) PROVE x.path \in Paths
      BY <2>2, <2>4 DEF unit_stop, reply
    <2>5. ASSUME NEW x \in unit_reload(s) PROVE x.path \in Paths
      BY <2>5 DEF unit_reload, reply, AllStartPaths
    <2>6. ASSUME NEW x \in unit_verify(s) PROVE x.path \in Paths
      BY <2>6 DEF unit_verify, reply
    <2>7. QED
      BY <2>3, <2>4, <2>5, <2>6 DEF job_trigger_unit, reply
  <1>2. ASSUME NEW p \in Paths, p # <<>>
        PROVE  p[1] \in SubState /\ p[Len(p)] \in SubState
    BY <1>2 DEF AllStartPaths, Restarting, SubState
  <1>3. QED
    BY <1>1, <1>2 DEF after

\* The states a unit goes through by itself.
LEMMA OwnPathType ==
  ASSUME NEW s, NEW path \in own_paths(s) \cup stray_paths(s)
  PROVE  /\ path[1] \in SubState
         /\ Len(path) # 1 => path[2] \in SubState
  <1>1. path \in {<<"starting">>, <<"active">>, <<"stopping">>, <<"dead">>, <<"failed">>,
                  <<"dead", "autorestart">>, <<"failed", "autorestart">>}
    BY DEF own_paths, stray_paths, Ends, Restarting
  <1>2. QED
    BY <1>1 DEF SubState
-----------------------------------------------------------------------------
(* The inductive invariant. *)

TablePart ==
  /\ TableOK(jobs)
  /\ SyncOK(jobs, ready)
  /\ SafeModes => FreshOK(jobs)

\* Outside of a dispatch, what was reported to the event loop has enabled the
\* source, and what is ready has been reported or will be, by the try_enable
\* that ends the handler under way.
WakePart ==
  ~ running => /\ up_ready => armed
               /\ todo = <<>> /\ ready # {} => up_ready
               /\ todo # <<>> => EndsEnabling(todo)

RestPart ==
  /\ up_ready \in BOOLEAN /\ armed \in BOOLEAN /\ running \in BOOLEAN
  /\ state \in [Unit -> SubState]
  /\ todo \in Seq(SUBSET UsedTask)

\* A crash keeps all but WakePart.
TInv == TablePart /\ RestPart
IInv == TInv /\ WakePart

\* commit of an accepted request.
LEMMA CommitStep ==
  ASSUME TablePart, NEW stage, NEW mode \in UsedModes, job_trans_verify(stage, jobs, mode),
         commit(stage, mode)
  PROVE  TablePart' /\ TableStep(jobs, jobs')
  <1> DEFINE j2 == commit_jobs(stage, jobs, live, mode)
  <1>1. /\ jobs' = j2
        /\ ready' = ready_sync(j2, ready, commit_synced(stage, jobs, mode))
    BY DEF commit
  <1>2. SafeModes => mode \notin EmptyingModes
    BY DEF SafeModes
  <1>3. /\ TableOK(j2)
        /\ SyncOK(j2, ready_sync(j2, ready, commit_synced(stage, jobs, mode)))
        /\ mode \notin EmptyingModes => (FreshOK(jobs) => FreshOK(j2))
        /\ TableStep(jobs, j2)
    BY CommitJobs DEF TablePart
  <1> HIDE DEF j2
  <1>4. TablePart'
    BY <1>1, <1>2, <1>3 DEF TablePart
  <1>5. QED
    BY <1>1, <1>3, <1>4

\* A request, accepted or not.
LEMMA ExecStep ==
  ASSUME TablePart, NEW u, NEW kind, NEW mode \in UsedModes, exec(u, kind, mode)
  PROVE  TablePart' /\ TableStep(jobs, jobs')
  <1>1. PICK stage : IF accepts(stage, kind, mode) THEN commit(stage, mode)
                     ELSE UNCHANGED <<jobs, ready>>
    BY DEF exec
  <1>2. CASE accepts(stage, kind, mode)
    BY <1>1, <1>2, CommitStep DEF accepts
  <1>3. CASE ~ accepts(stage, kind, mode)
    <2>1. jobs' = jobs /\ ready' = ready
      BY <1>1, <1>3
    <2>2. QED
      BY <2>1, SameStep DEF TablePart
  <1>4. QED
    BY <1>2, <1>3

\* The end of a running job.
LEMMA FinishStep ==
  ASSUME TablePart, NEW u \in Unit, jobs[u].trigger # NoJob, NEW result, finish_entry(u, result)
  PROVE  TablePart' /\ TableStep(jobs, jobs')
  <1> DEFINE us == IF ~ finish_retries(jobs[u].trigger, result) THEN {u} ELSE {}
             f == finish_trigger(jobs[u], result)
             done == [jobs EXCEPT ![u] = gc(f)]
             synced == {u} \cup {v \in Unit : resumed(v, us) /\ done[v].pause}
  <1>1. jobs' = resume_related(done, us) /\ ready' = ready_sync(jobs', ready, synced)
    BY DEF finish_entry
  <1>2. /\ EntryOK(f) /\ (NotStale(jobs[u]) => NotStale(f))
        /\ f.trigger # NoJob => f.trigger.kind = jobs[u].trigger.kind
        /\ f.suspends = jobs[u].suspends
    BY FinishOK DEF TablePart, TableOK
  <1> HIDE DEF f, us
  <1>3. /\ EntryOK(gc(f)) /\ (NotStale(jobs[u]) => NotStale(gc(f)))
        /\ gc(f).trigger # NoJob => gc(f).trigger.kind = jobs[u].trigger.kind
        /\ gc(f).suspends = jobs[u].suspends
    BY <1>2, GcOK
  <1>4. jobs \in [Unit -> JobUnitData] /\ \A v \in Unit : EntryOK(jobs[v])
    BY DEF TablePart, TableOK
  <1>5. done[u] = gc(f) /\ \A v \in Unit : v # u => done[v] = jobs[v]
    BY <1>4
  <1>6. TableOK(done) /\ (FreshOK(jobs) => FreshOK(done))
    <2>1. done \in [Unit -> JobUnitData]
      BY <1>3, <1>4 DEF EntryOK
    <2> HIDE DEF done
    <2>2. QED
      BY <1>3, <1>4, <1>5, <2>1 DEF TableOK, FreshOK
  <1> HIDE DEF done
  <1>7. /\ TableOK(jobs')
        /\ FreshOK(done) => FreshOK(jobs')
        /\ \A v \in Unit : /\ jobs'[v].trigger = done[v].trigger
                           /\ jobs'[v].suspends = done[v].suspends
                           /\ ~ (resumed(v, us) /\ done[v].pause) => jobs'[v] = done[v]
    BY <1>1, <1>6, ResumeRelated
  <1>8. ASSUME NEW v \in Unit, v \notin synced
        PROVE  is_ready(jobs'[v]) <=> v \in ready
    <2>1. v # u /\ ~ (resumed(v, us) /\ done[v].pause)
      BY <1>8
    <2>2. jobs'[v] = jobs[v]
      BY <1>5, <1>7, <2>1
    <2>3. QED
      BY <2>2 DEF TablePart, SyncOK
  <1> HIDE DEF synced
  <1>9. SyncOK(jobs', ready')
    BY <1>1, <1>8 DEF SyncOK, ready_sync
  <1>10. TablePart'
    BY <1>6, <1>7, <1>9 DEF TablePart
  <1>11. \A v \in Unit : /\ kinds_of(jobs'[v].suspends) \subseteq kinds_of(jobs[v].suspends)
                         /\ \/ jobs'[v].trigger = NoJob
                            \/ jobs'[v].trigger.kind = jobs[v].trigger.kind
    BY <1>3, <1>5, <1>7
  <1>12. TableStep(jobs, jobs')
    BY <1>11, EntryStep DEF TablePart
  <1>13. QED
    BY <1>10, <1>12

\* One entry of the table gets a new value, and is synced.
LEMMA OneEntryStep ==
  ASSUME TablePart, NEW u \in Unit, NEW e, EntryOK(e), NotStale(jobs[u]) => NotStale(e),
         jobs' = [jobs EXCEPT ![u] = e],
         \A v \in Unit : v \in ready' <=> IF v = u THEN is_ready(e) ELSE v \in ready,
         ready' \subseteq Unit
  PROVE  TablePart' /\ (Kept(jobs[u], e) /\ (jobs[u].trigger # NoJob /\ e.trigger # NoJob
                                             /\ e.trigger.kind # jobs[u].trigger.kind
                                             => e.trigger.kind \in {"Stop", "Restart"})
                        => TableStep(jobs, jobs'))
  <1>1. jobs \in [Unit -> JobUnitData] /\ \A v \in Unit : EntryOK(jobs[v])
    BY DEF TablePart, TableOK
  <1>2. jobs'[u] = e /\ \A v \in Unit : v # u => jobs'[v] = jobs[v]
    BY <1>1
  <1>3. jobs' \in [Unit -> JobUnitData]
    BY <1>1 DEF EntryOK
  <1>4. TableOK(jobs') /\ (FreshOK(jobs) => FreshOK(jobs'))
    BY <1>1, <1>2, <1>3 DEF TableOK, FreshOK
  <1>5. SyncOK(jobs', ready')
    BY <1>2 DEF TablePart, SyncOK
  <1>6. TablePart'
    BY <1>4, <1>5 DEF TablePart
  <1>7. QED
    BY <1>2, <1>6 DEF TableStep, Kept
-----------------------------------------------------------------------------
(* Every action keeps the invariant. *)

RestStep == RestPart' /\ (WakePart => WakePart')
StepOK == TInv' /\ TableStep(jobs, jobs') /\ (WakePart => WakePart')

\* try_enable reports what is ready, and enables the source if it was not.
LEMMA EnableStep ==
  ASSUME RestPart, NEW rdy, try_enable(rdy)
  PROVE  /\ up_ready' \in BOOLEAN /\ armed' \in BOOLEAN
         /\ up_ready' <=> rdy # {}
         /\ WakePart /\ ~ running /\ up_ready' => armed'
  <1>1. up_ready' = (rdy # {}) /\ armed' = (armed \/ (rdy # {} /\ ~up_ready))
    BY DEF try_enable
  <1>2. WakePart /\ ~ running /\ up_ready => armed
    BY DEF WakePart
  <1>3. QED
    BY <1>1, <1>2 DEF RestPart

\* A command that is accepted.
LEMMA CommandStep ==
  ASSUME TInv, NEW u \in Unit, NEW kind \in CommandKinds, Command(u, kind)
  PROVE  StepOK
  <1>1. "Replace" \in UsedModes
    BY DEF UsedModes
  <1>2. PICK stage : accepts(stage, kind, "Replace") /\ commit(stage, "Replace")
    BY DEF Command
  <1>3. TablePart' /\ TableStep(jobs, jobs')
    BY <1>1, <1>2, CommitStep DEF TInv, accepts
  <1>4. /\ up_ready' \in BOOLEAN /\ armed' \in BOOLEAN
        /\ up_ready' <=> ready' # {}
        /\ WakePart /\ ~ running /\ up_ready' => armed'
    BY EnableStep DEF Command, TInv
  <1>5. running' = running /\ state' = state /\ todo' = todo /\ todo = <<>>
    BY DEF Command, idle
  <1>6. RestStep
    BY <1>4, <1>5 DEF RestStep, TInv, RestPart, WakePart
  <1>7. QED
    BY <1>3, <1>6 DEF StepOK, TInv, RestStep

\* The source is dispatched.
LEMMA DispatchStep ==
  ASSUME TInv, Dispatch
  PROVE  StepOK
  <1>1. TablePart' /\ TableStep(jobs, jobs')
    BY SameStep DEF TInv, TablePart, Dispatch
  <1>2. RestStep
    BY DEF RestStep, TInv, RestPart, WakePart, Dispatch
  <1>3. QED
    BY <1>1, <1>2 DEF StepOK, TInv, RestStep

\* The dispatch ends.
LEMMA EndRunStep ==
  ASSUME TInv, EndRun
  PROVE  StepOK
  <1>1. TablePart' /\ TableStep(jobs, jobs')
    BY SameStep DEF TInv, TablePart, EndRun
  <1>2. RestStep
    BY DEF RestStep, TInv, RestPart, WakePart, EndRun
  <1>3. QED
    BY <1>1, <1>2 DEF StepOK, TInv, RestStep

\* An entry has to wait.
LEMMA PauseEntryStep ==
  ASSUME TInv, NEW u \in Unit, PauseEntry(u)
  PROVE  StepOK
  <1>1. /\ jobs' = [jobs EXCEPT ![u] = pause(jobs[u])] /\ ready' = ready \ {u}
        /\ running /\ UNCHANGED <<up_ready, armed, running, state, todo>>
    BY DEF PauseEntry
  <1>2. EntryOK(jobs[u]) /\ ready \subseteq Unit
    BY DEF TInv, TablePart, TableOK, SyncOK
  <1>3. /\ EntryOK(pause(jobs[u])) /\ (NotStale(jobs[u]) => NotStale(pause(jobs[u])))
        /\ ~ is_ready(pause(jobs[u]))
        /\ pause(jobs[u]).trigger = jobs[u].trigger
        /\ pause(jobs[u]).suspends = jobs[u].suspends
    BY <1>2, PauseOK
  <1>4. Kept(jobs[u], pause(jobs[u]))
    BY <1>3 DEF Kept
  <1>5. \A v \in Unit : v \in ready' <=> IF v = u THEN is_ready(pause(jobs[u])) ELSE v \in ready
    BY <1>1, <1>3
  <1>6. ready' \subseteq Unit
    BY <1>1, <1>2
  <1>7. TablePart' /\ TableStep(jobs, jobs')
    BY <1>1, <1>3, <1>4, <1>5, <1>6, OneEntryStep DEF TInv
  <1>8. RestStep
    BY <1>1 DEF RestStep, TInv, RestPart, WakePart
  <1>9. QED
    BY <1>7, <1>8 DEF StepOK, TInv, RestStep

\* The job of an entry is triggered and its unit is called.
LEMMA TriggerEntryStep ==
  ASSUME TInv, NEW u \in Unit, TriggerEntry(u)
  PROVE  StepOK
  <1> DEFINE uv == do_trigger(jobs[u])
             info == get_next_trigger(jobs[u])
  <1>1. /\ running /\ todo = <<>> /\ u \in ready /\ running' = running
        /\ EntryOK(jobs[u]) /\ is_ready(jobs[u]) /\ ready \subseteq Unit
        /\ state[u] \in SubState
    BY DEF TriggerEntry, TInv, TablePart, RestPart, TableOK, SyncOK
  <1>2. PICK r \in job_trigger_unit(state[u], uv.trigger.run_kind, "force" \in uv.trigger.attr) :
          LET result == job_trigger_err_to_result(r.err) IN
          /\ jobs' = [jobs EXCEPT ![u] = IF result = "again" THEN trigger_again(uv) ELSE uv]
          /\ ready' = ready \ {u}
          /\ state' = [state EXCEPT ![u] = after(state[u], r.path)]
          /\ IF r.path = <<>> THEN UNCHANGED <<armed, up_ready>> ELSE try_enable(ready')
          /\ todo' = push(
               IF r.path = <<>> THEN {}
                 ELSE {notification(u, state[u], r.path[1], after(state[u], r.path))},
               IF result \notin JobResult THEN <<>>
                 ELSE <<{[op |-> "remove", u |-> u, run_kind |-> info.run_kind,
                          attr |-> info.attr, result |-> result]}>>)
    BY DEF TriggerEntry
  <1> DEFINE result == job_trigger_err_to_result(r.err)
             e == IF result = "again" THEN trigger_again(uv) ELSE uv
             note == IF r.path = <<>> THEN {}
                       ELSE {notification(u, state[u], r.path[1], after(state[u], r.path))}
             ended == IF result \notin JobResult THEN <<>>
                       ELSE <<{[op |-> "remove", u |-> u, run_kind |-> info.run_kind,
                                attr |-> info.attr, result |-> result]}>>
  <1>3. /\ EntryOK(uv) /\ uv.trigger # NoJob /\ (NotStale(jobs[u]) => NotStale(uv))
        /\ ~ is_ready(uv)
        /\ jobs[u].trigger # NoJob /\ uv.trigger.kind # jobs[u].trigger.kind
           => uv.trigger.kind \in {"Stop", "Restart"}
        /\ kinds_of(uv.suspends) \subseteq kinds_of(jobs[u].suspends)
    BY <1>1, DoTriggerOK
  <1>4. info \in Job
    BY <1>1, NextTriggerType
  <1>5. r.path # <<>> => r.path[1] \in SubState /\ after(state[u], r.path) \in SubState
    BY <1>1, ReplyType
  <1>6. after(state[u], r.path) \in SubState
    BY <1>1, <1>5 DEF after
  <1> HIDE DEF uv, info, result
  <1>7. /\ EntryOK(e) /\ (NotStale(jobs[u]) => NotStale(e)) /\ ~ is_ready(e)
        /\ e.trigger = uv.trigger /\ e.suspends = uv.suspends
    BY <1>3, TriggerAgainOK
  <1>8. jobs' = [jobs EXCEPT ![u] = e] /\ ready' = ready \ {u} /\ todo' = push(note, ended)
    BY <1>2 DEF result
  <1> HIDE DEF e
  <1>9. Kept(jobs[u], e)
    BY <1>1, <1>3, <1>7, ShrinkKept
  <1>10. TablePart' /\ TableStep(jobs, jobs')
    <2>1. \A v \in Unit : v \in ready' <=> IF v = u THEN is_ready(e) ELSE v \in ready
      BY <1>7, <1>8
    <2>2. ready' \subseteq Unit
      BY <1>1, <1>8
    <2>3. QED
      BY <1>3, <1>7, <1>8, <1>9, <2>1, <2>2, OneEntryStep DEF TInv
  <1>11. todo' \in Seq(SUBSET UsedTask)
    <2>1. note \in SUBSET UsedTask
      <3>1. CASE r.path = <<>>
        BY <3>1
      <3>2. CASE r.path # <<>>
        <4>1. \A s \in SubState : active_state(s) \in ActiveState
          BY DEF active_state, ActiveState
        <4>2. notification(u, state[u], r.path[1], after(state[u], r.path)) \in Notify
          BY <1>1, <1>5, <3>2, <4>1 DEF notification, Notify
        <4>3. notification(u, state[u], r.path[1], after(state[u], r.path)).op = "notify"
          BY DEF notification
        <4>4. QED
          BY <3>2, <4>2, <4>3 DEF UsedTask, Task
      <3>3. QED
        BY <3>1, <3>2
    <2>2. ended \in Seq(SUBSET UsedTask)
      <3>1. CASE result \notin JobResult
        BY <3>1
      <3>2. CASE result \in JobResult
        <4> DEFINE t == [op |-> "remove", u |-> u, run_kind |-> info.run_kind,
                         attr |-> info.attr, result |-> result]
        <4>1. t \in Remove /\ t.op = "remove"
          BY <1>4, <3>2 DEF Remove, Job
        <4>2. t \in UsedTask
          BY <4>1 DEF UsedTask, Task
        <4>3. ended = <<{t}>>
          BY <3>2
        <4>4. {t} \in SUBSET UsedTask
          BY <4>2
        <4>5. \A g \in SUBSET UsedTask : <<g>> \in Seq(SUBSET UsedTask)
          OBVIOUS
        <4> HIDE DEF t, ended
        <4>6. QED
          BY <4>3, <4>4, <4>5
      <3>3. QED
        BY <3>1, <3>2
    <2> HIDE DEF note, ended
    <2>3. QED
      BY <1>8, <2>1, <2>2, PushOK
  <1>12. up_ready' \in BOOLEAN /\ armed' \in BOOLEAN
    <2>1. CASE r.path = <<>>
      BY <1>2, <2>1 DEF TInv, RestPart
    <2>2. CASE r.path # <<>>
      <3>1. try_enable(ready')
        BY <1>2, <2>2
      <3>2. QED
        BY <3>1, EnableStep DEF TInv
    <2>3. QED
      BY <2>1, <2>2
  <1>13. state' \in [Unit -> SubState]
    BY <1>2, <1>6 DEF TInv, RestPart
  <1>14. RestStep
    BY <1>1, <1>11, <1>12, <1>13 DEF RestStep, TInv, RestPart, WakePart
  <1>15. QED
    BY <1>10, <1>14 DEF StepOK, TInv, RestStep

\* A group of one task is work.
LEMMA OneTask ==
  ASSUME NEW t \in UsedTask, NEW s \in Seq(SUBSET UsedTask)
  PROVE  /\ push({t}, s) \in Seq(SUBSET UsedTask)
         /\ EndsEnabling(s) => EndsEnabling(push({t}, s))
  BY PushOK

\* A unit's report meets the entry of the unit.
LEMMA TryFinishStep ==
  ASSUME TInv, todo # <<>>, NEW t \in Head(todo), TryFinish(t)
  PROVE  StepOK
  <1> DEFINE job == jobs[t.u].trigger
             says == job_process_unit(job.run_kind, t.ns, RELOAD_FAILURE)
             relation == [op |-> "relate", u |-> t.u, run_kind |-> job.run_kind, attr |-> job.attr]
             first == push(IF says.result = "Done" THEN {} ELSE {relation},
                           aftermath(t, says.generated))
  <1>1. /\ t.op = "notify" /\ state' = [state EXCEPT ![t.u] = t.at]
        /\ up_ready' = up_ready /\ armed' = armed /\ running' = running
    BY DEF TryFinish
  <1>2. /\ t \in UsedTask /\ rest(t) \in Seq(SUBSET UsedTask)
        /\ EndsEnabling(todo) => EndsEnabling(rest(t))
    BY <1>1, RestOK DEF TInv, RestPart
  <1>3. t \in Notify /\ t.u \in Unit /\ t.at \in SubState
    BY <1>1, <1>2 DEF UsedTask, Task, Notify, Request, Remove, Relate, Enable
  <1>4. /\ EntryOK(jobs[t.u]) /\ jobs \in [Unit -> JobUnitData] /\ ready \subseteq Unit
        /\ state \in [Unit -> SubState]
    BY <1>3 DEF TInv, TablePart, RestPart, TableOK, SyncOK
  <1>5. \A generated : /\ aftermath(t, generated) \in Seq(SUBSET UsedTask)
                       /\ EndsEnabling(todo) => EndsEnabling(aftermath(t, generated))
    BY <1>2, <1>3, AftermathOK, RequestTasks
  <1>6. job # NoJob => relation \in UsedTask
    <2>1. job # NoJob => job \in Job
      BY <1>4, EntryType DEF EntryOK
    <2>2. job # NoJob => relation \in Relate /\ relation.op = "relate"
      BY <1>3, <2>1 DEF Relate, Job
    <2>3. QED
      BY <2>2 DEF UsedTask, Task
  <1> HIDE DEF relation, says
  <1>7. job # NoJob => /\ first \in Seq(SUBSET UsedTask)
                       /\ EndsEnabling(todo) => EndsEnabling(first)
    <2>1. CASE says.result = "Done"
      <3>1. first = aftermath(t, says.generated)
        BY <2>1 DEF push
      <3>2. QED
        BY <1>5, <3>1
    <2>2. CASE says.result # "Done"
      <3>1. first = push({relation}, aftermath(t, says.generated))
        BY <2>2
      <3>2. QED
        BY <1>5, <1>6, <3>1, OneTask
    <2>3. QED
      BY <2>1, <2>2
  <1> DEFINE Rest == /\ todo' \in Seq(SUBSET UsedTask)
                     /\ EndsEnabling(todo) => EndsEnabling(todo')
  <1>8. TablePart' /\ TableStep(jobs, jobs') /\ Rest
    <2>1. CASE /\ \E generated : todo' = aftermath(t, generated)
               /\ jobs' = jobs /\ ready' = ready
      <3>1. Rest
        BY <1>5, <2>1
      <3>2. QED
        BY <2>1, <3>1, SameStep DEF TInv, TablePart
    <2>2. CASE /\ jobs' = [jobs EXCEPT ![t.u] = resume(jobs[t.u])]
               /\ ready' = ready_sync(jobs', ready, {t.u})
               /\ todo' = aftermath(t, TRUE)
      <3> DEFINE e == resume(jobs[t.u])
      <3>1. /\ EntryOK(e) /\ (NotStale(jobs[t.u]) => NotStale(e))
            /\ e.trigger = jobs[t.u].trigger /\ e.suspends = jobs[t.u].suspends
        BY <1>4, PauseOK
      <3> HIDE DEF e
      <3>2. Kept(jobs[t.u], e)
        BY <3>1 DEF Kept
      <3>3. jobs' = [jobs EXCEPT ![t.u] = e] /\ jobs'[t.u] = e
        BY <1>3, <1>4, <2>2 DEF e
      <3>4. /\ \A v \in Unit : v \in ready' <=> IF v = t.u THEN is_ready(e) ELSE v \in ready
            /\ ready' \subseteq Unit
        BY <2>2, <3>3 DEF ready_sync
      <3>5. TablePart' /\ TableStep(jobs, jobs')
        BY <1>3, <3>1, <3>2, <3>3, <3>4, OneEntryStep DEF TInv
      <3>6. Rest
        BY <1>5, <2>2
      <3>7. QED
        BY <3>5, <3>6
    <2>3. CASE job # NoJob /\ finish_entry(t.u, says.result) /\ todo' = first
      <3>1. TablePart' /\ TableStep(jobs, jobs')
        BY <1>3, <2>3, FinishStep DEF TInv
      <3>2. QED
        BY <1>7, <2>3, <3>1
    <2>4. QED
      BY <2>1, <2>2, <2>3 DEF TryFinish, says, relation
  <1>9. state' \in [Unit -> SubState]
    BY <1>1, <1>3, <1>4
  <1>10. WakePart => todo' # <<>> \/ running
    BY <1>8 DEF WakePart, EndsEnabling
  <1>11. RestStep
    BY <1>1, <1>8, <1>9, <1>10 DEF RestStep, TInv, RestPart, WakePart
  <1>12. QED
    BY <1>8, <1>11 DEF StepOK, TInv, RestStep

\* What a step of a handler leaves of the work, and of the event source.
LEMMA WorkRest ==
  ASSUME TInv, todo # <<>>, todo' \in Seq(SUBSET UsedTask),
         EndsEnabling(todo) => EndsEnabling(todo'),
         UNCHANGED <<up_ready, armed, running, state>>
  PROVE  RestStep
  <1>1. WakePart => todo' # <<>> \/ running
    BY DEF WakePart, EndsEnabling
  <1>2. QED
    BY <1>1 DEF RestStep, TInv, RestPart, WakePart

\* OnFailure= of a unit, started with the mode Fail.
LEMMA OnFailureFail ==
  ASSUME NEW u \in Unit
  PROVE  notify_result_start(u, "OnFailure", "Fail") \in SUBSET UsedRequest
  BY NotifyRequests DEF UsedModes

\* The trigger that its own call has ended is removed.
LEMMA RemoveEndedStep ==
  ASSUME TInv, todo # <<>>, NEW t \in Head(todo), RemoveEnded(t)
  PROVE  StepOK
  <1> DEFINE deleted == ~ finish_retries(jobs[t.u].trigger, t.result)
             relation == [op |-> "relate", u |-> t.u, run_kind |-> t.run_kind, attr |-> t.attr]
             onfailure == IF OnFailureJobMode[t.u] = "Fail"
                            THEN notify_result_start(t.u, "OnFailure", "Fail") ELSE {}
             mid == push({relation}, rest(t))
  <1>1. t.op = "remove" /\ UNCHANGED <<up_ready, armed, running, state>>
    BY DEF RemoveEnded
  <1>2. /\ t \in UsedTask /\ rest(t) \in Seq(SUBSET UsedTask)
        /\ EndsEnabling(todo) => EndsEnabling(rest(t))
    BY <1>1, RestOK DEF TInv, RestPart
  <1>3. t \in Remove /\ t.u \in Unit
    BY <1>1, <1>2 DEF UsedTask, Task, Notify, Request, Remove, Relate, Enable
  <1>4. relation \in UsedTask
    <2>1. relation \in Relate /\ relation.op = "relate"
      BY <1>3 DEF Relate, Remove
    <2>2. QED
      BY <2>1 DEF UsedTask, Task
  <1>5. onfailure \in SUBSET UsedTask
    BY <1>3, OnFailureFail, RequestTasks
  <1> HIDE DEF relation, onfailure
  <1>6. mid \in Seq(SUBSET UsedTask) /\ (EndsEnabling(todo) => EndsEnabling(mid))
    BY <1>2, <1>4, OneTask
  <1> HIDE DEF mid
  <1>7. /\ push(onfailure, mid) \in Seq(SUBSET UsedTask)
        /\ EndsEnabling(todo) => EndsEnabling(push(onfailure, mid))
    BY <1>5, <1>6, PushOK
  <1>8. /\ todo' \in {rest(t), push(onfailure, mid)}
        /\ TablePart' /\ TableStep(jobs, jobs')
    <2>1. CASE jobs[t.u].trigger = NoJob
      <3>1. todo' = rest(t) /\ jobs' = jobs /\ ready' = ready
        BY <2>1 DEF RemoveEnded
      <3>2. QED
        BY <3>1, SameStep DEF TInv, TablePart
    <2>2. CASE jobs[t.u].trigger # NoJob
      <3>1. /\ finish_entry(t.u, t.result)
            /\ todo' = IF deleted /\ t.result # "Done" THEN push(onfailure, mid) ELSE rest(t)
        BY <2>2 DEF RemoveEnded, mid, onfailure, relation
      <3>2. TablePart' /\ TableStep(jobs, jobs')
        BY <1>3, <2>2, <3>1, FinishStep DEF TInv
      <3>3. QED
        BY <3>1, <3>2
    <2>3. QED
      BY <2>1, <2>2
  <1>9. RestStep
    BY <1>1, <1>2, <1>7, <1>8, WorkRest
  <1>10. QED
    BY <1>8, <1>9 DEF StepOK, TInv, RestStep

\* The relations of a job that has failed.
LEMMA RemoveRelationStep ==
  ASSUME TInv, todo # <<>>, NEW t \in Head(todo), RemoveRelation(t)
  PROVE  StepOK
  <1> DEFINE explored == job_trans_fallback(t.u, t.run_kind, jobs)
             hit == {v \in explored : fallback_hit(v, jobs) /\ v # t.u}
             failed == {w \in hit : OnFailureJobMode[w] = "Fail"}
             onfailure == UNION {notify_result_start(v, "OnFailure", "Fail") : v \in failed}
  <1>1. t.op = "relate" /\ UNCHANGED <<up_ready, armed, running, state>>
    BY DEF RemoveRelation
  <1>2. /\ t \in UsedTask /\ rest(t) \in Seq(SUBSET UsedTask)
        /\ EndsEnabling(todo) => EndsEnabling(rest(t))
    BY <1>1, RestOK DEF TInv, RestPart
  <1>3. explored \subseteq Unit
    BY DEF job_trans_fallback
  <1> HIDE DEF explored
  <1>4. onfailure \in SUBSET UsedTask
    <2>1. failed \subseteq Unit
      BY <1>3
    <2> HIDE DEF failed
    <2>2. QED
      BY <2>1, OnFailureFail, RequestTasks
  <1> HIDE DEF onfailure
  <1>5. /\ push(onfailure, rest(t)) \in Seq(SUBSET UsedTask)
        /\ EndsEnabling(todo) => EndsEnabling(push(onfailure, rest(t)))
    BY <1>2, <1>4, PushOK
  <1>6. /\ todo' \in {rest(t), push(onfailure, rest(t))}
        /\ TablePart' /\ TableStep(jobs, jobs')
    <2>1. CASE exec(t.u, "Stop", "Replace") /\ todo' = rest(t)
      <3>1. "Replace" \in UsedModes
        BY DEF UsedModes
      <3>2. QED
        BY <2>1, <3>1, ExecStep DEF TInv
    <2>2. CASE /\ jobs' = fallback_jobs(explored, jobs, live)
               /\ ready' = ready_sync(jobs', ready, fallback_synced(explored, jobs))
               /\ todo' = push(onfailure, rest(t))
      <3> DEFINE j2 == fallback_jobs(explored, jobs, live)
      <3>1. /\ TableOK(j2)
            /\ SyncOK(j2, ready_sync(j2, ready, fallback_synced(explored, jobs)))
            /\ FreshOK(jobs) => FreshOK(j2)
            /\ TableStep(jobs, j2)
        BY FallbackJobs DEF TInv, TablePart
      <3>2. /\ jobs' = j2
            /\ ready' = ready_sync(j2, ready, fallback_synced(explored, jobs))
        BY <2>2
      <3> HIDE DEF j2
      <3>3. TablePart'
        BY <3>1, <3>2 DEF TInv, TablePart
      <3>4. QED
        BY <2>2, <3>1, <3>2, <3>3
    <2>3. QED
      BY <2>1, <2>2 DEF RemoveRelation, explored, onfailure
  <1>7. RestStep
    BY <1>1, <1>2, <1>5, <1>6, WorkRest
  <1>8. QED
    BY <1>6, <1>7 DEF StepOK, TInv, RestStep

\* A request the engine makes by itself.
LEMMA ExecTaskStep ==
  ASSUME TInv, todo # <<>>, NEW t \in Head(todo), Exec(t)
  PROVE  StepOK
  <1>1. /\ t.op = "exec" /\ exec(t.u, t.kind, t.mode) /\ todo' = rest(t)
        /\ UNCHANGED <<up_ready, armed, running, state>>
    BY DEF Exec
  <1>2. /\ t \in UsedTask /\ rest(t) \in Seq(SUBSET UsedTask)
        /\ EndsEnabling(todo) => EndsEnabling(rest(t))
    BY <1>1, RestOK DEF TInv, RestPart
  <1>3. t.mode \in UsedModes
    BY <1>1, <1>2 DEF UsedTask
  <1>4. TablePart' /\ TableStep(jobs, jobs')
    BY <1>1, <1>3, ExecStep DEF TInv
  <1>5. RestStep
    BY <1>1, <1>2, WorkRest
  <1>6. QED
    BY <1>4, <1>5 DEF StepOK, TInv, RestStep

\* try_enable, at the end of a handler of the event loop.
LEMMA TryEnableStep ==
  ASSUME TInv, todo # <<>>, NEW t \in Head(todo), TryEnable(t)
  PROVE  StepOK
  <1>1. /\ t.op = "enable" /\ try_enable(ready) /\ todo' = rest(t)
        /\ UNCHANGED <<jobs, ready, running, state>>
    BY DEF TryEnable
  <1>2. /\ rest(t) \in Seq(SUBSET UsedTask)
        /\ EndsEnabling(todo) /\ rest(t) # <<>> => EndsEnabling(rest(t))
    BY RestOK DEF TInv, RestPart
  <1>3. /\ up_ready' \in BOOLEAN /\ armed' \in BOOLEAN
        /\ up_ready' <=> ready # {}
        /\ WakePart /\ ~ running /\ up_ready' => armed'
    BY <1>1, EnableStep DEF TInv
  <1>4. WakePart /\ ~ running => EndsEnabling(todo)
    BY DEF WakePart
  <1>5. RestStep
    BY <1>1, <1>2, <1>3, <1>4 DEF RestStep, TInv, RestPart, WakePart
  <1>6. TablePart' /\ TableStep(jobs, jobs')
    BY <1>1, SameStep DEF TInv, TablePart
  <1>7. QED
    BY <1>5, <1>6 DEF StepOK, TInv, RestStep

-----------------------------------------------------------------------------
\* The handler of a unit's reports ends with try_enable.
LEMMA ReportsOK ==
  ASSUME TInv, NEW u \in Unit, NEW path, path[1] \in SubState,
         Len(path) # 1 => path[2] \in SubState
  PROVE  reports(u, path) \in Seq(SUBSET UsedTask) /\ EndsEnabling(reports(u, path))
  <1> DEFINE n1 == notification(u, state[u], path[1], path[1])
             n2 == notification(u, path[1], path[2], path[2])
             s1 == <<{n1}, {enable}>>
             s2 == <<{n1}, {enable}, {n2}, {enable}>>
  <1>1. state[u] \in SubState
    BY DEF TInv, RestPart
  <1>2. \A s \in SubState : active_state(s) \in ActiveState
    BY DEF active_state, ActiveState
  <1>3. \A from, to \in SubState : /\ notification(u, from, to, to) \in Notify
                                   /\ notification(u, from, to, to).op = "notify"
    BY <1>2 DEF notification, Notify
  <1>4. {n1} \in SUBSET UsedTask
    BY <1>1, <1>3 DEF UsedTask, Task
  <1>5. Len(path) # 1 => {n2} \in SUBSET UsedTask
    BY <1>3 DEF UsedTask, Task
  <1>6. {enable} \in SUBSET UsedTask
    BY DEF enable, UsedTask, Task, Enable
  <1>7. \A a, b \in SUBSET UsedTask :
          /\ <<a, b>> \in Seq(SUBSET UsedTask)
          /\ <<a, b>> # <<>> /\ Len(<<a, b>>) = 2 /\ <<a, b>>[2] = b
    OBVIOUS
  <1>8. \A a, b, c, d \in SUBSET UsedTask :
          /\ <<a, b, c, d>> \in Seq(SUBSET UsedTask)
          /\ <<a, b, c, d>> # <<>> /\ Len(<<a, b, c, d>>) = 4 /\ <<a, b, c, d>>[4] = d
    OBVIOUS
  <1>9. reports(u, path) = IF Len(path) = 1 THEN s1 ELSE s2
    BY DEF reports
  <1> HIDE DEF n1, n2
  <1>10. CASE Len(path) = 1
    <2>1. s1 \in Seq(SUBSET UsedTask) /\ EndsEnabling(s1)
      BY <1>4, <1>6, <1>7 DEF EndsEnabling
    <2>2. QED
      BY <1>9, <1>10, <2>1
  <1>11. CASE Len(path) # 1
    <2>1. s2 \in Seq(SUBSET UsedTask) /\ EndsEnabling(s2)
      BY <1>4, <1>5, <1>6, <1>8, <1>11 DEF EndsEnabling
    <2>2. QED
      BY <1>9, <1>11, <2>1
  <1>12. QED
    BY <1>10, <1>11

\* A unit changes by itself.
LEMMA UnitEventStep ==
  ASSUME TInv, NEW u \in Unit, UnitEvent(u)
  PROVE  StepOK
  <1>1. PICK path \in own_paths(state[u]) \cup stray_paths(state[u]) : todo' = reports(u, path)
    BY DEF UnitEvent
  <1>2. UNCHANGED <<jobs, ready, up_ready, armed, running, state>>
    BY DEF UnitEvent
  <1>3. todo' \in Seq(SUBSET UsedTask) /\ EndsEnabling(todo')
    BY <1>1, OwnPathType, ReportsOK
  <1>4. RestStep
    BY <1>2, <1>3 DEF RestStep, TInv, RestPart, WakePart, EndsEnabling
  <1>5. TablePart' /\ TableStep(jobs, jobs')
    BY <1>2, SameStep DEF TInv, TablePart
  <1>6. QED
    BY <1>4, <1>5 DEF StepOK, TInv, RestStep

\* The restart timer of a unit fires.
LEMMA RestartTimerStep ==
  ASSUME TInv, NEW u \in Unit, RestartTimer(u)
  PROVE  StepOK
  <1>1. todo = <<>> /\ ~ running /\ running' = running
    BY DEF RestartTimer, idle
  <1>2. [state EXCEPT ![u] = "restarting"] \in [Unit -> SubState]
    BY DEF TInv, RestPart, SubState
  <1>3. CASE /\ state' = [state EXCEPT ![u] = "restarting"]
             /\ UNCHANGED <<jobs, ready, up_ready, armed, todo>>
    <2>1. TablePart' /\ TableStep(jobs, jobs')
      BY <1>3, SameStep DEF TInv, TablePart
    <2>2. RestStep
      BY <1>1, <1>2, <1>3 DEF RestStep, TInv, RestPart, WakePart
    <2>3. QED
      BY <2>1, <2>2 DEF StepOK, TInv, RestStep
  <1>4. CASE \E stage : /\ accepts(stage, "Restart", "Replace")
                        /\ commit(stage, "Replace")
                        /\ try_enable(ready')
                        /\ state' = [state EXCEPT ![u] = "restarting"]
                        /\ UNCHANGED todo
    <2>1. PICK stage : /\ accepts(stage, "Restart", "Replace")
                       /\ commit(stage, "Replace")
                       /\ try_enable(ready')
                       /\ state' = [state EXCEPT ![u] = "restarting"]
                       /\ UNCHANGED todo
      BY <1>4
    <2>2. "Replace" \in UsedModes
      BY DEF UsedModes
    <2>3. TablePart' /\ TableStep(jobs, jobs')
      BY <2>1, <2>2, CommitStep DEF TInv, accepts
    <2>4. /\ up_ready' \in BOOLEAN /\ armed' \in BOOLEAN
          /\ up_ready' <=> ready' # {}
          /\ WakePart /\ ~ running /\ up_ready' => armed'
      BY <2>1, EnableStep DEF TInv
    <2>5. RestStep
      BY <1>1, <1>2, <2>1, <2>4 DEF RestStep, TInv, RestPart, WakePart
    <2>6. QED
      BY <2>3, <2>5 DEF StepOK, TInv, RestStep
  <1>5. CASE /\ todo' = reports(u, <<"failed">>)
             /\ UNCHANGED <<jobs, ready, up_ready, armed, state>>
    <2>1. Len(<<"failed">>) = 1 /\ <<"failed">>[1] \in SubState
      BY DEF SubState
    <2>2. todo' \in Seq(SUBSET UsedTask) /\ EndsEnabling(todo')
      BY <1>5, <2>1, ReportsOK
    <2>3. TablePart' /\ TableStep(jobs, jobs')
      BY <1>5, SameStep DEF TInv, TablePart
    <2>4. RestStep
      BY <1>1, <1>5, <2>2 DEF RestStep, TInv, RestPart, WakePart, EndsEnabling
    <2>5. QED
      BY <2>3, <2>4 DEF StepOK, TInv, RestStep
  <1>6. QED
    BY <1>3, <1>4, <1>5 DEF RestartTimer

\* The invariant is inductive, with and without WakePart.
LEMMA NextStep ==
  ASSUME TInv, [Next]_vars
  PROVE  StepOK
  <1>1. CASE \E u \in Unit, kind \in CommandKinds : Command(u, kind)
    BY <1>1, CommandStep
  <1>2. CASE Dispatch
    BY <1>2, DispatchStep
  <1>3. CASE \E u \in Unit : PauseEntry(u) \/ TriggerEntry(u)
    BY <1>3, PauseEntryStep, TriggerEntryStep
  <1>4. CASE EndRun
    BY <1>4, EndRunStep
  <1>5. CASE Work
    BY <1>5, TryFinishStep, RemoveEndedStep, RemoveRelationStep, ExecTaskStep, TryEnableStep
       DEF Work
  <1>6. CASE \E u \in Unit : UnitEvent(u) \/ RestartTimer(u)
    BY <1>6, UnitEventStep, RestartTimerStep
  <1>7. CASE UNCHANGED vars
    <2>1. TablePart' /\ TableStep(jobs, jobs')
      BY <1>7, SameStep DEF vars, TInv, TablePart
    <2>2. RestStep
      BY <1>7 DEF RestStep, vars, TInv, RestPart, WakePart
    <2>3. QED
      BY <2>1, <2>2 DEF StepOK, TInv, RestStep
  <1>8. QED
    BY <1>1, <1>2, <1>3, <1>4, <1>5, <1>6, <1>7 DEF Next

\* The engine starts without jobs.
LEMMA InitOK ==
  ASSUME Init
  PROVE  IInv
  <1>1. \A u \in Unit : jobs[u] = NewJobUnit
    BY DEF Init
  <1>2. ~ is_ready(NewJobUnit)
    BY DEF is_ready, calc_ready, NewJobUnit
  <1>3. jobs \in [Unit -> JobUnitData]
    BY NewJobUnitOK DEF Init, EntryOK
  <1>4. TablePart
    BY <1>1, <1>2, <1>3, NewJobUnitOK DEF Init, TablePart, TableOK, SyncOK, FreshOK
  <1>5. RestPart
    <2>1. state \in [Unit -> SubState]
      BY DEF Init, SubState
    <2>2. todo \in Seq(SUBSET UsedTask)
      BY DEF Init
    <2>3. QED
      BY <2>1, <2>2 DEF Init, RestPart
  <1>6. WakePart
    BY DEF Init, WakePart
  <1>7. QED
    BY <1>4, <1>5, <1>6 DEF IInv, TInv

\* What the invariant says of the properties the runs check.
LEMMA InvImplies ==
  ASSUME TInv
  PROVE  /\ TypeOK /\ AllMerged /\ StoredAsHeld /\ ReadyInSync
         /\ WakePart => NoLostWakeup
         /\ SafeModes => InterrupterExists
  <1>1. AllMerged /\ StoredAsHeld
    BY DEF TInv, TablePart, TableOK, EntryOK, AllMerged, StoredAsHeld
  <1>2. ReadyInSync
    BY DEF TInv, TablePart, SyncOK, ReadyInSync
  <1>3. TypeOK
    <2>1. todo \in Seq(SUBSET Task)
      <3>1. UsedTask \subseteq Task /\ todo \in Seq(SUBSET UsedTask)
        BY DEF UsedTask, TInv, RestPart
      <3> HIDE DEF UsedTask
      <3>2. QED
        BY <3>1
    <2>2. ready \subseteq Unit
      BY DEF TInv, TablePart, SyncOK
    <2>3. QED
      BY <2>1, <2>2 DEF TInv, TablePart, RestPart, TableOK, TypeOK
  <1>4. WakePart => NoLostWakeup
    BY DEF WakePart, NoLostWakeup, idle
  <1>5. SafeModes => InterrupterExists
    BY InterruptParts DEF TInv, TablePart, TableOK, FreshOK, InterrupterExists
  <1>6. QED
    BY <1>1, <1>2, <1>3, <1>4, <1>5

-----------------------------------------------------------------------------
(* The theorems. *)

\* Every variable of the job engine keeps its type.
THEOREM TypeCorrect == Spec => []TypeOK
  <1>1. Init => IInv
    BY InitOK
  <1>2. IInv /\ [Next]_vars => IInv'
    BY NextStep DEF StepOK, IInv
  <1>3. IInv => TypeOK
    BY InvImplies DEF IInv
  <1>4. QED
    BY <1>1, <1>2, <1>3, PTL DEF Spec

\* Commit, fallback, trigger and recovery records never leave conflicting jobs
\* suspended on a unit, nor a queue that lacks a suspended job other than a Nop or
\* has one that is not suspended; what is stored for recovery is always what the
\* table holds.
THEOREM TableConsistent == Spec => [](AllMerged /\ StoredAsHeld)
  <1>1. Init => IInv
    BY InitOK
  <1>2. IInv /\ [Next]_vars => IInv'
    BY NextStep DEF StepOK, IInv
  <1>3. IInv => AllMerged /\ StoredAsHeld
    BY InvImplies DEF IInv
  <1>4. QED
    BY <1>1, <1>2, <1>3, PTL DEF Spec

\* No job that does something is left behind: what an entry without a trigger and
\* with an empty queue still has suspended is a Nop at most (sq_order queues a Stop
\* alone, and nothing orders the queue again when that Stop has ended).
THEOREM OnlyNopsLeft ==
  Spec => [](\A u \in Unit : jobs[u].trigger = NoJob /\ jobs[u].sq = {}
                             => kinds_of(jobs[u].suspends) \subseteq {"Nop"})
  <1>1. AllMerged => \A u \in Unit : jobs[u].trigger = NoJob /\ jobs[u].sq = {}
                                    => kinds_of(jobs[u].suspends) \subseteq {"Nop"}
    BY DEF AllMerged, SuspendsMerged
  <1>2. QED
    BY <1>1, TableConsistent, PTL

\* The ready queue holds exactly the entries that are ready, although commit,
\* fallback and process_relation sync only what they believe to have changed.
THEOREM ReadyQueueInSync == Spec => []ReadyInSync
  <1>1. Init => IInv
    BY InitOK
  <1>2. IInv /\ [Next]_vars => IInv'
    BY NextStep DEF StepOK, IInv
  <1>3. IInv => ReadyInSync
    BY InvImplies DEF IInv
  <1>4. QED
    BY <1>1, <1>2, <1>3, PTL DEF Spec

\* Without a crash no wakeup is lost: when the loop is idle and a job is ready,
\* the engine's source is enabled.
THEOREM WakeupKept == Spec => []NoLostWakeup
  <1>1. Init => IInv
    BY InitOK
  <1>2. IInv /\ [Next]_vars => IInv'
    BY NextStep DEF StepOK, IInv
  <1>3. IInv => NoLostWakeup
    BY InvImplies DEF IInv
  <1>4. QED
    BY <1>1, <1>2, <1>3, PTL DEF Spec

\* The interrupt mark is never stale, provided OnFailureJobMode= and
\* OnSuccessJobMode= are neither isolate nor flush; with flush it may be, as
\* flush_interrupt.cfg shows.
THEOREM InterruptJustified ==
  ASSUME SafeModes
  PROVE  Spec => []InterrupterExists
  <1>1. Init => IInv
    BY InitOK
  <1>2. IInv /\ [Next]_vars => IInv'
    BY NextStep DEF StepOK, IInv
  <1>3. IInv => InterrupterExists
    BY InvImplies DEF IInv
  <1>4. QED
    BY <1>1, <1>2, <1>3, PTL DEF Spec

\* The whole table agrees with its ready queue and its records: the three together,
\* under the same condition on the modes.
THEOREM TableAgrees ==
  ASSUME SafeModes
  PROVE  Spec => []TableInSync
  <1>1. Init => IInv
    BY InitOK
  <1>2. IInv /\ [Next]_vars => IInv'
    BY NextStep DEF StepOK, IInv
  <1>3. IInv => TableInSync
    BY InvImplies DEF TableInSync, IInv
  <1>4. QED
    BY <1>1, <1>2, <1>3, PTL DEF Spec

\* A running job gives way to a Stop or a Restart of its unit only.
THEOREM InterruptsAreStops == Spec => InterruptedByStop
  <1>1. Init => IInv
    BY InitOK
  <1>2. IInv /\ [Next]_vars => IInv'
    BY NextStep DEF StepOK, IInv
  <1> DEFINE A == \A u \in Unit :
                    jobs[u].trigger # NoJob /\ jobs'[u].trigger # NoJob
                      /\ jobs'[u].trigger.kind # jobs[u].trigger.kind
                    => jobs'[u].trigger.kind \in {"Stop", "Restart"}
  <1>3. IInv /\ [Next]_vars => [A]_vars
    BY NextStep DEF StepOK, IInv, TableStep
  <1>4. QED
    BY <1>1, <1>2, <1>3, PTL DEF Spec, InterruptedByStop

\* An irreversible job that waits is never replaced by a job it conflicts with.
THEOREM IrreversibleStays == Spec => IrreversibleKept
  <1>1. Init => IInv
    BY InitOK
  <1>2. IInv /\ [Next]_vars => IInv'
    BY NextStep DEF StepOK, IInv
  <1> DEFINE A == \A u \in Unit : \A k \in kinds_of(jobs[u].suspends) :
                    /\ "irreversible" \in jobs[u].suspends[k]
                    /\ k \notin kinds_of(jobs'[u].suspends)
                    => ~ is_suspends_conflict_with({k}, kinds_of(jobs'[u].suspends))
  <1>3. IInv /\ [Next]_vars => [A]_vars
    BY NextStep DEF StepOK, IInv, TableStep, Kept
  <1>4. QED
    BY <1>1, <1>2, <1>3, PTL DEF Spec, IrreversibleKept

-----------------------------------------------------------------------------
(* Recovery: TInv outlives a crash, and the jobs that recover() triggers anew *)
(* one after the other are still there when it comes to them.                 *)

\* An entry that is to be triggered again.
Waiting(uv) == uv.trigger # NoJob /\ uv.retrigger /\ ~ uv.pause
KeepsWaiting(js, j2) == \A v \in Unit : Waiting(js[v]) => Waiting(j2[v])

\* The work that leaves the triggers of the units P alone.
Safe(P) == {t \in UsedTask : t.op \in {"notify", "remove", "relate"} => t.u \notin P}

\* What is stored can be put into a table again.
History ==
  /\ stored \in [Unit -> Record]
  /\ \A u \in Unit : ~ is_suspends_conflict(kinds_of(stored[u].suspends))

RInv ==
  /\ TInv /\ History
  /\ last \in Unit \cup {NoUnit} /\ target \in Unit \cup {NoUnit} /\ crashes \in 0..MaxCrashes
  /\ pending \subseteq Unit \ {target}
  /\ todo \in Seq(SUBSET Safe(pending))
  /\ \A u \in pending : Waiting(jobs[u])

\* An entry that is to be triggered again is ready, and no empty one.
LEMMA WaitingReady ==
  ASSUME NEW uv, EntryOK(uv), Waiting(uv)
  PROVE  is_ready(uv) /\ gc(uv) = uv
  <1>1. gc(uv) = uv
    BY DEF Waiting, gc, is_empty
  <1>2. calc_ready(uv) \in {"suspend", "retrigger"}
    BY DEF Waiting, calc_ready
  <1>3. QED
    BY <1>1, <1>2 DEF is_ready

\* Nothing that is done to the suspended jobs changes it.
LEMMA SuspendsWait ==
  ASSUME NEW uv, EntryOK(uv), Waiting(uv), NEW st \in Suspends, NEW ks, NEW is_live
  PROVE  /\ Waiting(flush_suspends(uv)) /\ Waiting(reshuffle(flush_suspends(uv), is_live))
         /\ Waiting(merge_suspends(uv, st)) /\ Waiting(reshuffle(merge_suspends(uv, st), is_live))
         /\ Waiting(remove_suspends(uv, ks, is_live))
  <1> DEFINE f == flush_suspends(uv)
  <1>1. uv \in JobUnitData /\ StoredOK(uv)
    BY DEF EntryOK
  <1>2. ASSUME NEW x \in JobUnitData, Waiting(x)
        PROVE  Waiting(reshuffle(x, is_live))
    <2> DEFINE r == reshuffle(x, is_live)
    <2>1. r.trigger = x.trigger /\ r.retrigger = x.retrigger /\ r.pause = x.pause
      BY ReshuffleFields
    <2> HIDE DEF r
    <2>2. Waiting(r)
      BY <1>2, <2>1 DEF Waiting
    <2>3. QED
      BY <2>2 DEF r
  <1>3. f \in JobUnitData /\ StoredOK(f) /\ Waiting(f)
    <2>1. /\ f \in JobUnitData /\ StoredOK(f)
          /\ f = [uv EXCEPT !.suspends = NoSuspends, !.re_suspends = NoSuspends]
      BY FlushOK
    <2>2. f.trigger = uv.trigger /\ f.retrigger = uv.retrigger /\ f.pause = uv.pause
      BY <1>1, <2>1 DEF JobUnitData
    <2>3. QED
      BY <2>1, <2>2 DEF Waiting
  <1> HIDE DEF f
  <1>4. \A x \in JobUnitData : StoredOK(x) /\ Waiting(x)
          => union_suspends(x, st) \in JobUnitData /\ Waiting(union_suspends(x, st))
    BY UnionOK DEF Waiting
  <1>5. merge_suspends(uv, st) \in JobUnitData /\ Waiting(merge_suspends(uv, st))
    BY <1>1, <1>3, <1>4 DEF merge_suspends, f
  <1>6. Waiting(remove_suspends(uv, ks, is_live))
    <2> DEFINE x == [uv EXCEPT !.suspends = without(uv.suspends, ks),
                               !.re_suspends = without(uv.re_suspends,
                                                       kinds_of(uv.suspends) \cap ks)]
    <2>1. uv.suspends \in Suspends /\ uv.re_suspends \in Suspends
      BY <1>1, EntryType
    <2>2. /\ without(uv.suspends, ks) \in Suspends
          /\ without(uv.re_suspends, kinds_of(uv.suspends) \cap ks) \in Suspends
      BY <2>1, WithoutType
    <2>3. x \in JobUnitData
      BY <1>1, <2>2 DEF JobUnitData
    <2>4. x.trigger = uv.trigger /\ x.retrigger = uv.retrigger /\ x.pause = uv.pause
      BY <1>1 DEF JobUnitData
    <2> HIDE DEF x
    <2>5. Waiting(reshuffle(x, is_live))
      BY <1>2, <2>3, <2>4 DEF Waiting
    <2>6. QED
      BY <2>5 DEF remove_suspends, x
  <1>7. QED
    BY <1>2, <1>3, <1>5, <1>6 DEF f

\* process_relation leaves alone what is not paused.
LEMMA ResumeWaits ==
  ASSUME NEW js, TableOK(js), NEW us
  PROVE  KeepsWaiting(js, resume_related(js, us))
  BY ResumeRelated DEF KeepsWaiting, Waiting

\* A commit.
LEMMA CommitWaits ==
  ASSUME NEW js, TableOK(js), NEW stage, NEW mode, job_trans_verify(stage, js, mode), NEW lv
  PROVE  KeepsWaiting(js, commit_jobs(stage, js, lv, mode))
  <1> DEFINE j1 == [v \in Unit |-> commit_unit(v, stage, js, lv, mode)]
  <1>1. ASSUME NEW v \in Unit
        PROVE  EntryOK(j1[v]) /\ (Waiting(js[v]) => Waiting(j1[v]))
    <2> DEFINE st == stage_jobs(stage, v, mode)
               m == commit_merged(v, stage, js, mode)
               x == IF commit_dirty(v, stage, js, mode) THEN reshuffle(m, v \in lv) ELSE m
    <2>1. EntryOK(js[v]) /\ st \in Suspends
      BY StageJobs DEF TableOK
    <2>2. j1[v] = gc(x) /\ EntryOK(j1[v])
      BY CommitUnit DEF commit_unit
    <2>3. m = flush_suspends(js[v]) \/ m = merge_suspends(js[v], st)
      BY DEF commit_merged
    <2> HIDE DEF m, st
    <2>4. Waiting(js[v]) => Waiting(m) /\ Waiting(reshuffle(m, v \in lv))
      BY <2>1, <2>3, SuspendsWait
    <2>5. Waiting(js[v]) => Waiting(x)
      BY <2>4
    <2> HIDE DEF x, j1
    <2>6. Waiting(x) => gc(x) = x
      BY DEF Waiting, gc, is_empty
    <2>7. QED
      BY <2>2, <2>5, <2>6
  <1>2. j1 \in [Unit -> JobUnitData]
    BY <1>1 DEF EntryOK
  <1>3. commit_jobs(stage, js, lv, mode) = resume_related(j1, commit_flushed(stage, js, mode))
    BY DEF commit_jobs
  <1> HIDE DEF j1
  <1>4. TableOK(j1)
    BY <1>1, <1>2 DEF TableOK
  <1>5. QED
    BY <1>1, <1>3, <1>4, ResumeWaits DEF KeepsWaiting

\* The fallback of a failed job.
LEMMA FallbackWaits ==
  ASSUME NEW js, TableOK(js), NEW explored, NEW lv
  PROVE  KeepsWaiting(js, fallback_jobs(explored, js, lv))
  <1> DEFINE left(v) == remove_suspends(js[v], FallbackKinds, v \in lv)
             j1 == [v \in Unit |-> IF v \in explored THEN gc(left(v)) ELSE js[v]]
  <1>1. ASSUME NEW v \in Unit
        PROVE  EntryOK(j1[v]) /\ (Waiting(js[v]) => Waiting(j1[v]))
    <2>1. EntryOK(js[v])
      BY DEF TableOK
    <2>2. FallbackKinds \in SUBSET (BasicKind \ {"Stop", "Restart"}) /\ NoSuspends \in Suspends
      BY EmptyType DEF FallbackKinds, BasicKind
    <2>3. EntryOK(left(v)) /\ (Waiting(js[v]) => Waiting(left(v)))
      BY <2>1, <2>2, RemoveSuspendsOK, SuspendsWait
    <2>4. j1[v] = IF v \in explored THEN gc(left(v)) ELSE js[v]
      OBVIOUS
    <2> HIDE DEF left, j1
    <2>5. EntryOK(gc(left(v))) /\ (Waiting(left(v)) => gc(left(v)) = left(v))
      BY <2>3, GcOK, WaitingReady
    <2>6. QED
      BY <2>1, <2>3, <2>4, <2>5
  <1>2. j1 \in [Unit -> JobUnitData]
    <2>1. j1 = [v \in Unit |-> j1[v]]
      OBVIOUS
    <2>2. \A v \in Unit : j1[v] \in JobUnitData
      BY <1>1 DEF EntryOK
    <2> HIDE DEF j1
    <2>3. QED
      BY <2>1, <2>2
  <1>3. fallback_jobs(explored, js, lv) = resume_related(j1, {v \in explored : fallback_hit(v, js)})
    BY DEF fallback_jobs
  <1> HIDE DEF j1
  <1>4. TableOK(j1)
    BY <1>1, <1>2 DEF TableOK
  <1>5. QED
    BY <1>1, <1>3, <1>4, ResumeWaits DEF KeepsWaiting

\* The end of the trigger of u: of the other entries, none.
LEMMA FinishWaits ==
  ASSUME TablePart, NEW u \in Unit, jobs[u].trigger # NoJob, NEW result, finish_entry(u, result)
  PROVE  \A v \in Unit : v # u /\ Waiting(jobs[v]) => Waiting(jobs'[v])
  <1> DEFINE f == finish_trigger(jobs[u], result)
             done == [jobs EXCEPT ![u] = gc(f)]
  <1>1. \E us : jobs' = resume_related(done, us)
    BY DEF finish_entry
  <1>2. jobs \in [Unit -> JobUnitData] /\ \A v \in Unit : EntryOK(jobs[v])
    BY DEF TablePart, TableOK
  <1>3. EntryOK(f)
    BY <1>2, FinishOK
  <1> HIDE DEF f
  <1>4. EntryOK(gc(f))
    BY <1>3, GcOK
  <1>5. done[u] = gc(f) /\ \A v \in Unit : v # u => done[v] = jobs[v]
    BY <1>2
  <1>6. done \in [Unit -> JobUnitData]
    BY <1>2, <1>4 DEF EntryOK
  <1> HIDE DEF done
  <1>7. TableOK(done)
    BY <1>2, <1>4, <1>5, <1>6 DEF TableOK
  <1>8. QED
    BY <1>1, <1>5, <1>7, ResumeWaits DEF KeepsWaiting

\* A request, accepted or not.
LEMMA ExecWaits ==
  ASSUME TablePart, NEW u, NEW kind, NEW mode, exec(u, kind, mode)
  PROVE  KeepsWaiting(jobs, jobs')
  <1>1. PICK stage : IF accepts(stage, kind, mode) THEN commit(stage, mode)
                     ELSE UNCHANGED <<jobs, ready>>
    BY DEF exec
  <1>2. CASE accepts(stage, kind, mode)
    <2>1. jobs' = commit_jobs(stage, jobs, live, mode) /\ job_trans_verify(stage, jobs, mode)
      BY <1>1, <1>2 DEF accepts, commit
    <2>2. QED
      BY <2>1, CommitWaits DEF TablePart
  <1>3. CASE ~ accepts(stage, kind, mode)
    <2>1. jobs' = jobs
      BY <1>1, <1>3
    <2>2. QED
      BY <2>1 DEF KeepsWaiting
  <1>4. QED
    BY <1>2, <1>3

\* A step of the work leaves safe work, and the triggers of the units P.
SafeStep(P) ==
  /\ todo' \in Seq(SUBSET Safe(P))
  /\ \A v \in P : Waiting(jobs[v]) => Waiting(jobs'[v])

\* Safe work: requests, and what has to do with other units.
LEMMA SafeTasks ==
  ASSUME NEW P
  PROVE  /\ UsedRequest \subseteq Safe(P)
         /\ \A t \in UsedTask : t.op \in {"exec", "enable"} \/ t.u \notin P => t \in Safe(P)
         /\ \A t \in Safe(P) : t \in UsedTask
         /\ \A t \in Safe(P) : t.op \in {"notify", "remove", "relate"} => t.u \notin P
  <1>1. \A t \in UsedRequest : t \in UsedTask /\ t.op = "exec"
    BY RequestTasks DEF UsedRequest, Request
  <1>2. QED
    BY <1>1 DEF Safe

\* The end of the trigger of a unit outside of P.
LEMMA FinishSafe ==
  ASSUME TablePart, NEW P \in SUBSET Unit, NEW u \in Unit \ P, jobs[u].trigger # NoJob,
         NEW result, finish_entry(u, result)
  PROVE  \A v \in P : Waiting(jobs[v]) => Waiting(jobs'[v])
  BY FinishWaits

\* A report of a unit outside of P.
LEMMA TryFinishSafe ==
  ASSUME TInv, NEW P \in SUBSET Unit, todo \in Seq(SUBSET Safe(P)), todo # <<>>,
         NEW t \in Head(todo), TryFinish(t)
  PROVE  SafeStep(P)
  <1> DEFINE job == jobs[t.u].trigger
             says == job_process_unit(job.run_kind, t.ns, RELOAD_FAILURE)
             relation == [op |-> "relate", u |-> t.u, run_kind |-> job.run_kind, attr |-> job.attr]
             first == push(IF says.result = "Done" THEN {} ELSE {relation},
                           aftermath(t, says.generated))
  <1>1. t.op = "notify" /\ t \in Safe(P) /\ rest(t) \in Seq(SUBSET Safe(P))
    BY RestOK DEF TryFinish
  <1>2. t \in UsedTask /\ t.u \notin P
    BY <1>1, SafeTasks
  <1>3. t \in Notify /\ t.u \in Unit
    BY <1>1, <1>2 DEF UsedTask, Task, Notify, Request, Remove, Relate, Enable
  <1>4. EntryOK(jobs[t.u]) /\ jobs \in [Unit -> JobUnitData]
    BY <1>3 DEF TInv, TablePart, TableOK
  <1>5. \A generated : aftermath(t, generated) \in Seq(SUBSET Safe(P))
    BY <1>1, <1>3, AftermathOK, SafeTasks
  <1>6. job # NoJob => relation \in Safe(P)
    <2>1. job # NoJob => job \in Job
      BY <1>4, EntryType DEF EntryOK
    <2>2. job # NoJob => relation \in Relate /\ relation.op = "relate" /\ relation.u = t.u
      BY <1>3, <2>1 DEF Relate, Job
    <2> HIDE DEF relation
    <2>3. job # NoJob => relation \in UsedTask
      BY <2>2 DEF UsedTask, Task
    <2>4. QED
      BY <1>2, <2>2, <2>3, SafeTasks
  <1> HIDE DEF relation, says
  <1>7. job # NoJob => first \in Seq(SUBSET Safe(P))
    <2>1. CASE says.result = "Done"
      BY <1>5, <2>1 DEF push
    <2>2. CASE says.result # "Done"
      <3>1. first = push({relation}, aftermath(t, says.generated))
        BY <2>2
      <3>2. job # NoJob => {relation} \in SUBSET Safe(P)
        BY <1>6
      <3> HIDE DEF first
      <3>3. QED
        BY <1>5, <3>1, <3>2, PushOK
    <2>3. QED
      BY <2>1, <2>2
  <1>8. CASE (\E generated : todo' = aftermath(t, generated)) /\ jobs' = jobs
    BY <1>5, <1>8 DEF SafeStep
  <1>9. CASE jobs' = [jobs EXCEPT ![t.u] = resume(jobs[t.u])] /\ todo' = aftermath(t, TRUE)
    <2>1. \A v \in P : jobs'[v] = jobs[v]
      BY <1>2, <1>4, <1>9
    <2>2. QED
      BY <1>5, <1>9, <2>1 DEF SafeStep
  <1>10. CASE job # NoJob /\ finish_entry(t.u, says.result) /\ todo' = first
    <2>1. \A v \in P : Waiting(jobs[v]) => Waiting(jobs'[v])
      BY <1>2, <1>3, <1>10, FinishSafe DEF TInv
    <2> HIDE DEF first
    <2>2. QED
      BY <1>7, <1>10, <2>1 DEF SafeStep
  <1>11. QED
    BY <1>8, <1>9, <1>10 DEF TryFinish, says, relation

\* The removal of the trigger of a unit outside of P.
LEMMA RemoveEndedSafe ==
  ASSUME TInv, NEW P \in SUBSET Unit, todo \in Seq(SUBSET Safe(P)), todo # <<>>,
         NEW t \in Head(todo), RemoveEnded(t)
  PROVE  SafeStep(P)
  <1> DEFINE deleted == ~ finish_retries(jobs[t.u].trigger, t.result)
             relation == [op |-> "relate", u |-> t.u, run_kind |-> t.run_kind, attr |-> t.attr]
             onfailure == IF OnFailureJobMode[t.u] = "Fail"
                            THEN notify_result_start(t.u, "OnFailure", "Fail") ELSE {}
             mid == push({relation}, rest(t))
  <1>1. t.op = "remove" /\ t \in Safe(P) /\ rest(t) \in Seq(SUBSET Safe(P))
    BY RestOK DEF RemoveEnded
  <1>2. t \in UsedTask /\ t.u \notin P
    BY <1>1, SafeTasks
  <1>3. t \in Remove /\ t.u \in Unit
    BY <1>1, <1>2 DEF UsedTask, Task, Notify, Request, Remove, Relate, Enable
  <1>4. relation \in Safe(P)
    <2>1. relation \in Relate /\ relation.op = "relate" /\ relation.u = t.u
      BY <1>3 DEF Relate, Remove
    <2> HIDE DEF relation
    <2>2. relation \in UsedTask
      BY <2>1 DEF UsedTask, Task
    <2>3. QED
      BY <1>2, <2>1, <2>2, SafeTasks
  <1>5. onfailure \in SUBSET Safe(P)
    BY <1>3, OnFailureFail, SafeTasks
  <1> HIDE DEF relation, onfailure
  <1>6. mid \in Seq(SUBSET Safe(P))
    <2>1. {relation} \in SUBSET Safe(P)
      BY <1>4
    <2>2. QED
      BY <1>1, <2>1, PushOK
  <1> HIDE DEF mid
  <1>7. push(onfailure, mid) \in Seq(SUBSET Safe(P))
    BY <1>5, <1>6, PushOK
  <1>8. CASE jobs[t.u].trigger = NoJob
    <2>1. todo' = rest(t) /\ jobs' = jobs
      BY <1>8 DEF RemoveEnded
    <2>2. QED
      BY <1>1, <2>1 DEF SafeStep
  <1>9. CASE jobs[t.u].trigger # NoJob
    <2>1. /\ finish_entry(t.u, t.result)
          /\ todo' = IF deleted /\ t.result # "Done" THEN push(onfailure, mid) ELSE rest(t)
      BY <1>9 DEF RemoveEnded, mid, onfailure, relation
    <2>2. \A v \in P : Waiting(jobs[v]) => Waiting(jobs'[v])
      BY <1>2, <1>3, <1>9, <2>1, FinishSafe DEF TInv
    <2>3. QED
      BY <1>1, <1>7, <2>1, <2>2 DEF SafeStep
  <1>10. QED
    BY <1>8, <1>9

\* The relations of a failed job of a unit outside of P.
LEMMA RemoveRelationSafe ==
  ASSUME TInv, NEW P \in SUBSET Unit, todo \in Seq(SUBSET Safe(P)), todo # <<>>,
         NEW t \in Head(todo), RemoveRelation(t)
  PROVE  SafeStep(P)
  <1> DEFINE explored == job_trans_fallback(t.u, t.run_kind, jobs)
             hit == {v \in explored : fallback_hit(v, jobs) /\ v # t.u}
             failed == {w \in hit : OnFailureJobMode[w] = "Fail"}
             onfailure == UNION {notify_result_start(v, "OnFailure", "Fail") : v \in failed}
  <1>1. rest(t) \in Seq(SUBSET Safe(P))
    BY RestOK
  <1>2. explored \subseteq Unit
    BY DEF job_trans_fallback
  <1> HIDE DEF explored
  <1>3. onfailure \in SUBSET Safe(P)
    <2>1. failed \subseteq Unit
      BY <1>2
    <2> HIDE DEF failed
    <2>2. QED
      BY <2>1, OnFailureFail, SafeTasks
  <1> HIDE DEF onfailure
  <1>4. push(onfailure, rest(t)) \in Seq(SUBSET Safe(P))
    BY <1>1, <1>3, PushOK
  <1>5. CASE exec(t.u, "Stop", "Replace") /\ todo' = rest(t)
    <2>1. KeepsWaiting(jobs, jobs')
      BY <1>5, ExecWaits DEF TInv
    <2>2. QED
      BY <1>1, <1>5, <2>1 DEF SafeStep, KeepsWaiting
  <1>6. CASE jobs' = fallback_jobs(explored, jobs, live) /\ todo' = push(onfailure, rest(t))
    <2>1. KeepsWaiting(jobs, jobs')
      BY <1>6, FallbackWaits DEF TInv, TablePart
    <2>2. QED
      BY <1>4, <1>6, <2>1 DEF SafeStep, KeepsWaiting
  <1>7. QED
    BY <1>5, <1>6 DEF RemoveRelation, explored, onfailure

\* A step of the handler under way.
LEMMA WorkSafe ==
  ASSUME TInv, NEW P \in SUBSET Unit, todo \in Seq(SUBSET Safe(P)), Work
  PROVE  SafeStep(P)
  <1>1. PICK t \in Head(todo) :
          TryFinish(t) \/ RemoveEnded(t) \/ RemoveRelation(t) \/ Exec(t) \/ TryEnable(t)
    BY DEF Work
  <1>2. todo # <<>>
    BY DEF Work
  <1>3. CASE TryFinish(t)
    BY <1>2, <1>3, TryFinishSafe
  <1>4. CASE RemoveEnded(t)
    BY <1>2, <1>4, RemoveEndedSafe
  <1>5. CASE RemoveRelation(t)
    BY <1>2, <1>5, RemoveRelationSafe
  <1>6. CASE Exec(t)
    <2>1. exec(t.u, t.kind, t.mode) /\ todo' = rest(t)
      BY <1>6 DEF Exec
    <2>2. KeepsWaiting(jobs, jobs') /\ rest(t) \in Seq(SUBSET Safe(P))
      BY <1>2, <2>1, ExecWaits, RestOK DEF TInv
    <2>3. QED
      BY <2>1, <2>2 DEF SafeStep, KeepsWaiting
  <1>7. CASE TryEnable(t)
    <2>1. jobs' = jobs /\ todo' = rest(t)
      BY <1>7 DEF TryEnable
    <2>2. rest(t) \in Seq(SUBSET Safe(P))
      BY <1>2, RestOK
    <2>3. QED
      BY <2>1, <2>2 DEF SafeStep
  <1>8. QED
    BY <1>1, <1>3, <1>4, <1>5, <1>6, <1>7

\* A step that changes the entry of u alone, and leaves work about u alone.
LEMMA PauseEntrySafe ==
  ASSUME TInv, NEW P \in SUBSET Unit, NEW u \in Unit \ P, PauseEntry(u)
  PROVE  SafeStep(P)
  <1>1. jobs' = [jobs EXCEPT ![u] = pause(jobs[u])] /\ todo' = <<>>
    BY DEF PauseEntry
  <1>2. jobs \in [Unit -> JobUnitData]
    BY DEF TInv, TablePart, TableOK
  <1>3. \A v \in P : jobs'[v] = jobs[v]
    BY <1>1, <1>2
  <1>4. todo' \in Seq(SUBSET Safe(P))
    BY <1>1
  <1>5. QED
    BY <1>3, <1>4 DEF SafeStep

\* A sequence of sets of two kinds.
LEMMA SeqBoth ==
  ASSUME NEW S, NEW T, NEW s \in Seq(SUBSET S), s \in Seq(SUBSET T),
         NEW R, S \cap T \subseteq R
  PROVE  s \in Seq(SUBSET R)
  <1>1. ASSUME NEW i \in 1..Len(s)
        PROVE  s[i] \in SUBSET R
    <2>1. s[i] \in SUBSET S /\ s[i] \in SUBSET T
      OBVIOUS
    <2>2. QED
      BY <2>1
  <1>2. Len(s) \in Nat /\ s = [i \in 1..Len(s) |-> s[i]]
    OBVIOUS
  <1>3. QED
    BY <1>1, <1>2

LEMMA TriggerEntrySafe ==
  ASSUME TInv, NEW P \in SUBSET Unit, NEW u \in Unit \ P, TriggerEntry(u)
  PROVE  SafeStep(P)
  <1> DEFINE uv == do_trigger(jobs[u])
             info == get_next_trigger(jobs[u])
  <1>1. PICK r \in job_trigger_unit(state[u], uv.trigger.run_kind, "force" \in uv.trigger.attr) :
          LET result == job_trigger_err_to_result(r.err) IN
          /\ jobs' = [jobs EXCEPT ![u] = IF result = "again" THEN trigger_again(uv) ELSE uv]
          /\ todo' = push(
               IF r.path = <<>> THEN {}
                 ELSE {notification(u, state[u], r.path[1], after(state[u], r.path))},
               IF result \notin JobResult THEN <<>>
                 ELSE <<{[op |-> "remove", u |-> u, run_kind |-> info.run_kind,
                          attr |-> info.attr, result |-> result]}>>)
    BY DEF TriggerEntry
  <1> DEFINE result == job_trigger_err_to_result(r.err)
             n == notification(u, state[u], r.path[1], after(state[u], r.path))
             m == [op |-> "remove", u |-> u, run_kind |-> info.run_kind,
                   attr |-> info.attr, result |-> result]
             note == IF r.path = <<>> THEN {} ELSE {n}
             ended == IF result \notin JobResult THEN <<>> ELSE <<{m}>>
  <1>2. jobs \in [Unit -> JobUnitData]
    BY DEF TInv, TablePart, TableOK
  <1>3. \A v \in P : jobs'[v] = jobs[v]
    BY <1>1, <1>2
  <1>4. todo' = push(note, ended)
    BY <1>1
  <1>5. n.u = u /\ m.u = u
    BY DEF notification
  <1> HIDE DEF n, m
  <1>6. note \in SUBSET {n, m} /\ ended \in Seq(SUBSET {n, m})
    <2>1. note \in SUBSET {n, m} /\ {m} \in SUBSET {n, m}
      OBVIOUS
    <2>2. \A g \in SUBSET {n, m} : <<g>> \in Seq(SUBSET {n, m})
      OBVIOUS
    <2>3. <<>> \in Seq(SUBSET {n, m})
      OBVIOUS
    <2>4. QED
      BY <2>1, <2>2, <2>3
  <1> HIDE DEF note, ended
  <1>7. todo' \in Seq(SUBSET {n, m})
    BY <1>4, <1>6, PushOK
  <1>8. todo' \in Seq(SUBSET UsedTask)
    BY TriggerEntryStep DEF StepOK, TInv, RestPart
  <1>9. {n, m} \cap UsedTask \subseteq Safe(P)
    BY <1>5, SafeTasks
  <1>10. todo' \in Seq(SUBSET Safe(P))
    BY <1>7, <1>8, <1>9, SeqBoth
  <1>11. QED
    BY <1>3, <1>10 DEF SafeStep

-----------------------------------------------------------------------------
\* What a crash makes of the stored jobs.

LEMMA CompensateType ==
  ASSUME NEW re \in Re \cup {NoRe}, NEW is_last \in BOOLEAN
  PROVE  db_compensate(re, is_last) \in Re \cup {NoRe}
  <1>1. ASSUME NEW x \in Re \cup {NoRe}, NEW force \in BOOLEAN
        PROVE  rentry_trigger_merge(x, force) \in Re
    <2> DEFINE always == {"ignore_order", "irreversible"} \cup (IF force THEN {"force"} ELSE {})
               old == IF x = NoRe THEN [kind |-> "Restart", attr |-> always \cup {"no_relevancy"}]
                      ELSE x
               keep == job_merge_trigger_iskeep(old.kind)
               k == IF keep THEN old.kind ELSE "Restart"
               extra == IF keep THEN {} ELSE {"no_relevancy"}
    <2>1. always \in JobAttr
      BY DEF JobAttr
    <2>2. extra \in JobAttr
      BY DEF JobAttr
    <2> HIDE DEF always
    <2>3. always \cup {"no_relevancy"} \in JobAttr
      BY <2>1 DEF JobAttr
    <2>4. old \in Re
      BY <2>3 DEF Re, BasicKind
    <2> HIDE DEF old, extra
    <2>5. old.kind \in BasicKind /\ old.attr \in JobAttr
      BY <2>4 DEF Re
    <2>6. k \in BasicKind
      BY <2>5 DEF BasicKind
    <2>7. old.attr \cup always \cup extra \in JobAttr
      BY <2>1, <2>2, <2>5 DEF JobAttr
    <2>8. rentry_trigger_merge(x, force) = [kind |-> k, attr |-> old.attr \cup always \cup extra]
      BY DEF rentry_trigger_merge, always, old, extra
    <2> HIDE DEF k, keep
    <2>9. QED
      BY <2>6, <2>7, <2>8 DEF Re
  <1>2. QED
    BY <1>1 DEF db_compensate

\* A job that is mapped back waits to be triggered again.
LEMMA DbMapOK ==
  ASSUME NEW s \in Suspends, ~ is_suspends_conflict(kinds_of(s)), NEW re \in Re \cup {NoRe},
         NEW is_live
  PROVE  LET e == db_map(s, re, is_live) IN
         EntryOK(e) /\ NotStale(e) /\ (re # NoRe => Waiting(e))
  <1> DEFINE job == [kind |-> re.kind, run_kind |-> job_rkind_new(re.kind), attr |-> re.attr]
             tr == IF re = NoRe THEN NoJob ELSE job
             again == re # NoRe
             x == [NewJobUnit EXCEPT !.trigger = tr, !.retrigger = again,
                                     !.suspends = s, !.re_suspends = s, !.re_trigger = re]
             r == reshuffle(x, is_live)
  <1>1. re # NoRe => /\ re.kind \in BasicKind /\ re.attr \in JobAttr
                     /\ re = [kind |-> re.kind, attr |-> re.attr]
    BY DEF Re
  <1>2. re # NoRe => job \in Job /\ job # NoJob /\ job.kind = re.kind /\ job.attr = re.attr
    <2>1. re # NoRe => job_rkind_new(re.kind) \in RunKind
      BY <1>1 DEF job_rkind_new, RunKind, BasicKind
    <2>2. re # NoRe => job \in Job
      BY <1>1, <2>1 DEF Job
    <2>3. re # NoRe => job # NoJob
      BY <1>1 DEF NoJob, BasicKind
    <2>4. QED
      BY <2>2, <2>3
  <1> HIDE DEF job
  <1>3. tr \in Job \cup {NoJob} /\ (tr = NoJob <=> re = NoRe)
    BY <1>2
  <1>4. re = IF tr = NoJob THEN NoRe ELSE [kind |-> tr.kind, attr |-> tr.attr]
    BY <1>1, <1>2
  <1>0. again \in BOOLEAN /\ (again <=> re # NoRe)
    OBVIOUS
  <1> HIDE DEF tr, again
  <1>5. /\ x.trigger = tr /\ x.suspends = s /\ x.re_suspends = s /\ x.re_trigger = re
        /\ x.sq = {} /\ x.interrupt = FALSE /\ x.pause = FALSE
        /\ x.retrigger = again
    BY DEF NewJobUnit
  <1>6. x \in JobUnitData
    <2>1. NewJobUnit \in JobUnitData
      BY NewJobUnitOK DEF EntryOK
    <2>2. QED
      BY <1>0, <1>3, <2>1 DEF JobUnitData
  <1> HIDE DEF x
  <1>7. StoredOK(x)
    BY <1>4, <1>5 DEF StoredOK
  <1>8. EntryOK(r) /\ NotStale(r)
    BY <1>0, <1>3, <1>5, <1>6, <1>7, ReshuffleOK
  <1>9. r.trigger = x.trigger /\ r.retrigger = x.retrigger /\ r.pause = x.pause
    BY <1>6, ReshuffleFields
  <1>10. re # NoRe => Waiting(r)
    BY <1>0, <1>3, <1>5, <1>9 DEF Waiting
  <1>11. db_map(s, re, is_live) = gc(r)
    BY DEF db_map, x, tr, job, again
  <1> HIDE DEF r
  <1>12. EntryOK(gc(r)) /\ NotStale(gc(r))
    BY <1>8, GcOK
  <1>13. re # NoRe => Waiting(gc(r))
    BY <1>8, <1>10, WaitingReady
  <1>14. QED
    BY <1>11, <1>12, <1>13

\* What a commit writes can be put into a table again.
LEMMA HistoryStep ==
  ASSUME History, TInv', stored' = export' \/ stored' = stored
  PROVE  History'
  <1>1. CASE stored' = stored
    BY <1>1 DEF History
  <1>2. CASE stored' = export'
    <2>1. ASSUME NEW u \in Unit
          PROVE  /\ export'[u] \in Record
                 /\ ~ is_suspends_conflict(kinds_of(export'[u].suspends))
      <3>1. /\ jobs'[u] \in JobUnitData /\ SuspendsMerged(jobs'[u]) /\ StoredOK(jobs'[u])
            /\ state'[u] \in SubState
        BY DEF TInv, TablePart, RestPart, TableOK, EntryOK
      <3>2. export'[u] = [suspends |-> jobs'[u].re_suspends, trigger |-> jobs'[u].re_trigger,
                          state |-> state'[u]]
        BY DEF export
      <3>3. export'[u] \in Record
        BY <3>1, <3>2, EntryType DEF Record
      <3>4. ~ is_suspends_conflict(kinds_of(jobs'[u].re_suspends))
        BY <3>1 DEF SuspendsMerged, StoredOK
      <3>5. QED
        BY <3>2, <3>3, <3>4
    <2>2. export' = [u \in Unit |-> export'[u]]
      BY DEF export
    <2>3. export' \in [Unit -> Record]
      BY <2>1, <2>2
    <2>4. QED
      BY <1>2, <2>1, <2>3 DEF History
  <1>3. QED
    BY <1>1, <1>2

\* A crash and the import of the history.
LEMMA CrashStep ==
  ASSUME RInv, Crash
  PROVE  RInv'
  <1>1. PICK lu \in may_be_last :
          LET re == [u \in Unit |-> db_compensate(stored[u].trigger, u = lu)]
              is_live(u) == is_active_or_reloading(active_state(stored[u].state))
          IN  /\ jobs' = [u \in Unit |-> db_map(stored[u].suspends, re[u], is_live(u))]
              /\ stored' = [u \in Unit |-> [stored[u] EXCEPT !.trigger = re[u]]]
              /\ last' = lu
              /\ pending' = {u \in Unit : re[u] # NoRe}
    BY DEF Crash
  <1> DEFINE re == [u \in Unit |-> db_compensate(stored[u].trigger, u = lu)]
             is_live(u) == is_active_or_reloading(active_state(stored[u].state))
  <1>2. /\ jobs' = [u \in Unit |-> db_map(stored[u].suspends, re[u], is_live(u))]
        /\ stored' = [u \in Unit |-> [stored[u] EXCEPT !.trigger = re[u]]]
        /\ last' = lu
        /\ pending' = {u \in Unit : re[u] # NoRe}
    BY <1>1
  <1>3. \A u \in Unit : /\ stored[u] \in Record
                        /\ ~ is_suspends_conflict(kinds_of(stored[u].suspends))
    BY DEF RInv, History
  <1>4. \A u \in Unit : /\ stored[u].suspends \in Suspends /\ stored[u].state \in SubState
                        /\ stored[u].trigger \in Re \cup {NoRe}
    BY <1>3 DEF Record
  <1>5. \A u \in Unit : re[u] \in Re \cup {NoRe}
    BY <1>4, CompensateType
  <1> HIDE DEF re, is_live
  <1>6. ASSUME NEW u \in Unit
        PROVE  EntryOK(jobs'[u]) /\ NotStale(jobs'[u]) /\ (re[u] # NoRe => Waiting(jobs'[u]))
    BY <1>2, <1>3, <1>4, <1>5, DbMapOK
  <1>7. jobs' \in [Unit -> JobUnitData]
    <2>1. jobs' = [u \in Unit |-> jobs'[u]]
      BY <1>2
    <2>2. \A u \in Unit : jobs'[u] \in JobUnitData
      BY <1>6 DEF EntryOK
    <2>3. QED
      BY <2>1, <2>2
  <1>8. TableOK(jobs') /\ FreshOK(jobs')
    BY <1>6, <1>7 DEF TableOK, FreshOK
  <1>9. SyncOK(jobs', ready')
    BY DEF Crash, SyncOK
  <1>10. TablePart'
    BY <1>8, <1>9 DEF TablePart
  <1>11. RestPart'
    <2>1. state' = [u \in Unit |-> stored[u].state]
      BY DEF Crash
    <2>2. state' \in [Unit -> SubState]
      BY <1>4, <2>1
    <2>3. /\ up_ready' \in BOOLEAN /\ armed' \in BOOLEAN /\ running' \in BOOLEAN
          /\ todo' = <<>>
      BY DEF Crash
    <2>4. todo' \in Seq(SUBSET UsedTask)
      BY <2>3
    <2>5. QED
      BY <2>2, <2>3, <2>4 DEF RestPart
  <1>12. History'
    <2>1. ASSUME NEW u \in Unit
          PROVE  stored'[u] \in Record /\ stored'[u].suspends = stored[u].suspends
      <3>1. stored'[u] = [stored[u] EXCEPT !.trigger = re[u]]
        BY <1>2
      <3>2. QED
        BY <1>3, <1>5, <3>1 DEF Record
    <2>2. stored' \in [Unit -> Record]
      <3>1. stored' = [u \in Unit |-> stored'[u]]
        BY <1>2
      <3>2. QED
        BY <2>1, <3>1
    <2>3. QED
      BY <1>3, <2>1, <2>2 DEF History
  <1>13. last' \in Unit \cup {NoUnit}
    BY <1>2 DEF may_be_last, RInv, TInv, TablePart, SyncOK
  <1>14. crashes' \in 0..MaxCrashes
    BY RecoveryAssumption DEF Crash, RInv
  <1>15. target' = NoUnit /\ pending' \subseteq Unit \ {target'}
    BY <1>2, RecoveryAssumption DEF Crash
  <1>16. todo' \in Seq(SUBSET Safe(pending'))
    BY DEF Crash
  <1>17. \A u \in pending' : Waiting(jobs'[u])
    BY <1>2, <1>6
  <1>18. (todo \in Seq(SUBSET Safe(pending)))' /\ (\A u \in pending : Waiting(jobs[u]))'
    BY <1>16, <1>17 DEF Safe, Waiting
  <1>19. QED
    BY <1>10, <1>11, <1>12, <1>13, <1>14, <1>15, <1>18 DEF RInv, TInv

\* The engine in normal operation.
LEMMA OperateStep ==
  ASSUME RInv, Operate
  PROVE  RInv'
  <1>1. Next /\ pending = {} /\ UNCHANGED <<pending, target, crashes>>
    BY DEF Operate, Next, recovering
  <1>2. TInv'
    BY <1>1, NextStep DEF RInv, StepOK
  <1>3. (stored' = export' \/ stored' = stored) /\ last' \in Unit \cup {NoUnit}
    BY DEF Operate, record, RInv
  <1>4. History'
    BY <1>2, <1>3, HistoryStep DEF RInv
  <1>5. todo' \in Seq(SUBSET Safe(pending'))
    <2>1. Safe(pending') = UsedTask
      BY <1>1 DEF Safe
    <2>2. QED
      BY <1>2, <2>1 DEF TInv, RestPart
  <1>6. (todo \in Seq(SUBSET Safe(pending)))'
    BY <1>5 DEF Safe
  <1>7. QED
    BY <1>1, <1>2, <1>3, <1>4, <1>6 DEF RInv

\* A round of trigger_unit leaves the jobs that are still to be triggered.
LEMMA RoundStep ==
  ASSUME RInv, Round
  PROVE  RInv'
  <1>1. /\ target \in Unit \ pending /\ pending \in SUBSET Unit /\ TInv
        /\ UNCHANGED <<last, pending, target, crashes>>
        /\ stored' = export' \/ stored' = stored
    BY DEF RInv, Round
  <1>2. Next
    BY <1>1 DEF Round, Next
  <1>3. TInv'
    BY <1>1, <1>2, NextStep DEF StepOK
  <1>4. History'
    BY <1>1, <1>3, HistoryStep DEF RInv
  <1>5. SafeStep(pending)
    <2>1. CASE PauseEntry(target)
      BY <1>1, <2>1, PauseEntrySafe
    <2>2. CASE TriggerEntry(target)
      BY <1>1, <2>2, TriggerEntrySafe
    <2>3. CASE Work
      BY <1>1, <2>3, WorkSafe DEF RInv
    <2>4. QED
      BY <2>1, <2>2, <2>3 DEF Round
  <1>6. (todo \in Seq(SUBSET Safe(pending)))' /\ (\A u \in pending : Waiting(jobs[u]))'
    <2>1. todo' \in Seq(SUBSET Safe(pending')) /\ \A u \in pending' : Waiting(jobs'[u])
      BY <1>1, <1>5 DEF SafeStep, RInv
    <2>2. QED
      BY <2>1 DEF Safe, Waiting
  <1>7. QED
    BY <1>1, <1>3, <1>4, <1>6 DEF RInv

\* Work that is safe for more units is safe for fewer.
LEMMA SafeFewer ==
  ASSUME NEW P, NEW Q \in SUBSET P, NEW s \in Seq(SUBSET Safe(P))
  PROVE  s \in Seq(SUBSET Safe(Q))
  <1>1. Safe(P) \cap Safe(P) \subseteq Safe(Q)
    BY DEF Safe
  <1>2. QED
    BY <1>1, SeqBoth

\* The next unit is triggered.
LEMMA TriggerUnitStep ==
  ASSUME RInv, TriggerUnit
  PROVE  RInv'
  <1>1. PICK u \in pending : target' = u /\ pending' = pending \ {u}
    BY DEF TriggerUnit
  <1>2. UNCHANGED <<vars, stored, last, crashes>>
    BY DEF TriggerUnit
  <1>3. UNCHANGED <<jobs, ready, up_ready, armed, running, state, todo>>
    BY <1>2 DEF vars
  <1>4. TInv'
    BY <1>3 DEF RInv, TInv, TablePart, RestPart
  <1>5. History'
    BY <1>2 DEF RInv, History
  <1>6. todo \in Seq(SUBSET Safe(pending'))
    <2>1. pending' \in SUBSET pending
      BY <1>1
    <2>2. QED
      BY <2>1, SafeFewer DEF RInv
  <1>7. (todo \in Seq(SUBSET Safe(pending)))'
    BY <1>3, <1>6 DEF Safe
  <1>8. (\A v \in pending : Waiting(jobs[v]))'
    BY <1>1, <1>3 DEF RInv, Waiting
  <1>9. target' \in Unit /\ pending' \subseteq Unit \ {target'}
    BY <1>1 DEF RInv
  <1>10. QED
    BY <1>2, <1>4, <1>5, <1>7, <1>8, <1>9 DEF RInv

\* trigger_unit ends.
LEMMA TriggerUnitEndStep ==
  ASSUME RInv, TriggerUnitEnd
  PROVE  RInv'
  <1>1. /\ UNCHANGED <<jobs, ready, state, todo, stored, pending, crashes>>
        /\ try_enable(ready) /\ target' = NoUnit /\ running' \in BOOLEAN
        /\ last' \in {last, NoUnit}
    BY DEF TriggerUnitEnd
  <1>2. up_ready' \in BOOLEAN /\ armed' \in BOOLEAN
    BY <1>1, EnableStep DEF RInv, TInv
  <1>3. TInv'
    BY <1>1, <1>2 DEF RInv, TInv, TablePart, RestPart
  <1>4. History'
    BY <1>1 DEF RInv, History
  <1>5. (todo \in Seq(SUBSET Safe(pending)))' /\ (\A v \in pending : Waiting(jobs[v]))'
    BY <1>1 DEF RInv, Safe, Waiting
  <1>6. pending' \subseteq Unit \ {target'} /\ last' \in Unit \cup {NoUnit}
    BY <1>1, RecoveryAssumption DEF RInv
  <1>7. QED
    BY <1>1, <1>3, <1>4, <1>5, <1>6 DEF RInv

\* The invariant of recovery is inductive.
LEMMA RecoveryStep ==
  ASSUME RInv, [RNext]_rvars
  PROVE  RInv'
  <1>1. CASE UNCHANGED rvars
    <2>1. UNCHANGED <<jobs, ready, up_ready, armed, running, state, todo>>
      BY <1>1 DEF rvars, vars
    <2>2. UNCHANGED <<stored, last, pending, target, crashes>>
      BY <1>1 DEF rvars, revars
    <2>3. TInv' /\ History'
      BY <2>1, <2>2 DEF RInv, TInv, TablePart, RestPart, History
    <2>4. (todo \in Seq(SUBSET Safe(pending)))' /\ (\A v \in pending : Waiting(jobs[v]))'
      BY <2>1, <2>2 DEF RInv, Safe, Waiting
    <2>5. QED
      BY <2>2, <2>3, <2>4 DEF RInv
  <1>2. QED
    BY <1>1, OperateStep, CrashStep, TriggerUnitStep, RoundStep, TriggerUnitEndStep DEF RNext

\* It holds when nothing has been stored yet.
LEMMA RecoveryInit ==
  ASSUME RInit
  PROVE  RInv
  <1>1. TInv /\ todo = <<>> /\ stored = export
    BY InitOK DEF RInit, Init, IInv
  <1>2. ASSUME NEW u \in Unit
        PROVE  export[u] \in Record /\ ~ is_suspends_conflict(kinds_of(export[u].suspends))
    <2>1. /\ jobs[u] \in JobUnitData /\ SuspendsMerged(jobs[u]) /\ StoredOK(jobs[u])
          /\ state[u] \in SubState
      BY <1>1 DEF TInv, TablePart, RestPart, TableOK, EntryOK
    <2>2. export[u] = [suspends |-> jobs[u].re_suspends, trigger |-> jobs[u].re_trigger,
                       state |-> state[u]]
      BY DEF export
    <2>3. export[u] \in Record
      BY <2>1, <2>2, EntryType DEF Record
    <2>4. ~ is_suspends_conflict(kinds_of(jobs[u].re_suspends))
      BY <2>1 DEF SuspendsMerged, StoredOK
    <2>5. QED
      BY <2>2, <2>3, <2>4
  <1>3. History
    <2>1. export = [u \in Unit |-> export[u]]
      BY DEF export
    <2>2. export \in [Unit -> Record]
      BY <1>2, <2>1
    <2>3. QED
      BY <1>1, <1>2, <2>2 DEF History
  <1>4. todo \in Seq(SUBSET Safe(pending))
    BY <1>1
  <1>5. QED
    BY <1>1, <1>3, <1>4, RecoveryAssumption DEF RInit, RInv

\* What the invariant says of the properties.
LEMMA RecoveryImplies ==
  ASSUME RInv
  PROVE  /\ RTypeOK /\ RecoveredReady
         /\ AllMerged /\ StoredAsHeld /\ ReadyInSync
         /\ SafeModes => InterrupterExists
  <1>1. /\ TypeOK /\ AllMerged /\ StoredAsHeld /\ ReadyInSync
        /\ SafeModes => InterrupterExists
    BY InvImplies DEF RInv
  <1>2. RTypeOK
    BY <1>1 DEF RInv, RTypeOK, History
  <1>3. \A u \in pending : u \in ready
    <2>1. ASSUME NEW u \in pending
          PROVE  u \in ready
      <3>1. u \in Unit /\ EntryOK(jobs[u]) /\ Waiting(jobs[u])
        BY DEF RInv, TInv, TablePart, TableOK
      <3>2. QED
        BY <3>1, WaitingReady DEF RInv, TInv, TablePart, SyncOK
    <2>2. QED
      BY <2>1
  <1>4. QED
    BY <1>1, <1>2, <1>3 DEF RecoveredReady

\* The variables of the engine and of its history keep their types across
\* crashes, recovery and daemon reloads.
THEOREM RecoveryTyped == RSpec => []RTypeOK
  <1>1. RInit => RInv
    BY RecoveryInit
  <1>2. RInv /\ [RNext]_rvars => RInv'
    BY RecoveryStep
  <1>3. RInv => RTypeOK
    BY RecoveryImplies
  <1>4. QED
    BY <1>1, <1>2, <1>3, PTL DEF RSpec

\* However often the manager crashes, and between whichever steps, the recovered
\* table holds no conflicting jobs, agrees with what is stored of it and has
\* exactly the ready entries in its ready queue.
THEOREM RecoveredTable == RSpec => [](AllMerged /\ StoredAsHeld /\ ReadyInSync)
  <1>1. RInit => RInv
    BY RecoveryInit
  <1>2. RInv /\ [RNext]_rvars => RInv'
    BY RecoveryStep
  <1>3. RInv => AllMerged /\ StoredAsHeld /\ ReadyInSync
    BY RecoveryImplies
  <1>4. QED
    BY <1>1, <1>2, <1>3, PTL DEF RSpec

\* With the interrupt marks, under the condition of InterruptJustified on the modes.
THEOREM RecoveredAgrees ==
  ASSUME SafeModes
  PROVE  RSpec => []TableInSync
  <1>1. RInit => RInv
    BY RecoveryInit
  <1>2. RInv /\ [RNext]_rvars => RInv'
    BY RecoveryStep
  <1>3. RInv => TableInSync
    BY RecoveryImplies DEF TableInSync
  <1>4. QED
    BY <1>1, <1>2, <1>3, PTL DEF RSpec

\* Every job that recover() has still to trigger is ready when its turn comes, as
\* trigger_unit asserts: no round of a unit before it ends, pauses or replaces it.
THEOREM RecoveredAreReady == RSpec => []RecoveredReady
  <1>1. RInit => RInv
    BY RecoveryInit
  <1>2. RInv /\ [RNext]_rvars => RInv'
    BY RecoveryStep
  <1>3. RInv => RecoveredReady
    BY RecoveryImplies
  <1>4. QED
    BY <1>1, <1>2, <1>3, PTL DEF RSpec
=============================================================================
