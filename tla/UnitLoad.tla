------------------------------ MODULE UnitLoad ------------------------------
(***************************************************************************)
(* Loading units: the load queue and the target-dependency queue           *)
(* (unit/runtime.rs), the creation of units (uload.rs), their files and    *)
(* the links of Install (util/unit_file.rs, entry/config.rs, load.rs), the *)
(* default dependencies of services and targets, the dependency table with *)
(* its records (datastore/deps.rs), and the recovery of all this after a   *)
(* crash.                                                                  *)
(*                                                                         *)
(* Loading a unit may load another one from inside (unit_add_dependency),  *)
(* which runs the queues in a nested call: `stack' holds the calls.  The   *)
(* records are committed when the last unit or the last frame is cleared;  *)
(* a crash keeps the disk and loses the rest.                              *)
(***************************************************************************)
EXTENDS Install

CONSTANTS
  Type,        \* [Name -> {"service", "target", "mount", "invalid"}]
  SYSINIT_TARGET, BASIC_TARGET, SHUTDOWN_TARGET,
  None, MaxCrashes

\* A unit file also has its [Unit] lists, DefaultDependencies=, and whether the section of
\* the sub-unit passes (service_verify).  Left out: the Sockets= of a service, which are
\* added like its default dependencies (ServiceUnit::parse), and units of the other types.
Listed == {"Wants", "Requires", "BindsTo", "Requisite", "OnFailure", "OnSuccess",
           "After", "Before", "Conflicts", "PartOf"}

ASSUME LoadAssumption ==
  /\ Type \in [Name -> {"service", "target", "mount", "invalid"}]
  /\ {SYSINIT_TARGET, BASIC_TARGET, SHUTDOWN_TARGET} \subseteq Name
  /\ None \notin Name \cup {"Load", "TargetDeps"}
  /\ \A n \in Name : File[n] # NoFile =>
       /\ DOMAIN File[n].list \subseteq Listed
       /\ \A r \in DOMAIN File[n].list : File[n].list[r] \in Seq(Name)
       /\ File[n].ddeps \in BOOLEAN /\ File[n].ok \in BOOLEAN
  /\ MaxCrashes \in Nat

VARIABLES
  m,       \* the unit manager: units, load states, dependency table, queues
  stack,   \* the calls of dispatch_load_queue under way, the innermost last
  disk,    \* the committed records
  last,    \* the last unit and the last frames, committed at once
  hist,    \* history variable: units loaded again by a recovery, units a nested load lost
  crashes

uvars == <<m, stack, disk, last, hist, crashes>>

LoadState == {"UnitStub", "UnitLoaded", "UnitNotFound"}
Inverse_ == [Wants |-> "WantsBy", Requires |-> "RequiresBy", BindsTo |-> "BoundBy",
             Requisite |-> "RequisiteOf", UpHolds |-> "UpHeldBy", OnFailure |-> "OnFailureOf",
             OnSuccess |-> "OnSuccessOf", After |-> "Before", Before |-> "After",
             Conflicts |-> "ConflictedBy", PartOf |-> "ConsistsOf", References |-> "ReferencedBy"]
Relation == DOMAIN Inverse_ \cup {Inverse_[r] : r \in DOMAIN Inverse_}
unit_relation_to_inverse(r) ==
  IF r \in DOMAIN Inverse_ THEN Inverse_[r] ELSE CHOOSE q \in DOMAIN Inverse_ : Inverse_[q] = r

\* unit_relation_from_unit_atom for the atoms used here.
DefaultTargetDependencies == {"RequiresBy", "RequisiteOf", "WantsBy", "BoundBy", "UpHeldBy"}
AddDefaultTargetDependencyQueue == {"Requires", "Requisite", "Wants", "BindsTo", "PartOf", "UpHolds"}

\* read: the units whose configuration was read; before that every setting is the Default
\* of its type, so DefaultDependencies is off.
Units == [units : SUBSET Name, state : [Name -> LoadState], read : SUBSET Name,
          deps : SUBSET (Name \X Relation \X Name), lq : Seq(Name), tq : Seq(Name)]

NoUnits == [units |-> {}, state |-> [n \in Name |-> "UnitStub"], read |-> {}, deps |-> {},
            lq |-> <<>>, tq |-> <<>>]

\* ph "load" and "tdep" are the loops of dispatch_load_queue; "comp" is the load that
\* do_compensate_last repeats.  cur is the unit in hand, at: before its load, or in it.
Call == [ph : {"load", "tdep", "comp"}, cur : Name \cup {None}, at : {"popped", "extras"},
         todo : Seq(Relation \X Name)]

UTypeOK ==
  /\ m \in Units /\ stack \in Seq(Call)
  /\ last.unit \in Name \cup {None} /\ last.frames \in Seq({"Load", "TargetDeps"})
  /\ hist.redone \subseteq Name /\ hist.lost \subseteq Name /\ crashes \in 0..MaxCrashes

Called(ph, u) == [ph |-> ph, cur |-> u, at |-> "popped", todo |-> <<>>]
This == Last(stack)
Idle == stack = <<>>

\* The manager's loop empties the queues before it takes an event.
Settled == Idle /\ m.lq \o m.tq = <<>>

-----------------------------------------------------------------------------
(* The dependency table. *)

\* UnitDepData::insert: the relation and its inverse, the reference and its inverse; a
\* dependency on itself is ignored.
dep_insert(d, s, r, t) ==
  IF s = t THEN d
  ELSE d \cup {<<s, r, t>>, <<t, unit_relation_to_inverse(r), s>>,
               <<s, "References", t>>, <<t, "ReferencedBy", s>>}

\* gets_atom and is_dep_atom_with.
dep_gets_atom(mm, s, atom) == {t \in mm.units : \E r \in atom : <<s, r, t>> \in mm.deps}
is_dep_atom_with(mm, s, atom, t) == t \in dep_gets_atom(mm, s, atom)

default_dependencies(mm, u) == u \in mm.read /\ File[u].ddeps

-----------------------------------------------------------------------------
(* The queues and the creation of units. *)

\* A unit is in a queue once, and its flag is in the record.
push_load_queue(mm, u) == IF u \in ToSet(mm.lq) THEN mm ELSE [mm EXCEPT !.lq = Append(@, u)]
push_target_dep_queue(mm, u) == IF u \in ToSet(mm.tq) THEN mm ELSE [mm EXCEPT !.tq = Append(@, u)]

\* prepare_unit; push_dep_unit_into_load_queue and load_unit leave a unit that exists.
try_new_unit(u) == Type[u] # "invalid"
prepare_unit(mm, u) ==
  IF u \in mm.units THEN mm ELSE push_load_queue([mm EXCEPT !.units = @ \cup {u}], u)

\* UeLoad::parse: the lists of the file; the dropins follow as Wants (Requires) and After.
\* The relations come in the order of a HashMap.
ConfRelations(u) ==
  LET d == SetToSeq(dropin("wants", u))
      q == SetToSeq(dropin("requires", u))
      list(r) == IF r \in DOMAIN File[u].list THEN File[u].list[r] ELSE <<>>
      all(r) == CASE r = "Wants" -> list(r) \o d
                  [] r = "Requires" -> list(r) \o q
                  [] r = "After" -> list(r) \o d \o q
                  [] OTHER -> list(r)
  IN  [r \in {x \in Listed : all(x) # <<>>} |-> all(r)]

\* insert_udconf: for each relation, for each name of its list.  A name of no type ends
\* both loops, and what follows is dropped.
insert_one(a, u, r, n) ==
  IF a.cut \/ ~ try_new_unit(n) THEN [a EXCEPT !.cut = TRUE]
  ELSE LET mm == prepare_unit(a.mm, n)
       IN  [a EXCEPT !.mm = [mm EXCEPT !.deps = dep_insert(@, u, r, n)]]

insert_list(a, u, r, s) ==
  LET done[j \in 0..Len(s)] == IF j = 0 THEN a ELSE insert_one(done[j - 1], u, r, s[j])
  IN  done[Len(s)]

insert_lists(a, u, C, o) ==
  LET done[i \in 0..Len(o)] == IF i = 0 THEN a ELSE insert_list(done[i - 1], u, o[i], C[o[i]])
  IN  done[Len(o)]

insert_udconf(mm, u) ==
  LET C == ConfRelations(u)
  IN  {insert_lists([mm |-> mm, cut |-> FALSE], u, C, o).mm : o \in SetToSeqs(DOMAIN C)}

\* ServiceUnit::add_default_dependencies, each a call of unit_add_dependency.
service_add_default_dependencies(mm, u) ==
  IF ~ default_dependencies(mm, u) THEN <<>>
  ELSE << <<"After", SYSINIT_TARGET>>, <<"Requires", SYSINIT_TARGET>>, <<"After", BASIC_TARGET>>,
          <<"Before", SHUTDOWN_TARGET>>, <<"Conflicts", SHUTDOWN_TARGET>> >>

\* Target::add_default_dependencies: after what it pulls in, unless ordered before it.
target_add_default_dependencies(mm, u) ==
  IF ~ default_dependencies(mm, u) THEN <<>>
  ELSE LET D == {n \in dep_gets_atom(mm, u, AddDefaultTargetDependencyQueue) :
                   default_dependencies(mm, n) /\ ~ is_dep_atom_with(mm, u, {"Before"}, n)}
       IN  [i \in 1..Cardinality(D) |-> <<"After", SetToSeq(D)[i]>>]

extras(mm, u) == CASE Type[u] = "service" -> service_add_default_dependencies(mm, u)
                   [] Type[u] = "target"  -> target_add_default_dependencies(mm, u)
                   [] OTHER -> <<>>

\* dispatch_target_dep_unit: the first unit that needs nothing ends the loop, in the order
\* of a HashMap, so any prefix without such a unit may be all that is done.
\* Mutant: nothing is done after the load of a unit.
dispatch_target_dep_skip(mm, u) == {mm}

dispatch_target_dep_unit(mm, u) ==
  LET D == dep_gets_atom(mm, u, DefaultTargetDependencies)
      good(t) == /\ Type[t] = "target"
                 /\ mm.state[u] = "UnitLoaded" /\ mm.state[t] = "UnitLoaded"
                 /\ default_dependencies(mm, u) /\ default_dependencies(mm, t)
                 /\ ~ is_dep_atom_with(mm, t, {"Before"}, u)
      G == {t \in D : good(t)}
      with(S) == [mm EXCEPT !.deps = @ \cup UNION {dep_insert({}, t, "After", u) : t \in S}]
  IN  IF G = D THEN {with(D)} ELSE {with(S) : S \in SUBSET G}

-----------------------------------------------------------------------------
(* dispatch_load_queue, one step at a time. *)

commit(mm) == disk' = [mm EXCEPT !.lq = ToSet(@), !.tq = ToSet(@)]

\* During recovery the last unit and frames are left alone (ReliLast's ignore).
Recovering == stack # <<>> /\ stack[1].ph = "comp"
set_last_unit(u) == last' = IF Recovering THEN last ELSE [last EXCEPT !.unit = u]
PopFrame(s) == IF s = <<>> THEN s ELSE Front(s)

SetThis(c) == stack' = [stack EXCEPT ![Len(stack)] = c]

\* load_unit from an event or a command, or the loop of the manager.
LoadUnit(u) ==
  /\ Settled /\ u \notin m.units /\ try_new_unit(u)
  /\ m' = prepare_unit(m, u)
  /\ stack' = <<Called("load", None)>>
  /\ last' = [last EXCEPT !.frames = Append(@, "Load")]
  /\ UNCHANGED <<disk, hist, crashes>>

rloop ==
  /\ Idle /\ ~ Settled
  /\ stack' = <<Called("load", None)>>
  /\ last' = [last EXCEPT !.frames = Append(@, "Load")]
  /\ UNCHANGED <<m, disk, hist, crashes>>

PopLoad ==
  /\ ~ Idle /\ This.ph = "load" /\ This.cur = None /\ m.lq # <<>>
  /\ SetThis(Called("load", Head(m.lq)))
  /\ set_last_unit(Head(m.lq))
  \* the flag of the unit, and its record, follow in load_unit
  /\ UNCHANGED <<m, disk, hist, crashes>>

\* clear_last_unit, and the call goes on with the next unit or, for "comp", is over.
Finish(mm) ==
  /\ m' = mm
  /\ commit(mm)
  /\ IF This.ph = "comp"
     THEN /\ stack' = Front(stack)
          /\ last' = [unit |-> None, frames |-> PopFrame(PopFrame(last.frames))]
     ELSE /\ SetThis(Called("load", None))
          /\ set_last_unit(None)

\* Unit::load_unit up to the load of the sub-unit.
InLoad(ph) == ~ Idle /\ This.ph \in ph /\ This.cur # None

\* A unit that was popped is the head of the queue; one that is loaded by the recovery
\* is in no queue, since db_compensate_last cleared its flag.
Dequeued(mm, u) == [mm EXCEPT !.lq = IF @ # <<>> /\ Head(@) = u THEN Tail(@) ELSE @]

load_unit ==
  /\ InLoad({"load", "comp"}) /\ This.at = "popped"
  /\ LET u == This.cur
         mm == Dequeued(m, u)
     IN  CASE Type[u] = "mount" ->
                LET l == [mm EXCEPT !.state[u] = "UnitLoaded"]
                IN  Finish(IF This.ph = "comp" THEN l ELSE push_target_dep_queue(l, u))
           [] Type[u] # "mount" /\ File[u] = NoFile ->
                Finish([mm EXCEPT !.state[u] = "UnitNotFound"])
           [] OTHER ->
                \E r \in insert_udconf([mm EXCEPT !.read = @ \cup {u}], u) :
                  /\ m' = r
                  /\ SetThis([This EXCEPT !.at = "extras", !.todo = extras(r, u)])
                  /\ UNCHANGED <<disk, last>>
  /\ UNCHANGED <<hist, crashes>>

\* unit_add_dependency: a unit that does not exist is loaded first, in a nested call.
unit_add_dependency ==
  /\ InLoad({"load", "comp"}) /\ This.at = "extras" /\ This.todo # <<>>
  /\ LET r == Head(This.todo)[1]
         t == Head(This.todo)[2]
     IN  IF t \in m.units
         THEN /\ m' = [m EXCEPT !.deps = dep_insert(@, This.cur, r, t)]
              /\ SetThis([This EXCEPT !.todo = Tail(@)])
              /\ UNCHANGED last
         ELSE /\ m' = prepare_unit(m, t)
              /\ stack' = Append(stack, Called("load", None))
              /\ last' = IF Recovering THEN last ELSE [last EXCEPT !.frames = Append(@, "Load")]
  /\ UNCHANGED <<disk, hist, crashes>>

\* The sub-unit has loaded, or has refused its section: then the unit stays a stub.
LoadDone ==
  /\ InLoad({"load", "comp"}) /\ This.at = "extras" /\ This.todo = <<>>
  /\ LET u == This.cur
         l == [m EXCEPT !.state[u] = "UnitLoaded"]
     IN  Finish(IF ~ File[u].ok THEN m ELSE IF This.ph = "comp" THEN l ELSE push_target_dep_queue(l, u))
  /\ UNCHANGED <<hist, crashes>>

\* The load queue is empty: its frame is cleared, and the other queue's set.
LoadQueueEmpty ==
  /\ ~ Idle /\ This.ph = "load" /\ This.cur = None /\ m.lq = <<>>
  /\ SetThis(Called("tdep", None))
  /\ commit(m)
  /\ last' = IF Recovering THEN last ELSE [last EXCEPT !.frames = Append(PopFrame(@), "TargetDeps")]
  /\ UNCHANGED <<m, hist, crashes>>

PopTargetDep ==
  /\ ~ Idle /\ This.ph = "tdep" /\ This.cur = None /\ m.tq # <<>>
  /\ SetThis(Called("tdep", Head(m.tq)))
  /\ set_last_unit(Head(m.tq))
  /\ UNCHANGED <<m, disk, hist, crashes>>

TargetDep ==
  /\ InLoad({"tdep"})
  /\ \E mm \in dispatch_target_dep_unit([m EXCEPT !.tq = Tail(@)], This.cur) :
       m' = mm /\ commit(mm)
  /\ SetThis(Called("tdep", None))
  /\ set_last_unit(None)
  /\ UNCHANGED <<hist, crashes>>

TargetQueueEmpty ==
  /\ ~ Idle /\ This.ph = "tdep" /\ This.cur = None /\ m.tq = <<>>
  /\ stack' = Front(stack)
  /\ commit(m)
  /\ last' = IF Recovering THEN last ELSE [last EXCEPT !.frames = PopFrame(@)]
  /\ UNCHANGED <<m, hist, crashes>>

-----------------------------------------------------------------------------
(* Crash, and the recovery of the next start. *)

LastFrame == IF last.frames = <<>> THEN None ELSE Last(last.frames)
Compensated(frame) == IF LastFrame = frame /\ last.unit \in disk.units THEN {last.unit} ELSE {}

\* UnitRTData::db_map: the flagged units go back to their queues, in any order.
\* Mutant: the load queue is not rebuilt.
db_map_no_load(ld, td) == {<<>>} \X SetToSeqs(disk.tq \ td)

rt_db_map(ld, td) == SetToSeqs(disk.lq \ ld) \X SetToSeqs(disk.tq \ td)

\* The unit that was being loaded is loaded again, the one in the other queue has its
\* dependencies added; both leave their queue in db_compensate_last.  The units a nested
\* load had interrupted are in no queue, and the last unit is not theirs.
Recover ==
  LET ld == Compensated("Load")
      td == Compensated("TargetDeps")
      deep == ({stack[i].cur : i \in 1..Len(stack)} \cap disk.units) \ ({last.unit} \cup disk.lq)
  IN  \E q \in rt_db_map(ld, td) :
        LET mm == [disk EXCEPT !.lq = q[1], !.tq = q[2]]
        IN  /\ hist' = [redone |-> hist.redone \cup ld, lost |-> hist.lost \cup deep]
            /\ IF ld # {}
               THEN /\ m' = mm
                    /\ stack' = <<Called("comp", last.unit)>>
                    /\ disk' = [disk EXCEPT !.lq = @ \ ld]
                    /\ UNCHANGED last
               ELSE /\ \/ td # {} /\ m' \in dispatch_target_dep_unit(mm, last.unit)
                       \/ td = {} /\ m' = mm
                    /\ stack' = <<>>
                    /\ commit(m')
                    /\ last' = [unit |-> None, frames |-> PopFrame(PopFrame(last.frames))]

Restart == crashes < MaxCrashes /\ crashes' = crashes + 1 /\ Recover

\* A crash, the next start of the manager with its recovery, and the presets.
CrashRecover == Restart /\ PresetAll /\ UNCHANGED cmds

\* daemon-reload: entry_clear and recover in the same process.
Reload == Settled /\ Restart /\ UNCHANGED ivars

-----------------------------------------------------------------------------
UInit ==
  /\ IInit
  /\ m = NoUnits /\ stack = <<>>
  /\ disk = [NoUnits EXCEPT !.lq = {}, !.tq = {}]
  /\ last = [unit |-> None, frames |-> <<>>]
  /\ hist = [redone |-> {}, lost |-> {}] /\ crashes = 0

Begin == (\E u \in Asked : LoadUnit(u)) \/ rloop

Continue ==
  \/ PopLoad \/ load_unit \/ unit_add_dependency \/ LoadDone \/ LoadQueueEmpty
  \/ PopTargetDep \/ TargetDep \/ TargetQueueEmpty

FileCommand ==
  /\ Settled
  /\ \E n \in Asked : unit_enable_files(n) \/ unit_disable_files(n) \/ mask_unit(n) \/ unmask_unit(n)
  /\ UNCHANGED uvars

-----------------------------------------------------------------------------
(* Properties. *)

\* Every unit that was created is loaded in the end, or its load has failed: a crash
\* forgets none, except one that was interrupted by the load of a unit it needs
\* (dispatch_load_queue, set_last_unit, UnitRT's db_compensate_last, db_map and
\* do_compensate_last).
NoUnitForgotten ==
  Settled => \A u \in m.units \ hist.lost :
    m.state[u] = "UnitStub" => u \in m.read /\ ~ File[u].ok

\* A target is ordered after what it pulls in, however the loads of the two, of the
\* units between them and a crash are interleaved (Target::add_default_dependencies
\* before the unit is loaded, dispatch_target_dep_unit after).  Left out: a unit that is
\* also pulled in by something other than such a target, and one a recovery loaded again.
PullsOnly(u) == \A t \in dep_gets_atom(m, u, DefaultTargetDependencies) :
                  /\ Type[t] = "target" /\ m.state[t] = "UnitLoaded" /\ default_dependencies(m, t)
                  /\ ~ is_dep_atom_with(m, t, {"Before"}, u)
TargetOrdered ==
  Settled => \A u \in m.units, t \in m.units :
    /\ m.state[u] = "UnitLoaded" /\ default_dependencies(m, u) /\ u \notin hist.redone
    /\ t \in dep_gets_atom(m, u, DefaultTargetDependencies) /\ PullsOnly(u)
    => is_dep_atom_with(m, t, {"After"}, u)
=============================================================================
