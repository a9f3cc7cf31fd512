----------------------------- MODULE Reliability -----------------------------
(***************************************************************************)
(* The reliability framework (core/lib/rel) under the handlers of the      *)
(* manager: the history tables with their write-back cache, the last frame *)
(* and the last unit, the marks of the descriptors that survive an exec,   *)
(* and the recovery that runs after a crash, at every point of which the   *)
(* process may crash again.                                                *)
(*                                                                         *)
(* A crash is what process 1 makes of one: the process executes itself     *)
(* anew, descriptors with close-on-exec are gone, memory is empty, and the *)
(* three lmdb environments hold what was last committed to each.  Whether  *)
(* any of it is used again is up to the file switch.debug: without it each *)
(* start clears the data first, and nothing is recovered.                  *)
(***************************************************************************)
EXTENDS Naturals, Sequences, FiniteSets

CONSTANTS
  Unit, Fd,    \* the socket units and the descriptor numbers of the process
  None,        \* no unit, no entry, no mark
  MaxCrashes, MaxEvents, MaxDepth   \* bounds: crashes, events of the loop, nested frames

\* ReliLastFrame; "Load" and "TargetDeps" are the two of Queue.
Frame == {"ManagerOp", "OtherEvent", "JobManager", "SigChld", "Notify", "SubManager",
          "CmdOp", "Load", "TargetDeps"}

\* ReliPState of a descriptor that is being or was marked.
Mark == {"Retaining", "Retained", "Removing"}

ASSUME ReliAssumption ==
  /\ IsFiniteSet(Unit) /\ None \notin Unit
  /\ Fd \subseteq Nat \ {0} /\ IsFiniteSet(Fd) /\ None \notin Nat \cup Frame \cup Mark
  /\ MaxCrashes \in Nat /\ MaxEvents \in Nat /\ MaxDepth \in Nat

\* The history: port records, triggers, and the sub-frame of the socket manager.  The
\* value of a port is its descriptor or 0 (-1), of FdListen its flag.
FdListen == <<"frame", None>>
Key == ({"port", "trigger"} \X Unit) \cup {FdListen}
Value == {0, 1} \cup Fd
Table == [Key -> Value \cup {None}]
Empty == [k \in Key |-> None]

VARIABLES
  disk,   \* the committed data: history, last unit, last frames, fd marks, enable flag;
          \* and whether switch.debug is there
  kern,   \* the process's descriptors: "free", "cloexec", "kept" over an exec, or "lost":
          \* kept, and forgotten by a start that cleared the data
  mem,    \* the process
  intr,   \* history variable: what crashes interrupted since the last recovery ended
  comp,   \* history variable: what the last recovery compensated
  cut,    \* history variable: a first boot was interrupted before the enable flag was set
  crashes, events

lvars == <<disk, kern, mem, intr, comp, cut, crashes, events>>

Pair == [f : Frame, u : Unit \cup {None}]
Disk == [db : Table, unit : Unit \cup {None}, frames : Seq(Frame),
         pend : [Fd -> {None} \cup Mark], enable : BOOLEAN, switch : BOOLEAN]

\* mem.synced: the cache was imported, or there was nothing to import.
Mem == [cache : Table, add : Table, del : SUBSET Key, stack : Seq(Pair), port : [Unit -> {0} \cup Fd],
        stage : {"start", "compensate", "db_map", "close_marked", "clear_marked", "clear_unit",
                 "clear_frame", "boot", "enable", "tail", "ok"},
        todo : Frame \cup {None}, synced : BOOLEAN,
        op : [k : {"none", "clear_unit", "clear_frame", "open", "close"}, fd : {0} \cup Fd, step : 0..3]]

NoOp == [k |-> "none", fd |-> 0, step |-> 0]

-----------------------------------------------------------------------------
(* ReDb and ReliHistory. *)

\* Mutant: a key that comes back stays in "del".
insert_keeps_del(m, k, v) == [m EXCEPT !.add[k] = v, !.cache[k] = v]

insert(m, k, v) == [m EXCEPT !.del = @ \ {k}, !.add[k] = v, !.cache[k] = v]
remove(m, k) == [m EXCEPT !.add[k] = None, !.del = @ \cup {k}, !.cache[k] = None]

\* cache_2_db of every table: put what was added, then delete.
exported(db, m) == [k \in Key |-> IF k \in m.del THEN None ELSE IF m.add[k] # None THEN m.add[k] ELSE db[k]]
written(m) == [m EXCEPT !.add = Empty, !.del = {}]

commit(m) == disk' = [disk EXCEPT !.db = exported(disk.db, m)]

\* db_2_cache of every table.
import(m) == [written(m) EXCEPT !.cache = disk.db, !.synced = TRUE]

-----------------------------------------------------------------------------
(* The process. *)

NewMem == [cache |-> Empty, add |-> Empty, del |-> {}, stack |-> <<>>, port |-> [u \in Unit |-> 0],
           stage |-> "start", todo |-> None, synced |-> disk.db = Empty, op |-> NoOp]

\* What data_clear leaves, and a machine starts with.
Blank(switch) ==
  [db |-> Empty, unit |-> None, frames |-> <<>>, pend |-> [n \in Fd |-> None], enable |-> FALSE,
   switch |-> switch]

LInit ==
  /\ \E switch \in BOOLEAN : disk = Blank(switch)
  /\ kern = [n \in Fd |-> "free"]
  /\ mem = NewMem
  /\ intr = {} /\ comp = None /\ cut = FALSE
  /\ crashes = 0 /\ events = 0

Head_(s) == s[Len(s)]
Top == IF mem.stack = <<>> THEN [f |-> None, u |-> None] ELSE Head_(mem.stack)
Pop(s) == IF s = <<>> THEN s ELSE SubSeq(s, 1, Len(s) - 1)
Running == mem.stage \in {"ok", "boot"} /\ mem.op.k = "none"

\* Manager::startup: recover, or add the default job.
Startup ==
  /\ mem.stage = "start" /\ disk.switch
  /\ mem' = IF disk.enable THEN [import(mem) EXCEPT !.stage = "compensate"]
            ELSE [mem EXCEPT !.stage = "boot", !.todo = "ManagerOp"]
  /\ UNCHANGED <<disk, kern, intr, comp, cut, crashes, events>>

\* Without switch.debug main() calls debug_clear_restore first, so startup finds the enable
\* flag cleared.  A crash between the four commits of data_clear is followed by another
\* such start: one step stands for them.
ClearedStartup ==
  /\ mem.stage = "start" /\ ~ disk.switch
  /\ disk' = Blank(FALSE)
  /\ kern' = [n \in Fd |-> IF kern[n] = "kept" THEN "lost" ELSE kern[n]]
  /\ mem' = [mem EXCEPT !.stage = "boot", !.todo = "ManagerOp", !.synced = TRUE]
  /\ intr' = {} /\ comp' = None /\ cut' = FALSE
  /\ UNCHANGED <<crashes, events>>

\* Which frame may be set now: rloop alternates the load queue and the events; a handler
\* that loads a unit dispatches the load queue (load_unit), loading one may load another.
Handlers == {"JobManager", "SigChld", "Notify", "SubManager", "CmdOp"}
Loads == {"ManagerOp", "JobManager", "SubManager", "CmdOp", "Load"}
Next_frame ==
  IF mem.todo # None THEN {mem.todo}
  ELSE CASE Top.f = "OtherEvent" -> IF events < MaxEvents THEN Handlers ELSE {}
         [] Top.f \in Loads      -> {"Load"}
         [] OTHER                -> {}

\* set_last_frame: pushed and committed at once.  The socket manager protects start_unit
\* with FdListen(false) in the history.
SetFrame(f) ==
  /\ Running /\ f \in Next_frame /\ Len(mem.stack) < MaxDepth
  /\ disk' = [disk EXCEPT !.frames = Append(@, f)]
  /\ LET m == IF Top.f = "SubManager" THEN insert(mem, FdListen, 0) ELSE mem
     IN  mem' = [m EXCEPT !.stack = Append(@, [f |-> f, u |-> None]), !.todo = None]
  /\ events' = IF f \in Handlers THEN events + 1 ELSE events
  /\ UNCHANGED <<kern, intr, comp, cut, crashes>>

\* set_last_unit: one unit, not a stack of them.
SetUnit(u) ==
  /\ Running /\ mem.todo = None /\ Top.u = None
  /\ Top.f \in {"JobManager", "SigChld", "Notify", "SubManager", "Load", "TargetDeps"}
  /\ disk' = [disk EXCEPT !.unit = u]
  /\ LET m == IF Top.f = "SubManager" THEN insert(mem, FdListen, 1) ELSE mem
     IN  mem' = [m EXCEPT !.stack[Len(mem.stack)].u = u]
  /\ UNCHANGED <<kern, intr, comp, cut, crashes, events>>

\* What the handler of a unit writes to the history: its port (db_update), its trigger.
Work(u) ==
  /\ Running /\ mem.todo = None /\ Top.u = u /\ Top.f \in Handlers
  /\ mem' \in {insert(mem, <<"port", u>>, mem.port[u]), insert(mem, <<"trigger", u>>, 1),
               remove(mem, <<"trigger", u>>)}
  /\ UNCHANGED <<disk, kern, intr, comp, cut, crashes, events>>

\* clear_last_unit: the history first, then the last unit.
ClearUnit ==
  /\ Running /\ mem.todo = None /\ Top.u # None
  /\ commit(mem)
  /\ mem' = [written(mem) EXCEPT !.op = [NoOp EXCEPT !.k = "clear_unit"]]
  /\ UNCHANGED <<kern, intr, comp, cut, crashes, events>>

UnitCleared ==
  /\ mem.op.k = "clear_unit"
  /\ disk' = [disk EXCEPT !.unit = None]
  /\ mem' = [mem EXCEPT !.op = NoOp, !.stack[Len(mem.stack)].u = None]
  /\ UNCHANGED <<kern, intr, comp, cut, crashes, events>>

\* clear_last_frame: the history first, then the top frame.
ClearFrame ==
  /\ Running /\ mem.todo = None /\ Top.u = None /\ Top.f # None
  /\ LET m == IF Top.f = "SubManager" THEN remove(mem, FdListen) ELSE mem
     IN  /\ commit(m)
         /\ mem' = [written(m) EXCEPT !.op = [NoOp EXCEPT !.k = "clear_frame"]]
  /\ UNCHANGED <<kern, intr, comp, cut, crashes, events>>

\* What follows a frame: the target dependencies after the load queue, then the caller.
after(f, s) ==
  CASE f = "Load" -> "TargetDeps"
    [] f = "TargetDeps" /\ s = <<>> -> "OtherEvent"
    [] f = "OtherEvent" -> "Load"
    [] OTHER -> None

FrameCleared ==
  /\ mem.op.k = "clear_frame"
  /\ disk' = [disk EXCEPT !.frames = Pop(@)]
  /\ LET s == Pop(mem.stack)
         m == IF s # <<>> /\ Head_(s).f = "SubManager" /\ Top.f = "TargetDeps"
              THEN insert(mem, FdListen, 1) ELSE mem
     IN  mem' = [m EXCEPT !.op = NoOp, !.stack = s, !.todo = after(Top.f, s),
                          !.stage = IF Top.f = "ManagerOp" THEN "enable" ELSE @]
  /\ UNCHANGED <<kern, intr, comp, cut, crashes, events>>

\* set_restore, and the end of startup with its clear_last_frame.
SetEnable ==
  /\ mem.stage = "enable"
  /\ disk' = [disk EXCEPT !.enable = TRUE]
  /\ mem' = [mem EXCEPT !.stage = "tail"]
  /\ UNCHANGED <<kern, intr, comp, cut, crashes, events>>

Tail_ ==
  /\ mem.stage = "tail"
  /\ disk' = [disk EXCEPT !.db = exported(disk.db, mem), !.frames = Pop(@)]
  /\ mem' = [written(mem) EXCEPT !.stage = "ok", !.todo = "Load"]
  /\ intr' = {} /\ comp' = None
  /\ UNCHANGED <<kern, cut, crashes, events>>

-----------------------------------------------------------------------------
(* Descriptors: SocketPort::open_port and close, ReliPending. *)

lowest_free == {n \in Fd : kern[n] = "free" /\ \A n2 \in Fd : kern[n2] = "free" => n <= n2}

OpenPort(u) ==
  /\ Running /\ mem.todo = None /\ Top.u = u /\ Top.f \in {"JobManager", "SigChld", "SubManager"}
  /\ mem.port[u] = 0
  /\ \E n \in lowest_free :
       /\ kern' = [kern EXCEPT ![n] = "cloexec"]
       /\ mem' = [mem EXCEPT !.op = [k |-> "open", fd |-> n, step |-> 1]]
  /\ UNCHANGED <<disk, intr, comp, cut, crashes, events>>

fd_add(n, s) == disk' = [disk EXCEPT !.pend[n] = s]

\* fd_retain: refused for a marked descriptor, else mark, clear the flag, mark.  The
\* port that failed closes nothing: it does not hold the descriptor yet.  The flag of a
\* descriptor that was just opened can be cleared: fcntl fails for one that is gone.
\* Mutant: the mark follows the flag.
fd_retain_late(u) ==
  LET n == mem.op.fd
  IN  \/ /\ mem.op.step = 1
         /\ kern' = [kern EXCEPT ![n] = "kept"]
         /\ mem' = [mem EXCEPT !.op.step = 2]
         /\ UNCHANGED disk
      \/ /\ mem.op.step = 2 /\ fd_add(n, "Retaining")
         /\ mem' = [mem EXCEPT !.op.step = 3]
         /\ UNCHANGED kern
      \/ /\ mem.op.step = 3 /\ fd_add(n, "Retained")
         /\ mem' = [mem EXCEPT !.op = NoOp, !.port[u] = n]
         /\ UNCHANGED kern

fd_retain(u) ==
  LET n == mem.op.fd
  IN  \/ /\ mem.op.step = 1 /\ disk.pend[n] # None
         /\ mem' = [mem EXCEPT !.op = NoOp]
         /\ UNCHANGED <<disk, kern>>
      \/ /\ mem.op.step = 1 /\ disk.pend[n] = None /\ fd_add(n, "Retaining")
         /\ mem' = [mem EXCEPT !.op.step = 2]
         /\ UNCHANGED kern
      \/ /\ mem.op.step = 2
         /\ kern' = [kern EXCEPT ![n] = "kept"]
         /\ mem' = [mem EXCEPT !.op.step = 3]
         /\ UNCHANGED disk
      \/ /\ mem.op.step = 3 /\ fd_add(n, "Retained")
         /\ mem' = [mem EXCEPT !.op = NoOp, !.port[u] = n]
         /\ UNCHANGED kern

Retain ==
  /\ mem.op.k = "open"
  /\ fd_retain(Top.u)
  /\ UNCHANGED <<intr, comp, cut, crashes, events>>

ClosePort(u) ==
  /\ Running /\ mem.todo = None /\ Top.u = u /\ Top.f \in {"JobManager", "SigChld", "SubManager"}
  /\ mem.port[u] # 0
  /\ mem' = [mem EXCEPT !.op = [k |-> "close", fd |-> mem.port[u], step |-> 1]]
  /\ UNCHANGED <<disk, kern, intr, comp, cut, crashes, events>>

\* fd_remove: mark, set the flag, drop the mark; a descriptor that already has the flag
\* only loses its mark.  The flag of one that is gone (a stale record) reads as not set
\* and cannot be set: the mark is dropped all the same, and the error only logged.  Then
\* the port closes it.
fd_remove(u) ==
  LET n == mem.op.fd
  IN  \/ /\ mem.op.step = 1
         /\ fd_add(n, IF kern[n] # "cloexec" THEN "Removing" ELSE None)
         /\ mem' = [mem EXCEPT !.op.step = IF kern[n] # "cloexec" THEN 2 ELSE 0]
         /\ UNCHANGED kern
      \/ /\ mem.op.step = 2
         /\ kern' = [kern EXCEPT ![n] = IF @ = "free" THEN @ ELSE "cloexec"]
         /\ mem' = [mem EXCEPT !.op.step = 3]
         /\ UNCHANGED disk
      \/ /\ mem.op.step = 3 /\ fd_add(n, None)
         /\ mem' = [mem EXCEPT !.op.step = 0]
         /\ UNCHANGED kern
      \/ /\ mem.op.step = 0
         /\ kern' = [kern EXCEPT ![n] = "free"]
         /\ mem' = [mem EXCEPT !.op = NoOp, !.port[u] = 0]
         /\ UNCHANGED disk

Remove ==
  /\ mem.op.k = "close"
  /\ fd_remove(Top.u)
  /\ UNCHANGED <<intr, comp, cut, crashes, events>>

-----------------------------------------------------------------------------
(* Crash and recovery. *)

Crash ==
  /\ crashes < MaxCrashes
  /\ crashes' = crashes + 1
  /\ kern' = [n \in Fd |-> IF kern[n] = "cloexec" THEN "free" ELSE kern[n]]
  /\ mem' = NewMem
  /\ intr' = intr \cup {mem.stack[i] : i \in 1..Len(mem.stack)}
  /\ comp' = None /\ cut' = (cut \/ ~ disk.enable)
  /\ UNCHANGED <<disk, events>>

last_frame == IF disk.frames = <<>> THEN None ELSE Head_(disk.frames)

\* The frames whose unit is run again, and when the socket manager does so.
retriggers(m) == \/ last_frame \in {"JobManager", "SigChld", "Notify"}
                 \/ last_frame = "SubManager" /\ m.cache[FdListen] = 1

\* db_compensate: the interrupted unit is merged to the triggers, and committed.
Compensate ==
  /\ mem.stage = "compensate"
  /\ LET m == IF disk.unit # None /\ retriggers(mem) THEN insert(mem, <<"trigger", disk.unit>>, 1) ELSE mem
     IN  /\ commit(m)
         /\ mem' = [written(m) EXCEPT !.stage = "db_map"]
  /\ UNCHANGED <<kern, intr, comp, cut, crashes, events>>

\* db_map with the history ignored: the ports take their descriptors from the record.
recorded(u) == IF mem.cache[<<"port", u>>] = None THEN 0 ELSE mem.cache[<<"port", u>>]
fd_take == {recorded(u) : u \in Unit}

DbMap ==
  /\ mem.stage = "db_map"
  /\ disk' = [disk EXCEPT !.pend = [n \in Fd |-> IF n \in fd_take THEN None ELSE @[n]]]
  /\ mem' = [mem EXCEPT !.port = [u \in Unit |-> recorded(u)], !.stage = "close_marked"]
  /\ UNCHANGED <<kern, intr, comp, cut, crashes, events>>

\* make_consistent: descriptors that are still marked belong to nobody.
CloseMarked ==
  /\ mem.stage = "close_marked"
  /\ kern' = [n \in Fd |-> IF disk.pend[n] # None THEN "free" ELSE kern[n]]
  /\ mem' = [mem EXCEPT !.stage = "clear_marked"]
  /\ UNCHANGED <<disk, intr, comp, cut, crashes, events>>

\* Then the marks go, the interrupted unit is triggered, and the history is committed.
ClearMarked ==
  /\ mem.stage = "clear_marked"
  /\ disk' = [disk EXCEPT !.pend = [n \in Fd |-> None], !.db = exported(disk.db, mem)]
  /\ comp' = IF disk.unit # None /\ retriggers(mem) THEN [f |-> last_frame, u |-> disk.unit] ELSE None
  /\ mem' = [written(mem) EXCEPT !.stage = "clear_unit"]
  /\ UNCHANGED <<kern, intr, cut, crashes, events>>

\* Mutant: the last unit is left alone.
RecoverClearUnit_kept ==
  /\ mem.stage = "clear_unit"
  /\ mem' = [mem EXCEPT !.stage = "clear_frame"]
  /\ UNCHANGED <<disk, kern, intr, comp, cut, crashes, events>>

RecoverClearUnit ==
  /\ mem.stage = "clear_unit"
  /\ disk' = [disk EXCEPT !.unit = None]
  /\ mem' = [mem EXCEPT !.stage = "clear_frame"]
  /\ UNCHANGED <<kern, intr, comp, cut, crashes, events>>

\* One frame is popped here and one at the end of startup, however many there are.
RecoverClearFrame ==
  /\ mem.stage = "clear_frame"
  /\ disk' = [disk EXCEPT !.frames = Pop(@)]
  /\ mem' = [mem EXCEPT !.stage = "tail"]
  /\ UNCHANGED <<kern, intr, comp, cut, crashes, events>>

\* Manager::reload, when the loop is left: the entries are cleared and recovered in
\* the same process.
Reload ==
  /\ mem.stage = "ok" /\ mem.stack = <<>> /\ mem.todo = "Load" /\ events < MaxEvents
  /\ events' = events + 1
  /\ mem' = [import(mem) EXCEPT !.stage = "compensate", !.todo = None, !.port = [u \in Unit |-> 0]]
  /\ UNCHANGED <<disk, kern, intr, comp, cut, crashes>>

LNext ==
  \/ Startup \/ ClearedStartup \/ ClearUnit \/ UnitCleared \/ ClearFrame \/ FrameCleared \/ SetEnable \/ Tail_
  \/ Retain \/ Remove \/ Crash \/ Compensate \/ DbMap \/ CloseMarked \/ ClearMarked
  \/ RecoverClearUnit \/ RecoverClearFrame \/ Reload
  \/ \E f \in Frame : SetFrame(f)
  \/ \E u \in Unit : SetUnit(u) \/ Work(u) \/ OpenPort(u) \/ ClosePort(u)

LSpec == LInit /\ [][LNext]_lvars

-----------------------------------------------------------------------------
(* Properties. *)

LTypeOK ==
  /\ disk \in Disk /\ mem \in Mem /\ kern \in [Fd -> {"free", "cloexec", "kept", "lost"}]
  /\ intr \subseteq Pair /\ comp \in Pair \cup {None}
  /\ cut \in BOOLEAN /\ crashes \in Nat /\ events \in Nat

\* What the tables answer is what a commit would leave in the database, so a recovery
\* sees the program's own view, through any order of inserts, removals, commits, crashes
\* and reloads (ReDb with its three copies).  A first boot that crashes before the
\* enable flag is set starts again over the old records without reading them.
CacheIsStored == mem.synced /\ mem.stage # "start" => mem.cache = exported(disk.db, mem)

\* No descriptor outlives its port: one that survives an exec is held by a port, or
\* marked so that the next recovery closes it, or about to be taken from its record
\* (fd_retain, fd_remove, fd_take and make_consistent against crashes between any two
\* of their steps).  Where switch.debug is, none is ever lost.  Where it is not, a start
\* clears marks and records, and what the exec kept is open for ever: it is no longer
\* "kept" but "lost" here, and the property speaks of the descriptors opened since.
FdAccounted ==
  \A n \in Fd :
    /\ kern[n] = "lost" => ~ disk.switch
    /\ kern[n] = "kept" =>
         \/ disk.pend[n] # None
         \/ \E u \in Unit : mem.port[u] = n
         \/ \E u \in Unit : disk.db[<<"port", u>>] = n /\ mem.stage \in {"start", "compensate", "db_map"}

\* Recovery re-runs only a unit whose own handler was interrupted, however the frames
\* left by nested handlers and repeated crashes are stacked.  (The last unit of a first
\* boot that was cut short is cleared by nobody.)
NoFalseTrigger == comp # None /\ ~ cut => comp \in intr
=============================================================================
