------------------------------ MODULE Children ------------------------------
(***************************************************************************)
(* The processes of the units: how the manager spawns them                 *)
(* (execute/spawn.rs), watches them (datastore/child.rs, entry/child.rs),  *)
(* learns of their exits (sigchld.rs) and hears from them (notify.rs), how *)
(* it kills a cgroup (kill_context, libs/cgroup), and what a crash of the  *)
(* manager between two of these steps leaves of it.                        *)
(*                                                                         *)
(* The processes run while the manager does: they fork, exit and send at   *)
(* any point of its handlers.  A manager that crashed, or that init or     *)
(* daemon-reexec restarts, executes itself anew in the same process, so it *)
(* keeps its children and its zombies.  With the file switch.debug it      *)
(* reads the rest from the records, which are committed at the end of a    *)
(* unit's handler, and goes on with its notify socket; without it, which   *)
(* is the default, every start clears the records first (main.rs) and      *)
(* begins with nothing.                                                    *)
(***************************************************************************)
EXTENDS Naturals, Sequences, FiniteSets, SequencesExt

CONSTANTS
  Unit, Pid, None,
  MaxForks,    \* bound: processes in a behaviour
  MaxCrashes,  \* bound: crashes of the manager
  MaxSent      \* bound: notifications in a behaviour

ASSUME ChildrenAssumption ==
  /\ IsFiniteSet(Unit) /\ IsFiniteSet(Pid)
  /\ None \notin Unit \cup Pid /\ Unit \cap Pid = {}
  /\ {MaxForks, MaxCrashes, MaxSent} \subseteq Nat

VARIABLES
  proc,   \* the processes
  sig,    \* SIGCHLD is pending; one bit, however many have exited
  on,     \* the Defer source of Sigchld is enabled
  queue,  \* the notify socket: the pids of the senders
  mem,    \* what the manager holds
  disk,   \* what its committed records hold
  pc,     \* the handler under way
  bound,  \* counters of the bounds
  hist,   \* history variables
  switch  \* the file switch.debug exists

vars == <<proc, sig, on, queue, mem, disk, pc, bound, hist, switch>>

\* cg: the unit whose cgroup it is in, or the manager's own; child: of the manager, or of
\* another process; sent: it has sent READY=1; kept: a committed watch that its unit has not
\* given up; old: it was a zombie when a start cleared the records.
Process == [st : {"free", "run", "zombie"}, cg : Unit \cup {None}, parent : Pid \cup {None},
            sent : BOOLEAN, kept : BOOLEAN, old : BOOLEAN]
Free == [st |-> "free", cg |-> None, parent |-> None, sent |-> FALSE, kept |-> FALSE,
         old |-> FALSE]

\* watch_pids of UnitChildData; pids of UeChild; the main process and READY of the units;
\* told: the processes (still zombies) of whose exit the unit was told.
Held == [watch : [Pid -> Unit \cup {None}], pids : [Unit -> SUBSET Pid],
         main : [Unit -> Pid \cup {None}], ready : SUBSET Unit, told : SUBSET Pid]
Nothing == [watch |-> [p \in Pid |-> None], pids |-> [u \in Unit |-> {}],
            main |-> [u \in Unit |-> None], ready |-> {}, told |-> {}]

\* at: where the manager is; u and p in hand; todo: the pids still to be killed; back: the
\* handler of an exit goes on after a spawn or a kill.
Handler == [at : {"idle", "off", "exit", "unwatch", "reap", "attach", "kill", "popped"},
            u : Unit \cup {None}, p : Pid \cup {None}, new : Pid \cup {None}, todo : Seq(Pid),
            back : BOOLEAN]
Rest == [at |-> "idle", u |-> None, p |-> None, new |-> None, todo |-> <<>>, back |-> FALSE]

\* Every variable has its type.
CTypeOK ==
  /\ proc \in [Pid -> Process] /\ sig \in BOOLEAN /\ on \in BOOLEAN /\ queue \in Seq(Pid)
  /\ mem \in Held /\ disk \in Held /\ pc \in Handler
  /\ bound \in [forks : 0..MaxForks, crashes : 0..MaxCrashes, sent : 0..MaxSent]
  /\ hist \in [popped : SUBSET Pid, leaked : SUBSET Pid] /\ switch \in BOOLEAN

CInit ==
  /\ proc = [p \in Pid |-> Free] /\ sig = FALSE /\ on = FALSE /\ queue = <<>>
  /\ mem = Nothing /\ disk = Nothing /\ pc = Rest
  /\ bound = [forks |-> 0, crashes |-> 0, sent |-> 0]
  /\ hist = [popped |-> {}, leaked |-> {}] /\ switch \in BOOLEAN

Running(p) == proc[p].st = "run"
\* waitid(Id::All, WEXITED | WNOHANG | WNOWAIT)
Zombies == {p \in Pid : proc[p].st = "zombie"}
InCgroup(u) == {p \in Pid : Running(p) /\ proc[p].cg = u}

\* The watches of a process that its own parent reaps stay behind.
Leaks(S) == hist' = [hist EXCEPT !.leaked = @ \cup {p \in S : \E u \in Unit : p \in mem.pids[u] \cup disk.pids[u]}]

\* A process is gone: its orphans become children of the manager (set_child_reaper); it
\* waits for the manager, or its own parent reaps it at once.
ends(P, S) ==
  [p \in Pid |->
     IF p \in S /\ P[p].parent = None THEN [P[p] EXCEPT !.st = "zombie"]
     ELSE IF p \in S THEN Free
     ELSE IF P[p].parent \in S THEN [P[p] EXCEPT !.parent = None]
     ELSE P[p]]
Reported(S) == sig' = (sig \/ \E p \in S : proc[p].parent = None)

-----------------------------------------------------------------------------
(* The processes. *)

\* A free pid.  The kernel goes through all pids before it uses one again: not while the
\* kill loop holds it or a message of its former process waits.
fork(q, cg, parent) ==
  /\ bound.forks < MaxForks /\ proc[q].st = "free" /\ q \notin ToSet(pc.todo) \cup ToSet(queue)
  /\ hist' = [hist EXCEPT !.popped = @ \ {q}]
  /\ proc' = [proc EXCEPT ![q] = [Free EXCEPT !.st = "run", !.cg = cg, !.parent = parent]]
  /\ bound' = [bound EXCEPT !.forks = @ + 1]

ProcFork ==
  /\ \E p, q \in Pid : Running(p) /\ proc[p].cg # None /\ fork(q, proc[p].cg, p)
  /\ UNCHANGED <<sig, on, queue, mem, disk, pc>>

ProcExit ==
  /\ \E p \in Pid :
       /\ Running(p)
       /\ proc' = ends(proc, {p})
       /\ Reported({p})
       /\ IF proc[p].parent # None THEN Leaks({p}) ELSE UNCHANGED hist
  /\ UNCHANGED <<on, queue, mem, disk, pc, bound>>

\* sd_notify("READY=1")
ProcNotify ==
  /\ bound.sent < MaxSent
  /\ \E p \in Pid :
       /\ Running(p) /\ ~ proc[p].sent
       /\ proc' = [proc EXCEPT ![p].sent = TRUE]
       /\ queue' = Append(queue, p)
  /\ bound' = [bound EXCEPT !.sent = @ + 1]
  /\ UNCHANGED <<sig, on, mem, disk, pc, hist>>

-----------------------------------------------------------------------------
(* The table of watched processes and its records. *)

\* add_watch_pid and unwatch_pid of UnitChild, with child_add_pids and child_remove_pids.
add_watch_pid(h, u, p) == [h EXCEPT !.watch[p] = u, !.pids[u] = @ \cup {p}]

\* Mutant: the pid stays in the unit's record.
unwatch_pid_keeping(h, u, p) == [h EXCEPT !.watch[p] = None]

unwatch_pid(h, u, p) == [h EXCEPT !.watch[p] = None, !.pids[u] = @ \ {p}]

\* clear_last_unit and clear_last_frame commit the records.
commit(P, h) ==
  /\ disk' = h
  /\ proc' = [p \in Pid |-> [P[p] EXCEPT !.kept = @ \/ (P[p].st # "free" /\ h.watch[p] # None)]]

\* child_watch_all_pids
child_watch_all_pids(h, u) ==
  [h EXCEPT !.watch = [p \in Pid |-> IF p \in InCgroup(u) THEN u ELSE h.watch[p]],
            !.pids[u] = @ \cup InCgroup(u)]

-----------------------------------------------------------------------------
(* Spawning. *)

\* The fork of ExecSpawn::spawn, for a start or from the handler of an exit.
Spawn(u, at) ==
  \E q \in Pid :
    /\ fork(q, None, None)
    /\ pc' = [at EXCEPT !.at = "attach", !.u = u, !.new = q]
    /\ UNCHANGED <<sig, on, queue, mem, disk>>

StartCall ==
  /\ pc.at = "idle"
  /\ \E u \in Unit : mem.main[u] = None /\ Spawn(u, Rest)

\* cg_attach, which the process may not have waited for; then child_watch_pid, and the unit
\* takes it for its main process.
Resume(h) ==
  IF pc.back THEN /\ pc' = [pc EXCEPT !.at = "unwatch", !.new = None, !.todo = <<>>]
                  /\ UNCHANGED disk
             ELSE pc' = Rest /\ disk' = h

Attached ==
  /\ pc.at = "attach"
  /\ LET h == [add_watch_pid(mem, pc.u, pc.new) EXCEPT !.main[pc.u] = pc.new, !.ready = @ \ {pc.u}]
     IN  /\ mem' = h
         /\ Resume(h)
         /\ proc' = [proc EXCEPT ![pc.new].cg = IF Running(pc.new) THEN pc.u ELSE @,
                                 ![pc.new].kept = ~ pc.back]
  /\ UNCHANGED <<sig, on, queue, bound, hist>>

\* cg_attach fails: the call fails, and the process runs on without an owner.
AttachFails ==
  /\ pc.at = "attach"
  /\ Resume(mem)
  /\ UNCHANGED <<proc, sig, on, queue, mem, bound, hist>>

-----------------------------------------------------------------------------
(* Exits. *)

\* SignalMgr::dispatch_signal
SignalDispatch ==
  /\ pc.at = "idle" /\ sig
  /\ sig' = FALSE /\ on' = TRUE
  /\ UNCHANGED <<proc, queue, mem, disk, pc, bound, hist>>

\* sigchld_dispatch: peek.  With nothing to wait for, the source is turned off after the
\* call has returned.
\* Mutant: without WNOWAIT, so the zombie is gone at once.
Peek_reaping ==
  /\ pc.at = "idle" /\ on
  /\ \/ /\ Zombies = {}
        /\ pc' = [Rest EXCEPT !.at = "off"]
        /\ UNCHANGED proc
     \/ \E p \in Zombies :
          /\ pc' = [Rest EXCEPT !.at = IF mem.watch[p] = None THEN "reap" ELSE "exit",
                                !.u = mem.watch[p], !.p = p]
          /\ proc' = [proc EXCEPT ![p] = Free]
  /\ UNCHANGED <<sig, on, queue, mem, disk, bound, hist>>

Peek ==
  /\ pc.at = "idle" /\ on
  /\ \/ /\ Zombies = {}
        /\ pc' = [Rest EXCEPT !.at = "off"]
     \/ \E p \in Zombies :
          pc' = [Rest EXCEPT !.at = IF mem.watch[p] = None THEN "reap" ELSE "exit",
                             !.u = mem.watch[p], !.p = p]
  /\ UNCHANGED <<proc, sig, on, queue, mem, disk, bound, hist>>

TurnOff ==
  /\ pc.at = "off"
  /\ on' = FALSE /\ pc' = Rest
  /\ UNCHANGED <<proc, sig, queue, mem, disk, bound, hist>>

\* Unit::sigchld_events; the unit may spawn its next command, or end with a kill.
SigchldEvents ==
  /\ pc.at = "exit"
  /\ mem' = [mem EXCEPT !.told = @ \cup {pc.p},
                        !.main[pc.u] = IF @ = pc.p THEN None ELSE @,
                        !.ready = IF mem.main[pc.u] = pc.p THEN @ \ {pc.u} ELSE @]
  /\ pc' = [pc EXCEPT !.at = "unwatch"]
  /\ UNCHANGED <<proc, sig, on, queue, disk, bound, hist>>

NextCommand ==
  /\ pc.at = "unwatch" /\ ~ pc.back /\ mem.main[pc.u] = None
  /\ Spawn(pc.u, [pc EXCEPT !.back = TRUE])

\* child_unwatch_pid and clear_last_unit.
Unwatch ==
  /\ pc.at = "unwatch"
  /\ mem' = unwatch_pid(mem, pc.u, pc.p)
  /\ commit(proc, unwatch_pid(mem, pc.u, pc.p))
  /\ pc' = [Rest EXCEPT !.at = "reap", !.p = pc.p]
  /\ UNCHANGED <<sig, on, queue, bound, hist>>

Reap ==
  /\ pc.at = "reap"
  /\ proc' = [proc EXCEPT ![pc.p] = Free]
  /\ mem' = [mem EXCEPT !.told = @ \ {pc.p}]
  /\ disk' = [disk EXCEPT !.told = @ \ {pc.p}]
  /\ pc' = Rest
  /\ UNCHANGED <<sig, on, queue, bound, hist>>

-----------------------------------------------------------------------------
(* Notifications. *)

\* notify_dispatch: peek the sender, find its unit, pop the message.
notify_peek_pid == Head(queue)

NotifyPop ==
  /\ pc.at = "idle" /\ queue # <<>>
  /\ LET p == notify_peek_pid
     IN  pc' = IF mem.watch[p] = None THEN pc
               ELSE [Rest EXCEPT !.at = "popped", !.u = mem.watch[p], !.p = p]
  /\ queue' = Tail(queue)
  /\ UNCHANGED <<proc, sig, on, mem, disk, bound, hist>>

\* Unit::notify_message, clear_last_unit.
NotifyMessage ==
  /\ pc.at = "popped"
  /\ mem' = [mem EXCEPT !.ready = IF mem.main[pc.u] = pc.p THEN @ \cup {pc.u} ELSE @]
  /\ commit(proc, mem')
  /\ pc' = Rest
  /\ UNCHANGED <<sig, on, queue, bound, hist>>

-----------------------------------------------------------------------------
(* Killing. *)

\* enter_signal: watch all, kill the main process, read the cgroup.
kill_context(u, at) ==
  LET m == mem.main[u]
      dead == IF m # None /\ Running(m) THEN {m} ELSE {}
  IN  /\ mem' = child_watch_all_pids(mem, u)
      /\ proc' = ends(proc, dead)
      /\ Reported(dead)
      /\ \E s \in SetToSeqs(InCgroup(u) \ {m}) :
           pc' = [at EXCEPT !.at = "kill", !.u = u, !.todo = s]
      /\ UNCHANGED <<on, queue, disk, bound, hist>>

StopCall == pc.at = "idle" /\ \E u \in Unit : mem.main[u] # None /\ kill_context(u, Rest)

StopOnExit ==
  /\ pc.at = "unwatch" /\ ~ pc.back
  /\ kill_context(pc.u, [pc EXCEPT !.back = TRUE])

\* cg_kill_process: one pid; a pid that is gone ends the loop.
KillOne ==
  /\ pc.at = "kill" /\ pc.todo # <<>>
  /\ LET p == Head(pc.todo)
     IN  IF proc[p].st = "free"
         THEN pc' = [pc EXCEPT !.todo = <<>>] /\ UNCHANGED <<proc, sig, hist>>
         ELSE LET dead == IF Running(p) THEN {p} ELSE {}
              IN  /\ pc' = [pc EXCEPT !.todo = Tail(@)]
                  /\ proc' = ends(proc, dead)
                  /\ Reported(dead)
                  /\ IF dead # {} /\ proc[p].parent # None THEN Leaks(dead) ELSE UNCHANGED hist
  /\ UNCHANGED <<on, queue, mem, disk, bound>>

\* The rest of the stop in one step: in the code enter_signal ends the call, and the unit
\* lets go of its main process in enter_dead (unwatch_main), at the latest when the exit of
\* the last process is told to it.
KillDone ==
  /\ pc.at = "kill" /\ pc.todo = <<>>
  /\ LET m == mem.main[pc.u]
         h == IF m = None THEN mem
              ELSE [unwatch_pid(mem, pc.u, m) EXCEPT !.main[pc.u] = None, !.ready = @ \ {pc.u}]
         given == IF m = None THEN proc ELSE [proc EXCEPT ![m].kept = FALSE]
     IN  /\ mem' = h
         /\ IF pc.back THEN /\ pc' = [pc EXCEPT !.at = "unwatch"]
                            /\ proc' = given /\ UNCHANGED disk
                       ELSE pc' = Rest /\ commit(given, h)
  /\ UNCHANGED <<sig, on, queue, bound, hist>>

-----------------------------------------------------------------------------
(* Restarts. *)

\* setup_cgroup, at every start: what is left in the manager's own cgroup is killed, a
\* process that was not attached yet and one whose cg_attach failed.
setup_cgroup == ends(proc, {p \in Pid : Running(p) /\ proc[p].cg = None})

\* db_map of UnitChildData, UeChild and the units.  A pid in two records goes to either.
\* Mutant: the table is not rebuilt.
db_map_empty(h) == {Nothing.watch}

db_map(h) ==
  {w \in [Pid -> Unit \cup {None}] :
     \A p \in Pid : IF \A u \in Unit : p \notin h.pids[u] THEN w[p] = None
                    ELSE w[p] # None /\ p \in h.pids[w[p]]}

\* input_rebuild enables the source.
\* Mutant: it does not.
input_rebuild_off == FALSE

input_rebuild == TRUE

\* recover(), with the switch.
Recover ==
  /\ switch
  /\ \E w \in db_map(disk) : mem' = [disk EXCEPT !.watch = w]
  /\ on' = input_rebuild
  /\ proc' = setup_cgroup
  /\ UNCHANGED <<queue, disk>>

\* Without it debug_clear_restore() comes first: startup finds no records, registers the
\* source of Sigchld without enabling it, and opens a new notify socket at the same path.
ClearedStart ==
  /\ ~ switch
  /\ mem' = Nothing /\ disk' = Nothing
  /\ on' = FALSE
  /\ LET P == setup_cgroup
     IN  proc' = [p \in Pid |-> [P[p] EXCEPT !.kept = FALSE, !.old = (P[p].st = "zombie")]]
  /\ queue' = <<>>

\* The end of one execution and the start of the next.  Whether a pending SIGCHLD survives
\* depends on exec() of the standard library, which may empty the signal mask.
Crash ==
  /\ bound.crashes < MaxCrashes
  /\ Recover \/ ClearedStart
  /\ sig' \in {sig, FALSE}
  /\ pc' = Rest
  /\ bound' = [bound EXCEPT !.crashes = @ + 1]
  /\ hist' = [hist EXCEPT !.popped = IF pc.at = "popped" THEN @ \cup {pc.p} ELSE @]

-----------------------------------------------------------------------------
Environment == ProcFork \/ ProcExit \/ ProcNotify \/ StartCall \/ StopCall \/ Crash

\* The rest of a handler, and the three sources.
Handle ==
  \/ Attached \/ AttachFails \/ TurnOff \/ SigchldEvents \/ NextCommand \/ Unwatch \/ Reap
  \/ NotifyMessage \/ StopOnExit \/ KillOne \/ KillDone

CNext ==
  /\ Environment \/ Handle \/ SignalDispatch \/ Peek \/ NotifyPop
  /\ UNCHANGED switch

CSpec == CInit /\ [][CNext]_vars

-----------------------------------------------------------------------------
(* Properties. *)

\* A process the manager reaps is one nobody waits for: its unit was told of the exit, and
\* that is in the committed records, or no committed watch of it was left; so no crash
\* loses an exit (sigchld_dispatch peeks, tells, commits, and reaps last).
ExitTold ==
  [][\A p \in Pid : proc[p].st = "zombie" /\ proc'[p].st = "free" /\ proc[p].kept => p \in disk.told]_vars

\* The pid a unit takes for its main process, and would kill, is watched for it and is that
\* process, not a later one with the same pid, before and after a crash.  Left out: pids
\* whose watch outlived a process that its own parent had reaped.
MainIsOurs ==
  \A u \in Unit : LET p == mem.main[u] IN
    p # None /\ p \notin hist.leaked =>
      mem.watch[p] = u /\ proc[p].st # "free" /\ (Running(p) => proc[p].cg = u)

\* READY=1 of the main process reaches its unit: sent before the watch was added, while
\* another handler ran, or before a crash; unless the crash came between the pop of the
\* message and the commit of what it did (notify_dispatch).
ReadySeen ==
  \A u \in Unit : LET p == mem.main[u] IN
    /\ pc.at = "idle" /\ p # None /\ p \notin hist.leaked \cup hist.popped
    /\ proc[p].sent /\ p \notin ToSet(queue)
    => u \in mem.ready

\* No zombie goes unnoticed: while there is one, SIGCHLD is pending or the source is on and
\* will look again: when several exits share one signal, when one comes while the source is
\* being turned off, and after a recovery with the signal already taken (dispatch_signal,
\* the result of sigchld_dispatch, input_rebuild).  Left out: the zombies that a start which
\* cleared the records found there; nothing looks for those before the next exit.
ZombieNoticed ==
  (\E p \in Zombies : ~ proc[p].old) => sig \/ (on /\ pc.at # "off")
=============================================================================
