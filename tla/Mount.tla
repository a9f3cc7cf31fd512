------------------------------- MODULE Mount -------------------------------
(***************************************************************************)
(* Mount units (coms/mount): the monitor of /proc/self/mountinfo, which    *)
(* loads a unit for every mount point it finds and starts and stops the    *)
(* units after the table, past the job engine; with the loading of units   *)
(* it goes through, and the restarts of the manager.                       *)
(*                                                                         *)
(* The kernel may change the table at any point of the monitor's work.     *)
(* Loads are not interleaved with such changes: what the monitor reads     *)
(* does not depend on when during a load the change came.                  *)
(***************************************************************************)
EXTENDS UnitLoad

CONSTANTS
  Point,      \* the mount points, autofs left out
  PointName   \* mount_point_to_unit_name, which is not injective: /a/b and /a-b

ASSUME MountAssumption ==
  /\ PointName \in [Point -> Name] /\ \A p \in Point : Type[PointName[p]] = "mount"

VARIABLES
  mnt,      \* the mounted points
  pend,     \* the edge-triggered event of the table
  defer,    \* the monitor's Defer source is enabled
  mon,      \* the monitor: what it read, what it still has to do
  act,      \* the mount units in state Mounted; recorded at each change
  byhand    \* history variable: units the administrator started or stopped since

mvars == <<mnt, pend, defer, mon, act, byhand>>
allvars == <<ivars, uvars, mvars>>

MountName == {PointName[p] : p \in Point}
MonIdle == [ph |-> "idle", dead |-> {}, todo |-> {}]

MTypeOK ==
  /\ mnt \subseteq Point /\ pend \in BOOLEAN /\ defer \in BOOLEAN
  /\ mon \in [ph : {"idle", "read", "start", "stop"}, dead : SUBSET MountName, todo : SUBSET MountName]
  /\ act \subseteq MountName /\ byhand \subseteq MountName

\* The monitor's descriptor is registered edge-triggered, and is ready at once.
MInit ==
  /\ UInit
  /\ mnt = {} /\ pend = TRUE /\ defer = FALSE /\ mon = MonIdle /\ act = {} /\ byhand = {}

\* Counted with the commands: together they are bounded by MaxCmds.
Move == Command /\ UNCHANGED <<links, disabled>>

\* The kernel.
KernelMount ==
  /\ Idle /\ Move
  /\ \E p \in Point : mnt' = IF p \in mnt THEN mnt \ {p} ELSE mnt \cup {p}
  /\ pend' = TRUE
  /\ UNCHANGED <<uvars, defer, mon, act, byhand>>

\* A job on the unit: MountUnit::start and stop only set the state.
ByHand ==
  /\ Settled /\ mon.ph = "idle" /\ Move
  /\ \E n \in MountName \cap m.units :
       /\ m.state[n] = "UnitLoaded"
       /\ act' = IF n \in act THEN act \ {n} ELSE act \cup {n}
       /\ byhand' = byhand \cup {n}
  /\ UNCHANGED <<uvars, mnt, pend, defer, mon>>

\* MountMonitorIo::dispatch drains the descriptor before it reads the table.
MonitorIo ==
  /\ Settled /\ mon.ph = "idle" /\ pend
  /\ pend' = FALSE
  /\ mon' = [mon EXCEPT !.ph = "read", !.dead = act]
  /\ UNCHANGED <<ivars, uvars, mnt, defer, act, byhand>>

MonitorDefer ==
  /\ Settled /\ mon.ph = "idle" /\ defer
  /\ defer' = FALSE
  /\ mon' = [mon EXCEPT !.ph = "read", !.dead = act]
  /\ UNCHANGED <<ivars, uvars, mnt, pend, act, byhand>>

\* dispatch_mountinfo.
ReadTable ==
  /\ mon.ph = "read"
  /\ mon' = [mon EXCEPT !.ph = "start", !.todo = {PointName[p] : p \in mnt}]
  /\ UNCHANGED <<ivars, uvars, mnt, pend, defer, act, byhand>>

\* A unit that is not loaded is loaded first, which runs the load queue.
KnownPoint ==
  /\ mon.ph = "start"
  /\ \E n \in mon.todo \cap mon.dead :
       mon' = [mon EXCEPT !.dead = @ \ {n}, !.todo = @ \ {n}]
  /\ UNCHANGED <<ivars, uvars, mnt, pend, defer, act, byhand>>

LoadPoint ==
  /\ mon.ph = "start" /\ \E n \in mon.todo \ mon.dead : LoadUnit(n)
  /\ UNCHANGED <<ivars, mvars>>

\* Unit::start of a unit that is loaded and not active.
StartPoint ==
  /\ Idle /\ mon.ph = "start"
  /\ \E n \in (mon.todo \ mon.dead) \cap m.units :
       /\ act' = IF m.state[n] = "UnitLoaded" THEN act \cup {n} ELSE act
       /\ mon' = [mon EXCEPT !.todo = @ \ {n}]
  /\ commit(m)
  /\ UNCHANGED <<ivars, m, stack, last, hist, crashes, mnt, pend, defer, byhand>>

AllStarted ==
  /\ Idle /\ mon.ph = "start" /\ mon.todo = {}
  /\ mon' = [mon EXCEPT !.ph = "stop"]
  /\ UNCHANGED <<ivars, uvars, mnt, pend, defer, act, byhand>>

StopPoint ==
  /\ mon.ph = "stop"
  /\ \E n \in mon.dead : act' = act \ {n} /\ mon' = [mon EXCEPT !.dead = @ \ {n}]
  /\ UNCHANGED <<ivars, uvars, mnt, pend, defer, byhand>>

\* The end; MountMonitorIo turns the Defer source off.
\* Mutant: the descriptor is drained after the work.
MonitorDone_drain ==
  /\ mon.ph = "stop" /\ mon.dead = {}
  /\ mon' = MonIdle /\ defer' = FALSE /\ byhand' = {} /\ pend' = FALSE
  /\ UNCHANGED <<ivars, uvars, mnt, act>>

MonitorDone ==
  /\ mon.ph = "stop" /\ mon.dead = {}
  /\ mon' = MonIdle /\ defer' = FALSE /\ byhand' = {}
  /\ UNCHANGED <<ivars, uvars, mnt, pend, act>>

\* A new process has a new descriptor; input_rebuild enables the Defer source.
MCrash ==
  /\ CrashRecover
  /\ pend' = TRUE /\ defer' = TRUE /\ mon' = MonIdle
  /\ UNCHANGED <<mnt, act, byhand>>

MReload ==
  /\ mon.ph = "idle" /\ Reload
  /\ defer' = TRUE
  /\ UNCHANGED <<mnt, pend, mon, act, byhand>>

MNext ==
  \/ mon.ph = "idle" /\ Begin /\ UNCHANGED <<ivars, mvars>>
  \/ Continue /\ UNCHANGED <<ivars, mvars>>
  \/ mon.ph = "idle" /\ FileCommand /\ UNCHANGED mvars
  \/ KernelMount \/ ByHand \/ MonitorIo \/ MonitorDefer \/ ReadTable \/ KnownPoint \/ LoadPoint
  \/ StartPoint \/ AllStarted \/ StopPoint \/ MonitorDone \/ MCrash \/ MReload

MSpec == MInit /\ [][MNext]_allvars

-----------------------------------------------------------------------------
\* Once no event of the table is pending and the monitor rests, a mount unit is Mounted
\* exactly when one of its points is, whatever the kernel changed while the monitor
\* worked and wherever a crash cut it (drain_out before dispatch_mountinfo, the dead
\* set, input_rebuild); a unit the administrator touched since is left out.
MountInSync ==
  Idle /\ mon.ph = "idle" /\ ~ pend =>
    \A n \in MountName \ byhand : n \in act <=> \E p \in mnt : PointName[p] = n
=============================================================================
