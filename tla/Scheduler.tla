----------------------------- MODULE Scheduler -----------------------------
(***************************************************************************)
(* What the users of the event library may rely on: call-backs run one at  *)
(* a time, a call-back runs only while its source is enabled, a OneShot    *)
(* source is off before its call-back runs, and after the exit of the loop *)
(* nothing runs any more.  EventLoop is shown to implement this.           *)
(***************************************************************************)
CONSTANTS Source, Nobody

VARIABLES enabled,   \* the state of each source, "Off" when it is unknown
          running,   \* the source whose call-back runs, or Nobody
          ended      \* the loop has left

svars == <<enabled, running, ended>>

\* Before the loop starts, main registers its sources as if it were a call-back.
SInit ==
    /\ enabled = [s \in Source |-> "Off"]
    /\ running = Nobody
    /\ ended = FALSE

\* The loop calls an enabled source; a OneShot source is switched off first.
Begin(s) ==
    /\ running = Nobody
    /\ ~ended
    /\ enabled[s] # "Off"
    /\ running' = s
    /\ enabled' = [enabled EXCEPT ![s] = IF @ = "OneShot" THEN "Off" ELSE @]
    /\ UNCHANGED ended

Finish ==
    /\ running # Nobody
    /\ running' = Nobody
    /\ UNCHANGED <<enabled, ended>>

\* Sources are enabled and disabled one at a time, and never by the loop itself.
Change(s) ==
    /\ \E st \in {"Off", "On", "OneShot"} : enabled' = [enabled EXCEPT ![s] = st]
    /\ UNCHANGED <<running, ended>>

\* The loop ends when it is asked to, or with the process.
Leave ==
    /\ ended' = TRUE
    /\ UNCHANGED <<enabled, running>>

\* After the end the sources are released.
Release ==
    /\ ended
    /\ enabled' = [s \in Source |-> "Off"]
    /\ running' = Nobody
    /\ UNCHANGED ended

SNext ==
    \/ \E s \in Source : Begin(s) \/ Change(s)
    \/ Finish
    \/ Leave
    \/ Release

SSpec == SInit /\ [][SNext]_svars
=============================================================================
