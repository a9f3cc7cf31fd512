----------------------------- MODULE EventLoop -----------------------------
(***************************************************************************)
(* libs/event: the loop that every daemon of sysmaster runs in its only    *)
(* thread.  The record e is EventsData; its methods are functions from     *)
(* such a record to the next one.  One round of rloop() is prepare, wait   *)
(* when nothing is pending, dispatch of one source.  A call-back is user   *)
(* code: it may add, delete, enable and disable any source.                *)
(*                                                                         *)
(* Time: a heap entry holds the time left until its deadline, so that      *)
(* nothing grows as time passes.  Every source is level-triggered          *)
(* (EPOLLIN), as all sources in this repository are.  The types Child and  *)
(* Inotify, which no program here uses, and the types whose source_online  *)
(* is a todo!() are left out.                                              *)
(*                                                                         *)
(* e.dropped is history: the timers whose entries went when another timer  *)
(* was removed (timer_remove).                                             *)
(***************************************************************************)
EXTENDS Integers, FiniteSets

CONSTANTS
    Source,      \* the event sources of the program
    Nobody,      \* no source
    Type,        \* Source -> EventType
    Prio,        \* Source -> Int, smaller is more urgent
    Delay,       \* time_relative() of the timers
    Modes,       \* Source -> the states its owner enables it with
    MaxPending,  \* copies of one source in pending that are told apart
    MaxEqual     \* entries of one source with the same deadline that are told apart

VARIABLES
    e,       \* EventsData
    pc,      \* where rloop() is
    top,     \* the source in dispatch()
    again,   \* it is a Defer source that was On
    ready,   \* file descriptors with something to read (the kernel's side)
    over     \* the loop left by exit, or the process by a panic

vars == <<e, pc, top, again, ready, over>>

TimerType == {"TimerRealtime", "TimerMonotonic"}
IoType == {"Io", "Signal"}
EventType == TimerType \cup IoType \cup {"Defer"}
EventState == {"On", "Off", "OneShot"}

OfType(T) == {s \in Source : Type[s] \in T}
Left == 0 .. CHOOSE n \in {Delay[s] : s \in Source} : \A s \in Source : Delay[s] <= n

ASSUME EventLoopAssumption ==
    /\ Nobody \notin Source
    /\ Type \in [Source -> EventType]
    /\ Prio \in [Source -> Int]
    /\ Delay \in [Source -> Nat \ {0}]
    /\ \E s \in Source : \A x \in Source : Delay[x] <= Delay[s]  \* there are finitely many
    /\ Modes \in [Source -> SUBSET {"On", "OneShot"}]
    /\ MaxPending \in Nat \ {0} /\ MaxEqual \in Nat \ {0}

-----------------------------------------------------------------------------
\* The data of the loop. state has "None" for a source that is not registered.

NewEvents ==
    [sources |-> {}, defer_sources |-> {},
     state |-> [s \in Source |-> "None"],
     pending |-> [s \in Source |-> 0],
     heap |-> [s \in Source |-> [l \in Left |-> 0]],
     timerfd |-> {}, polled |-> {}, exit |-> FALSE, err |-> FALSE,
     dropped |-> {}]

upto(max, n) == IF n > max THEN max ELSE n
more(n, k) == upto(MaxPending, n + k)

pending_push(ev, s) == [ev EXCEPT !.pending[s] = more(@, 1)]

pending_is_empty(ev) == \A s \in Source : ev.pending[s] = 0

\* Mutant: the order of the heap is not reversed.
pending_top_reversed(ev) ==
    {s \in Source : /\ ev.pending[s] > 0
                    /\ \A x \in Source : ev.pending[x] > 0 => Prio[s] >= Prio[x]}

\* BinaryHeap::pop: a source of the most urgent priority, any of them.
pending_top(ev) ==
    {s \in Source : /\ ev.pending[s] > 0
                    /\ \A x \in Source : ev.pending[x] > 0 => Prio[s] <= Prio[x]}

-----------------------------------------------------------------------------
\* Timers: one heap for each clock, all of them in e.heap.

timer_push(ev, s) ==
    [ev EXCEPT !.heap[s][Delay[s]] = upto(MaxEqual, @ + 1), !.dropped = @ \ {s}]

timer_is_empty(ev, c) == \A s \in OfType({c}), l \in Left : ev.heap[s][l] = 0

\* TimerInner::remove keeps the entries whose source compares unequal, and
\* sources are compared by priority: the other timers of that clock and priority
\* go with s.
alike(x, s) == Type[x] = Type[s] /\ Prio[x] = Prio[s]

timer_remove(ev, s) ==
    [ev EXCEPT !.heap = [x \in Source |-> IF alike(x, s) THEN [l \in Left |-> 0] ELSE @[x]],
               !.dropped = (@ \ {s}) \cup
                   {x \in Source \ {s} : alike(x, s) /\ \E l \in Left : ev.heap[x][l] > 0}]

\* Mutant: the entry that is not due is taken off the heap before it is compared.
timer_pop_ahead(ev, c) ==
    [ev EXCEPT !.pending = [s \in Source |-> IF Type[s] = c THEN more(@[s], ev.heap[s][0]) ELSE @[s]],
               !.heap = [s \in Source |-> IF Type[s] = c THEN [l \in Left |-> 0] ELSE @[s]]]

\* The timers of clock c that are due become pending.
timer_pop(ev, c) ==
    [ev EXCEPT !.pending = [s \in Source |-> IF Type[s] = c THEN more(@[s], ev.heap[s][0]) ELSE @[s]],
               !.heap = [s \in Source |-> IF Type[s] = c THEN [@[s] EXCEPT ![0] = 0] ELSE @[s]]]

timer_due(ev, c) == \E s \in OfType({c}) : ev.heap[s][0] > 0

\* clock_gettime has gone on by one unit.
timer_advance(h) ==
    [s \in Source |-> [l \in Left |-> IF l = 0 THEN upto(MaxEqual, h[s][0] + h[s][1])
                                      ELSE IF l + 1 \in Left THEN h[s][l + 1] ELSE 0]]

-----------------------------------------------------------------------------
\* Sources. A method that returns an error sets err; its callers unwrap() it.

fail(ev) == [ev EXCEPT !.err = TRUE]

\* EPOLL_CTL_ADD refuses a descriptor that is registered (EEXIST), DEL one that is not.
register(ev, s) ==
    IF s \in ev.polled THEN fail(ev) ELSE [ev EXCEPT !.polled = @ \cup {s}]
unregister(ev, s) ==
    IF s \in ev.polled THEN [ev EXCEPT !.polled = @ \ {s}] ELSE fail(ev)

add_source(ev, s) ==
    [ev EXCEPT !.sources = IF Type[s] \in IoType THEN @ \cup {s} ELSE @,
               !.defer_sources = IF Type[s] = "Defer" THEN @ \cup {s} ELSE @,
               !.state[s] = "Off"]

source_online(ev, s) ==
    CASE Type[s] \in IoType -> register(ev, s)
      [] Type[s] \in TimerType -> timer_push([ev EXCEPT !.timerfd = @ \cup {Type[s]}], s)
      [] Type[s] = "Defer" -> pending_push(ev, s)

timer_offline(ev, s) ==
    LET removed == timer_remove(ev, s)
    IN  IF timer_is_empty(removed, Type[s])
        THEN [removed EXCEPT !.timerfd = @ \ {Type[s]}] ELSE removed

source_offline(ev, s) ==
    IF ev.state[s] \in {"None", "Off"} THEN ev
    ELSE CASE Type[s] \in IoType -> unregister(ev, s)
           [] Type[s] \in TimerType -> timer_offline(ev, s)
           [] Type[s] = "Defer" -> ev

\* The state is renewed only when the change succeeded.
set_enabled(ev, s, st) ==
    LET changed == IF st = "Off" THEN source_offline(ev, s) ELSE source_online(ev, s)
    IN  IF changed.err THEN changed ELSE [changed EXCEPT !.state[s] = st]

\* The copies in pending are left where they are.
del_source(ev, s) ==
    LET gone == source_offline(ev, s)
    IN  IF gone.err \/ (Type[s] = "Defer" /\ s \notin gone.defer_sources) THEN fail(gone)
        ELSE [gone EXCEPT !.sources = @ \ {s}, !.defer_sources = @ \ {s}, !.state[s] = "None"]

-----------------------------------------------------------------------------
\* The rounds of the loop.

poll(ev) == ev.polled \cap ready

\* wait(): the readable sources that are still known, then the timers that are due.
\* An interrupted epoll_wait, and a return for a descriptor whose timer is gone, come
\* back to rloop() with nothing pending; both are the Wait that has not happened yet.
\* A read of an open timerfd fails with EAGAIN or EINTR only, so flush_timer is true.
wait(ev) ==
    LET seen == [ev EXCEPT !.pending = [s \in Source |->
                    IF s \in poll(ev) \cap ev.sources THEN more(@[s], 1) ELSE @[s]]]
    IN  timer_pop(timer_pop(seen, "TimerRealtime"), "TimerMonotonic")

EInit ==
    /\ e = NewEvents
    /\ pc = "setup"
    /\ top = Nobody
    /\ again = FALSE
    /\ ready = {}
    /\ over = FALSE

\* prepare(): due timers become pending; if anything is pending, the descriptors
\* are looked at without sleeping.
prepare(ev) ==
    LET p == timer_pop(timer_pop(ev, "TimerRealtime"), "TimerMonotonic")
    IN  IF pending_is_empty(p) THEN p ELSE wait(p)

Run ==
    /\ pc = "run"
    /\ IF e.exit
       THEN /\ over' = TRUE
            /\ pc' = "left"
            /\ UNCHANGED e
       ELSE /\ e' = prepare(e)
            /\ pc' = IF pending_is_empty(prepare(e)) THEN "wait" ELSE "dispatch"
            /\ UNCHANGED over
    /\ UNCHANGED <<top, again, ready>>

\* epoll_wait(-1) returns when a descriptor is readable; the timer descriptors
\* were set to the next deadline by prepare().
Wait ==
    /\ pc = "wait"
    /\ poll(e) # {} \/ \E c \in e.timerfd : timer_due(e, c)
    /\ e' = wait(e)
    /\ pc' = "dispatch"
    /\ UNCHANGED <<top, again, ready, over>>

pending_pop(s) == [e EXCEPT !.pending[s] = @ - 1]

\* The source is called. What it had to read is read.
call(s) ==
    /\ e' = IF e.state[s] = "OneShot" THEN set_enabled(pending_pop(s), s, "Off") ELSE pending_pop(s)
    /\ pc' = "callback"
    /\ top' = s
    /\ again' = (e.state[s] = "On" /\ Type[s] = "Defer")
    /\ ready' = ready \ {s}
    /\ UNCHANGED over

\* source_state(&top).unwrap(): the source was deleted while it was pending.
unwrap_state(s) ==
    /\ e.state[s] = "None"
    /\ e' = pending_pop(s)
    /\ over' = TRUE
    /\ pc' = "panic"
    /\ UNCHANGED <<top, again, ready>>

skip(s) ==
    /\ e.state[s] = "Off"
    /\ e' = pending_pop(s)
    /\ pc' = "run"
    /\ UNCHANGED <<top, again, ready, over>>

\* Mutant: a source is called although it was disabled while it was pending.
dispatch_whatever_state(s) == e.state[s] # "None" /\ call(s)

dispatch(s) ==
    \/ unwrap_state(s)
    \/ skip(s)
    \/ e.state[s] \in {"On", "OneShot"} /\ call(s)

Dispatch ==
    /\ pc = "dispatch"
    /\ IF pending_is_empty(e)
       THEN pc' = "run" /\ UNCHANGED <<e, top, again, ready, over>>
       ELSE \E s \in pending_top(e) : dispatch(s)

\* The call-back returns; a Defer source that was On is queued again, whatever
\* its call-back did to it.
Return ==
    /\ pc \in {"setup", "callback"}
    /\ e' = IF again THEN pending_push(e, top) ELSE e
    /\ pc' = "run"
    /\ top' = Nobody
    /\ again' = FALSE
    /\ UNCHANGED <<ready, over>>

-----------------------------------------------------------------------------
\* What user code does, from main before the loop or from a call-back. An error
\* is unwrapped.

Use(ev) ==
    /\ pc \in {"setup", "callback"}
    /\ e' = ev
    /\ over' = ev.err
    /\ pc' = IF ev.err THEN "panic" ELSE pc
    /\ UNCHANGED <<top, again, ready>>

AddSource(s) == e.state[s] = "None" /\ Use(add_source(e, s))

\* A descriptor is enabled when it is off; timers and Defer sources at any time.
Enable(s) ==
    /\ e.state[s] # "None"
    /\ Type[s] \in IoType => e.state[s] = "Off"
    /\ \E st \in Modes[s] : Use(set_enabled(e, s, st))

Disable(s) == e.state[s] # "None" /\ Use(set_enabled(e, s, "Off"))

DelSource(s) == e.state[s] # "None" /\ Use(del_source(e, s))

SetExit == Use([e EXCEPT !.exit = TRUE])

\* clear(), when the Events are dropped after the loop.
Clear ==
    /\ pc = "left"
    /\ e' = [NewEvents EXCEPT !.polled = e.polled, !.heap = e.heap, !.exit = e.exit,
                            !.dropped = e.dropped]
    /\ pc' = "cleared"
    /\ UNCHANGED <<top, again, ready, over>>

-----------------------------------------------------------------------------
\* The kernel: a descriptor becomes readable, time goes by.

Readable(s) ==
    /\ Type[s] \in IoType
    /\ s \notin ready
    /\ ready' = ready \cup {s}
    /\ UNCHANGED <<e, pc, top, again, over>>

Tick ==
    /\ \E s \in Source, l \in Left \ {0} : e.heap[s][l] > 0
    /\ e' = [e EXCEPT !.heap = timer_advance(@)]
    /\ UNCHANGED <<pc, top, again, ready, over>>

Loop == Run \/ Wait \/ Dispatch \/ Return
User == \/ \E s \in Source : AddSource(s) \/ Enable(s) \/ Disable(s) \/ DelSource(s)
        \/ SetExit
Kernel == (\E s \in Source : Readable(s)) \/ Tick

ENext == Loop \/ User \/ Clear \/ Kernel

\* The thread runs, and a call-back returns, whatever it did before.
EFairness == WF_vars(Run) /\ WF_vars(Wait) /\ WF_vars(Dispatch) /\ SF_vars(Return)

ESpec == EInit /\ [][ENext]_vars /\ EFairness

-----------------------------------------------------------------------------
\* Properties.

\* EventsData and the loop keep their types; outside a call-back no source is
\* being called, and only a panic leaves an error behind.
ETypeOK ==
    /\ e.sources \subseteq OfType(IoType)
    /\ e.defer_sources \subseteq OfType({"Defer"})
    /\ e.state \in [Source -> EventState \cup {"None"}]
    /\ e.pending \in [Source -> 0 .. MaxPending]
    /\ e.heap \in [Source -> [Left -> 0 .. MaxEqual]]
    /\ e.timerfd \subseteq TimerType
    /\ e.polled \subseteq OfType(IoType)
    /\ e.exit \in BOOLEAN
    /\ e.dropped \subseteq OfType(TimerType)
    /\ e.err => pc = "panic"
    /\ pc \in {"setup", "run", "wait", "dispatch", "callback", "left", "cleared", "panic"}
    /\ pc = "callback" => top \in Source

\* A timer that waits (OneShot) has its entry in the heap of its clock or is pending.
TimerWaits(s) ==
    e.state[s] = "OneShot" => e.pending[s] > 0 \/ \E l \in Left : e.heap[s][l] > 0

\* A timer is lost in one way only: another timer of its clock and its priority was
\* removed, by its owner or because it fired, and TimerInner::remove took both
\* (timer.rs:225).  Enabling, firing, disabling and deleting the other sources loses no
\* timer, and the descriptor that prepare() and flush_timer() unwrap exists.
TimersKept ==
    /\ \A s \in OfType(TimerType) \ e.dropped : TimerWaits(s)
    /\ \A c \in TimerType : c \in e.timerfd \/ timer_is_empty(e, c) \/ over

\* No timer is lost at all: false with equal priorities (timers_dropped.cfg), which is
\* what all timers of one clock have in this repository (source.rs:70).
NoTimerDropped == \A s \in OfType(TimerType) : TimerWaits(s)

\* A descriptor is watched by epoll exactly as long as its source is enabled, so
\* enabling a source that is off and disabling one that is on never fail.
WatchedWhileEnabled ==
    over \/ e.polled = {s \in OfType(IoType) : e.state[s] \in {"On", "OneShot"}}

\* What the loop keeps for its sources stays with them, whatever the call-backs of other
\* sources do: descriptors in epoll, and timers in their heap until a timer that compares
\* equal is removed.
SourcesKept == TimersKept /\ WatchedWhileEnabled

\* The loop does not sleep over a source: an enabled source that is readable is
\* called, or disabled, or one that is at least as urgent is called first.
Served ==
    \A s \in OfType(IoType) :
        (s \in ready /\ e.state[s] \in {"On", "OneShot"} /\ pc = "run")
            ~> \/ over
               \/ e.state[s] \notin {"On", "OneShot"}
               \/ pc = "callback" /\ Prio[top] <= Prio[s]

\* The loop is a scheduler as its users expect it.
Users == INSTANCE Scheduler WITH
    enabled <- [s \in Source |-> IF e.state[s] = "None" THEN "Off" ELSE e.state[s]],
    running <- IF pc = "callback" THEN top ELSE Nobody,
    ended <- over

IsScheduler == Users!SSpec
=============================================================================
