---------------------------- MODULE LibraryProofs -----------------------------
(***************************************************************************)
(* Proofs about EventLoop, for any sources, priorities, delays and bounds: *)
(* the loop implements Scheduler, and what it keeps for its sources stays  *)
(* with them.                                                              *)
(*                                                                         *)
(* The invariant is the type of EventsData, where the loop is, and what    *)
(* the methods rely on: epoll watches exactly the enabled descriptors, so  *)
(* no method called on a registered source fails, no error is unwrapped,   *)
(* and a OneShot source is really off when its call-back begins.  A timer  *)
(* that waits and is not due again was dropped by TimerInner::remove with  *)
(* another timer of its priority, and in no other way.                     *)
(*                                                                         *)
(* Proofs about Reliability, for any units and descriptors and any number  *)
(* of crashes, events and nested frames: the tables answer what a commit   *)
(* would leave in the database, no descriptor outlives its port, and only  *)
(* what was interrupted is run again.                                      *)
(*                                                                         *)
(* The first is an invariant of the three copies of ReDb by itself.  The   *)
(* second is not inductive: a descriptor that lost its mark in a recovery  *)
(* is kept by a port whose record is on disk and would be written again by *)
(* every later commit, and before the first recovery no mark is lost.  The *)
(* third needs how the frames nest (FrameInv): the last unit on disk is    *)
(* that of the innermost frame with a unit, so a crash finds on disk what  *)
(* it interrupted.                                                         *)
(***************************************************************************)
EXTENDS EventLoop, Reliability, TLAPS

\* EventsData as a record.
Events ==
  [sources : SUBSET OfType(IoType), defer_sources : SUBSET OfType({"Defer"}),
   state : [Source -> EventState \cup {"None"}], pending : [Source -> 0 .. MaxPending],
   heap : [Source -> [Left -> 0 .. MaxEqual]], timerfd : SUBSET TimerType,
   polled : SUBSET OfType(IoType), exit : BOOLEAN, err : BOOLEAN,
   dropped : SUBSET OfType(TimerType)]

\* Where the loop is; no error is ever left behind.
Placed ==
  /\ pc \in {"setup", "run", "wait", "dispatch", "callback", "left", "cleared", "panic"}
  /\ over \in BOOLEAN /\ (over <=> pc \in {"left", "cleared", "panic"})
  /\ pc = "callback" => top \in Source
  /\ again \in BOOLEAN /\ (again => top \in Source)

\* epoll watches the enabled descriptors, and every Defer source is in its table.
Watched(ev) == ev.polled = {s \in OfType(IoType) : ev.state[s] \in {"On", "OneShot"}}
Deferred(ev) == ev.defer_sources = {s \in OfType({"Defer"}) : ev.state[s] # "None"}

LoopInv ==
  /\ e \in Events /\ e.err = FALSE /\ Placed
  /\ pc # "cleared" => Watched(e) /\ Deferred(e)

\* Timer s has something that will call it; the timers of a clock have their descriptor.
Due(ev, s) == ev.pending[s] > 0 \/ \E l \in Left : ev.heap[s][l] > 0
Armed(ev) == \A c \in TimerType : c \in ev.timerfd \/ timer_is_empty(ev, c)
Waits(ev) == \A s \in OfType(TimerType) \ ev.dropped : ev.state[s] = "OneShot" => Due(ev, s)

TimersInv == Waits(e) /\ (Armed(e) \/ over)

-----------------------------------------------------------------------------
\* The time that may be left reaches up to the longest delay.
LEMMA LeftOK ==
  /\ Left \subseteq Nat /\ 0 \in Left /\ 1 \in Left
  /\ \A s \in Source : Delay[s] \in Left
  /\ \A l \in Left : l # 0 => l - 1 \in Left
  <1> DEFINE D == {Delay[s] : s \in Source}
             m == CHOOSE n \in D : \A s \in Source : Delay[s] <= n
  <1>1. Delay \in [Source -> Nat \ {0}] /\ \E s \in Source : \A x \in Source : Delay[x] <= Delay[s]
    BY EventLoopAssumption
  <1>2. \E n \in D : \A s \in Source : Delay[s] <= n
    BY <1>1
  <1>3. m \in D /\ \A s \in Source : Delay[s] <= m
    BY <1>2
  <1>4. Left = 0 .. m
    BY DEF Left
  <1>5. m \in Nat \ {0}
    BY <1>1, <1>3
  <1> HIDE DEF m, D
  <1>6. QED
    BY <1>1, <1>3, <1>4, <1>5

LEMMA UptoOK ==
  ASSUME NEW max \in Nat \ {0}, NEW n \in Nat, NEW k \in Nat
  PROVE  upto(max, n + k) \in 0 .. max /\ (upto(max, n + k) = 0 <=> n = 0 /\ k = 0)
  BY DEF upto

\* The part of EventsData that the methods of the loop itself leave alone; a timer that is
\* removed also drops others.
SameUseBut(ev, r) ==
  /\ r.sources = ev.sources /\ r.defer_sources = ev.defer_sources /\ r.state = ev.state
  /\ r.timerfd = ev.timerfd /\ r.polled = ev.polled /\ r.exit = ev.exit /\ r.err = ev.err

SameUse(ev, r) == SameUseBut(ev, r) /\ r.dropped = ev.dropped

\* A step of the loop that forgets nobody.
Quiet(ev, r) ==
  /\ r \in Events /\ SameUse(ev, r)
  /\ \A s \in Source : Due(ev, s) => Due(r, s)
  /\ \A c \in TimerType : timer_is_empty(ev, c) => timer_is_empty(r, c)

LEMMA QuietTwice ==
  ASSUME NEW a, NEW b, NEW c, Quiet(a, b), Quiet(b, c)
  PROVE  Quiet(a, c)
  BY DEF Quiet, SameUse, SameUseBut

LEMMA PushOK ==
  ASSUME NEW ev \in Events, NEW s \in Source
  PROVE  Quiet(ev, pending_push(ev, s))
  <1> DEFINE r == pending_push(ev, s)
  <1>1. ev.pending[s] \in Nat /\ MaxPending \in Nat \ {0}
    BY EventLoopAssumption DEF Events
  <1>2. more(ev.pending[s], 1) \in 0 .. MaxPending /\ more(ev.pending[s], 1) # 0
    BY <1>1, UptoOK DEF more
  <1>3. r \in Events /\ SameUse(ev, r) /\ r.heap = ev.heap
        /\ r.pending = [ev.pending EXCEPT ![s] = more(@, 1)]
    BY <1>2 DEF pending_push, Events, SameUse, SameUseBut
  <1> HIDE DEF r
  <1>4. \A x \in Source : ev.pending[x] > 0 => r.pending[x] > 0
    BY <1>2, <1>3 DEF Events
  <1>5. QED
    BY <1>3, <1>4 DEF Quiet, Due, timer_is_empty, r

LEMMA PopOK ==
  ASSUME NEW ev \in Events, NEW c \in TimerType
  PROVE  Quiet(ev, timer_pop(ev, c))
  <1> DEFINE r == timer_pop(ev, c)
             P == [s \in Source |-> IF Type[s] = c THEN more(ev.pending[s], ev.heap[s][0]) ELSE ev.pending[s]]
             H == [s \in Source |-> IF Type[s] = c THEN [ev.heap[s] EXCEPT ![0] = 0] ELSE ev.heap[s]]
  <1>1. MaxPending \in Nat \ {0} /\ MaxEqual \in Nat \ {0} /\ 0 \in Left
    BY EventLoopAssumption, LeftOK
  <1>2. ev.pending \in [Source -> 0 .. MaxPending] /\ ev.heap \in [Source -> [Left -> 0 .. MaxEqual]]
    BY DEF Events
  <1>3. P \in [Source -> 0 .. MaxPending]
        /\ \A s \in Source : ev.pending[s] > 0 \/ (Type[s] = c /\ ev.heap[s][0] > 0) => P[s] > 0
    <2>1. ASSUME NEW s \in Source
          PROVE  /\ ev.pending[s] \in Nat /\ ev.heap[s][0] \in Nat
                 /\ more(ev.pending[s], ev.heap[s][0]) \in 0 .. MaxPending
                 /\ (more(ev.pending[s], ev.heap[s][0]) = 0 <=> ev.pending[s] = 0 /\ ev.heap[s][0] = 0)
      <3>1. ev.pending[s] \in Nat /\ ev.heap[s][0] \in Nat
        BY <1>1, <1>2
      <3>2. QED
        BY <1>1, <3>1, UptoOK DEF more
    <2>2. QED
      BY <1>1, <1>2, <2>1
  <1>4. H \in [Source -> [Left -> 0 .. MaxEqual]]
        /\ \A s \in Source, l \in Left : H[s][l] = ev.heap[s][l] \/ (H[s][l] = 0 /\ Type[s] = c /\ l = 0)
    BY <1>1, <1>2
  <1>5. r = [ev EXCEPT !.pending = P, !.heap = H]
    BY DEF timer_pop
  <1> HIDE DEF P, H, r
  <1>6. r \in Events /\ SameUse(ev, r) /\ r.pending = P /\ r.heap = H
    BY <1>3, <1>4, <1>5 DEF Events, SameUse, SameUseBut
  <1>7. ASSUME NEW s \in Source, Due(ev, s)
        PROVE  Due(r, s)
    <2>1. CASE ev.pending[s] > 0
      BY <1>3, <1>6, <2>1 DEF Due
    <2>2. ASSUME NEW l \in Left, ev.heap[s][l] > 0
          PROVE  Due(r, s)
      BY <1>3, <1>4, <1>6, <2>2 DEF Due
    <2>3. QED
      BY <1>7, <2>1, <2>2 DEF Due
  <1>8. \A k \in TimerType : timer_is_empty(ev, k) => timer_is_empty(r, k)
    BY <1>4, <1>6 DEF timer_is_empty, OfType
  <1>9. QED
    BY <1>6, <1>7, <1>8 DEF Quiet, r

LEMMA BothOK ==
  ASSUME NEW ev \in Events
  PROVE  Quiet(ev, timer_pop(timer_pop(ev, "TimerRealtime"), "TimerMonotonic"))
  <1>1. Quiet(ev, timer_pop(ev, "TimerRealtime"))
    BY PopOK DEF TimerType
  <1>2. timer_pop(ev, "TimerRealtime") \in Events
    BY <1>1 DEF Quiet
  <1>3. Quiet(timer_pop(ev, "TimerRealtime"), timer_pop(timer_pop(ev, "TimerRealtime"), "TimerMonotonic"))
    BY <1>2, PopOK DEF TimerType
  <1>4. QED
    BY <1>1, <1>3, QuietTwice

\* wait() and prepare() forget no source and change no source.
LEMMA WaitOK ==
  ASSUME NEW ev \in Events
  PROVE  Quiet(ev, wait(ev))
  <1> DEFINE P == [s \in Source |-> IF s \in poll(ev) \cap ev.sources THEN more(ev.pending[s], 1) ELSE ev.pending[s]]
             seen == [ev EXCEPT !.pending = P]
  <1>1. MaxPending \in Nat \ {0} /\ ev.pending \in [Source -> 0 .. MaxPending]
    BY EventLoopAssumption DEF Events
  <1>2. \A s \in Source : more(ev.pending[s], 1) \in 0 .. MaxPending /\ more(ev.pending[s], 1) # 0
    BY <1>1, UptoOK DEF more
  <1>3. P \in [Source -> 0 .. MaxPending] /\ \A s \in Source : ev.pending[s] > 0 => P[s] > 0
    BY <1>1, <1>2
  <1> HIDE DEF P
  <1>4. seen \in Events /\ SameUse(ev, seen) /\ seen.pending = P /\ seen.heap = ev.heap
    BY <1>3 DEF Events, SameUse, SameUseBut
  <1>5. Quiet(ev, seen)
    BY <1>3, <1>4 DEF Quiet, Due, timer_is_empty
  <1>6. Quiet(seen, timer_pop(timer_pop(seen, "TimerRealtime"), "TimerMonotonic"))
    BY <1>4, BothOK
  <1>7. wait(ev) = timer_pop(timer_pop(seen, "TimerRealtime"), "TimerMonotonic")
    BY DEF wait, P
  <1> HIDE DEF seen
  <1>8. QED
    BY <1>5, <1>6, <1>7, QuietTwice

LEMMA PrepareOK ==
  ASSUME NEW ev \in Events
  PROVE  Quiet(ev, prepare(ev))
  <1> DEFINE p == timer_pop(timer_pop(ev, "TimerRealtime"), "TimerMonotonic")
  <1>1. Quiet(ev, p)
    BY BothOK
  <1>2. prepare(ev) = IF pending_is_empty(p) THEN p ELSE wait(p)
    BY DEF prepare
  <1> HIDE DEF p
  <1>3. Quiet(p, wait(p))
    BY <1>1, WaitOK DEF Quiet
  <1>4. QED
    BY <1>1, <1>2, <1>3, QuietTwice

-----------------------------------------------------------------------------
\* The methods that users call.  What they start from, and what they leave.
Usable(ev) == ev \in Events /\ ev.err = FALSE /\ Watched(ev) /\ Deferred(ev)
WaitsBut(ev, s) == \A x \in OfType(TimerType) \ ({s} \cup ev.dropped) : ev.state[x] = "OneShot" => Due(ev, x)

Changed(ev, r, s, st) ==
  /\ Usable(r) /\ r.state = [ev.state EXCEPT ![s] = st]
  /\ WaitsBut(ev, s) => Waits(r)
  /\ Armed(ev) => Armed(r)

\* Source s is taken offline; its state is not renewed yet.
Offline(ev, r, s) ==
  /\ r \in Events /\ r.err = FALSE /\ r.state = ev.state
  /\ r.polled = ev.polled \ {s} /\ r.defer_sources = ev.defer_sources
  /\ WaitsBut(ev, s) => WaitsBut(r, s)
  /\ Armed(ev) => Armed(r)

LEMMA TypesApart ==
  /\ \A s \in Source : Type[s] \in EventType
  /\ \A s \in Source : /\ Type[s] \in IoType => Type[s] \notin TimerType /\ Type[s] # "Defer"
                       /\ Type[s] \in TimerType => Type[s] # "Defer"
                       /\ Type[s] \in IoType \/ Type[s] \in TimerType \/ Type[s] = "Defer"
  BY EventLoopAssumption DEF EventType, IoType, TimerType

LEMMA StateOK ==
  ASSUME NEW ev \in Events, NEW s \in Source
  PROVE  ev.state[s] \in {"On", "Off", "OneShot", "None"}
  BY DEF Events, EventState

\* TimerInner::remove takes the entries of s and drops those of its priority.
LEMMA RemoveOK ==
  ASSUME NEW ev \in Events, NEW s \in Source, Type[s] \in TimerType
  PROVE  /\ timer_remove(ev, s) \in Events /\ SameUseBut(ev, timer_remove(ev, s))
         /\ timer_remove(ev, s).pending = ev.pending
         /\ \A c \in TimerType : timer_is_empty(ev, c) => timer_is_empty(timer_remove(ev, s), c)
         /\ WaitsBut(ev, s) => WaitsBut(timer_remove(ev, s), s)
  <1> DEFINE r == timer_remove(ev, s)
             H == [x \in Source |-> IF alike(x, s) THEN [l \in Left |-> 0] ELSE ev.heap[x]]
             G == {x \in Source \ {s} : alike(x, s) /\ \E l \in Left : ev.heap[x][l] > 0}
             D == (ev.dropped \ {s}) \cup G
  <1>1. MaxEqual \in Nat \ {0} /\ ev.heap \in [Source -> [Left -> 0 .. MaxEqual]]
    BY EventLoopAssumption DEF Events
  <1>2. H \in [Source -> [Left -> 0 .. MaxEqual]]
        /\ \A x \in Source, l \in Left : H[x][l] = ev.heap[x][l] \/ H[x][l] = 0
    BY <1>1
  <1>3. /\ \A x \in Source : H[x] = ev.heap[x] \/ alike(x, s)
        /\ D \subseteq OfType(TimerType)
    <2>1. \A x \in G : x \in OfType(TimerType)
      BY DEF alike, OfType
    <2>2. ev.dropped \subseteq OfType(TimerType)
      BY DEF Events
    <2> HIDE DEF G
    <2>3. D \subseteq OfType(TimerType)
      BY <2>1, <2>2
    <2>4. QED
      BY <2>3
  <1>4. r = [ev EXCEPT !.heap = H, !.dropped = D]
    BY DEF timer_remove
  <1> HIDE DEF H, D, r
  <1>5. r \in Events /\ SameUseBut(ev, r) /\ r.pending = ev.pending /\ r.heap = H /\ r.dropped = D
    BY <1>2, <1>3, <1>4 DEF Events, SameUseBut
  <1>6. \A c \in TimerType : timer_is_empty(ev, c) => timer_is_empty(r, c)
    BY <1>2, <1>5 DEF timer_is_empty, OfType
  <1>7. ASSUME WaitsBut(ev, s)
        PROVE  WaitsBut(r, s)
    <2> SUFFICES ASSUME NEW x \in OfType(TimerType) \ ({s} \cup r.dropped), r.state[x] = "OneShot"
                 PROVE  Due(r, x)
      BY DEF WaitsBut
    <2>1. x \in Source /\ x # s /\ x \notin G /\ x \notin ev.dropped
      BY <1>5 DEF D, OfType
    <2>2. Due(ev, x)
      BY <1>5, <1>7, <2>1 DEF WaitsBut, SameUseBut
    <2>3. H[x] = ev.heap[x] \/ ~ \E l \in Left : ev.heap[x][l] > 0
      BY <1>3, <2>1
    <2>4. QED
      BY <1>5, <2>2, <2>3 DEF Due
  <1>8. QED
    BY <1>5, <1>6, <1>7 DEF r

LEMMA OfflineOK ==
  ASSUME NEW ev, Usable(ev), NEW s \in Source
  PROVE  Offline(ev, source_offline(ev, s), s)
  <1> DEFINE r == source_offline(ev, s)
  <1>1. ev \in Events /\ ev.err = FALSE /\ Watched(ev) /\ ev.polled \subseteq OfType(IoType)
    BY DEF Usable, Events
  <1>2. ev.state[s] \in {"On", "Off", "OneShot", "None"}
    BY <1>1, StateOK
  <1>3. CASE ev.state[s] \in {"None", "Off"}
    <2>1. r = ev
      BY <1>3 DEF source_offline
    <2>2. s \notin ev.polled
      BY <1>1, <1>3 DEF Watched
    <2>3. QED
      BY <1>1, <2>1, <2>2 DEF Offline
  <1>4. CASE ev.state[s] \notin {"None", "Off"} /\ Type[s] \in IoType
    <2>1. s \in ev.polled
      BY <1>1, <1>2, <1>4 DEF Watched, OfType
    <2>2. r = [ev EXCEPT !.polled = @ \ {s}]
      BY <1>4, <2>1, TypesApart DEF source_offline, unregister
    <2>3. r \in Events /\ r.err = FALSE /\ r.state = ev.state /\ r.polled = ev.polled \ {s}
          /\ r.defer_sources = ev.defer_sources /\ r.pending = ev.pending /\ r.heap = ev.heap
          /\ r.timerfd = ev.timerfd /\ r.dropped = ev.dropped
      BY <1>1, <2>2 DEF Events
    <2> HIDE DEF r
    <2>4. QED
      BY <2>3 DEF Offline, WaitsBut, Due, Armed, timer_is_empty, r
  <1>5. CASE ev.state[s] \notin {"None", "Off"} /\ Type[s] \in TimerType
    <2> DEFINE q == timer_remove(ev, s)
    <2>1. r = timer_offline(ev, s)
      BY <1>5, TypesApart DEF source_offline
    <2>2. r = IF timer_is_empty(q, Type[s]) THEN [q EXCEPT !.timerfd = @ \ {Type[s]}] ELSE q
      BY <2>1 DEF timer_offline
    <2>3. /\ q \in Events /\ SameUseBut(ev, q)
          /\ \A c \in TimerType : timer_is_empty(ev, c) => timer_is_empty(q, c)
          /\ WaitsBut(ev, s) => WaitsBut(q, s)
      BY <1>1, <1>5, RemoveOK
    <2> HIDE DEF q, r
    <2>4. /\ r \in Events /\ r.err = FALSE /\ r.state = ev.state /\ r.polled = ev.polled
          /\ r.defer_sources = ev.defer_sources /\ r.pending = q.pending /\ r.heap = q.heap
          /\ r.timerfd = q.timerfd \/ (r.timerfd = q.timerfd \ {Type[s]} /\ timer_is_empty(q, Type[s]))
          /\ r.dropped = q.dropped
      BY <1>1, <2>2, <2>3 DEF Events, SameUseBut
    <2>5. s \notin ev.polled
      BY <1>1, <1>5, TypesApart DEF OfType
    <2>6. Armed(ev) => Armed(r)
      BY <2>3, <2>4 DEF Armed, timer_is_empty, SameUseBut
    <2>7. WaitsBut(q, s) => WaitsBut(r, s)
      BY <2>3, <2>4 DEF WaitsBut, Due, SameUseBut
    <2>8. QED
      BY <2>3, <2>4, <2>5, <2>6, <2>7 DEF Offline, r
  <1>6. CASE ev.state[s] \notin {"None", "Off"} /\ Type[s] = "Defer"
    <2>1. r = ev
      BY <1>6, TypesApart DEF source_offline
    <2>2. s \notin ev.polled
      BY <1>1, <1>6, TypesApart DEF OfType
    <2>3. QED
      BY <1>1, <2>1, <2>2 DEF Offline
  <1>7. QED
    BY <1>3, <1>4, <1>5, <1>6, TypesApart

\* The state of a source that is offline is renewed.
LEMMA RenewOK ==
  ASSUME NEW ev, Usable(ev), NEW g, NEW r \in Events, NEW s \in Source, NEW st \in {"Off", "None"},
         Offline(ev, g, s), r.state = [g.state EXCEPT ![s] = st], r.polled = g.polled,
         r.defer_sources = {x \in OfType({"Defer"}) : r.state[x] # "None"},
         r.err = g.err, r.pending = g.pending, r.heap = g.heap, r.timerfd = g.timerfd,
         r.dropped = g.dropped
  PROVE  Changed(ev, r, s, st)
  <1>1. g \in Events /\ g.state = ev.state /\ ev \in Events
    BY DEF Offline, Usable
  <1>2. r.state = [ev.state EXCEPT ![s] = st] /\ ev.state \in [Source -> EventState \cup {"None"}]
    BY <1>1 DEF Events
  <1>3. Watched(r)
    BY <1>2 DEF Watched, Usable, Offline, OfType
  <1>4. Usable(r)
    BY <1>3 DEF Usable, Deferred, Offline
  <1>5. WaitsBut(g, s) => Waits(r)
    BY <1>1, <1>2 DEF WaitsBut, Waits, Due, OfType
  <1>6. Armed(g) => Armed(r)
    BY DEF Armed, timer_is_empty
  <1>7. QED
    BY <1>2, <1>4, <1>5, <1>6 DEF Changed, Offline

LEMMA DisableOK ==
  ASSUME NEW ev, Usable(ev), NEW s \in Source, ev.state[s] # "None"
  PROVE  Changed(ev, set_enabled(ev, s, "Off"), s, "Off")
  <1> DEFINE g == source_offline(ev, s)
             r == [g EXCEPT !.state[s] = "Off"]
  <1>1. Offline(ev, g, s)
    BY OfflineOK
  <1> HIDE DEF g
  <1>2. g \in Events /\ g.err = FALSE /\ g.state = ev.state /\ g.defer_sources = ev.defer_sources
    BY <1>1 DEF Offline
  <1>3. set_enabled(ev, s, "Off") = r
    BY <1>2 DEF set_enabled, g
  <1>4. r \in Events /\ r.state = [g.state EXCEPT ![s] = "Off"] /\ r.polled = g.polled /\ r.err = g.err
        /\ r.defer_sources = g.defer_sources /\ r.pending = g.pending /\ r.heap = g.heap
        /\ r.timerfd = g.timerfd /\ r.dropped = g.dropped
    BY <1>2 DEF Events, EventState
  <1> HIDE DEF r
  <1>5. r.defer_sources = {x \in OfType({"Defer"}) : r.state[x] # "None"}
    BY <1>2, <1>4 DEF Usable, Deferred, OfType, Events
  <1>6. QED
    BY <1>1, <1>3, <1>4, <1>5, RenewOK

LEMMA DeleteOK ==
  ASSUME NEW ev, Usable(ev), NEW s \in Source, ev.state[s] # "None"
  PROVE  Changed(ev, del_source(ev, s), s, "None")
  <1> DEFINE g == source_offline(ev, s)
             r == [g EXCEPT !.sources = @ \ {s}, !.defer_sources = @ \ {s}, !.state[s] = "None"]
  <1>1. Offline(ev, g, s)
    BY OfflineOK
  <1> HIDE DEF g
  <1>2. g \in Events /\ g.err = FALSE /\ g.state = ev.state /\ g.defer_sources = ev.defer_sources
    BY <1>1 DEF Offline
  <1>3. Type[s] = "Defer" => s \in g.defer_sources
    BY <1>2 DEF Usable, Deferred, OfType
  <1>4. del_source(ev, s) = r
    BY <1>2, <1>3 DEF del_source, g
  <1>5. r \in Events /\ r.state = [g.state EXCEPT ![s] = "None"] /\ r.polled = g.polled /\ r.err = g.err
        /\ r.defer_sources = g.defer_sources \ {s} /\ r.pending = g.pending /\ r.heap = g.heap
        /\ r.timerfd = g.timerfd /\ r.dropped = g.dropped
    BY <1>2 DEF Events, EventState
  <1> HIDE DEF r
  <1>6. r.defer_sources = {x \in OfType({"Defer"}) : r.state[x] # "None"}
    BY <1>2, <1>5 DEF Usable, Deferred, OfType, Events
  <1>7. QED
    BY <1>1, <1>4, <1>5, <1>6, RenewOK

LEMMA AddOK ==
  ASSUME NEW ev, Usable(ev), NEW s \in Source, ev.state[s] = "None"
  PROVE  Changed(ev, add_source(ev, s), s, "Off")
  <1> DEFINE r == add_source(ev, s)
  <1>1. ev \in Events /\ ev.err = FALSE
    BY DEF Usable
  <1>2. /\ r \in Events /\ r.err = FALSE /\ r.state = [ev.state EXCEPT ![s] = "Off"]
        /\ r.polled = ev.polled /\ r.pending = ev.pending /\ r.heap = ev.heap /\ r.timerfd = ev.timerfd
        /\ r.dropped = ev.dropped
        /\ r.defer_sources = ev.defer_sources \cup (IF Type[s] = "Defer" THEN {s} ELSE {})
    BY <1>1 DEF add_source, Events, EventState, OfType
  <1> HIDE DEF r
  <1>3. Watched(r) /\ Deferred(r)
    BY <1>1, <1>2 DEF Usable, Watched, Deferred, OfType, Events
  <1>4. WaitsBut(ev, s) => Waits(r)
    BY <1>1, <1>2 DEF WaitsBut, Waits, Due, OfType, Events
  <1>5. Armed(ev) => Armed(r)
    BY <1>2 DEF Armed, timer_is_empty
  <1>6. QED
    BY <1>2, <1>3, <1>4, <1>5 DEF Changed, Usable, r

LEMMA EnableOK ==
  ASSUME NEW ev, Usable(ev), NEW s \in Source, ev.state[s] # "None",
         Type[s] \in IoType => ev.state[s] = "Off", NEW st \in {"On", "OneShot"}
  PROVE  Changed(ev, set_enabled(ev, s, st), s, st)
  <1> DEFINE g == source_online(ev, s)
             r == [g EXCEPT !.state[s] = st]
  <1>1. ev \in Events /\ ev.err = FALSE /\ Watched(ev) /\ ev.polled \subseteq OfType(IoType)
    BY DEF Usable, Events
  <1>2. /\ g \in Events /\ g.err = FALSE /\ g.state = ev.state
        /\ g.polled = ev.polled \cup (IF Type[s] \in IoType THEN {s} ELSE {})
        /\ g.defer_sources = ev.defer_sources
        /\ \A x \in Source : Due(ev, x) => Due(g, x)
        /\ Type[s] \in TimerType => Due(g, s)
        /\ Armed(ev) => Armed(g)
        /\ ev.dropped \subseteq g.dropped \cup {s}
    <2>1. CASE Type[s] \in IoType
      <3>1. s \notin ev.polled
        BY <1>1, <2>1 DEF Watched
      <3>2. g = [ev EXCEPT !.polled = @ \cup {s}]
        BY <2>1, <3>1, TypesApart DEF source_online, register
      <3> HIDE DEF g
      <3>3. g \in Events /\ g.err = FALSE /\ g.state = ev.state /\ g.polled = ev.polled \cup {s}
            /\ g.defer_sources = ev.defer_sources /\ g.pending = ev.pending /\ g.heap = ev.heap
            /\ g.timerfd = ev.timerfd /\ g.dropped = ev.dropped
        BY <1>1, <2>1, <3>2 DEF Events, OfType
      <3>4. QED
        BY <2>1, <3>3, TypesApart DEF Due, Armed, timer_is_empty
    <2>2. CASE Type[s] = "Defer"
      <3>1. g = pending_push(ev, s)
        BY <2>2, TypesApart DEF source_online
      <3> HIDE DEF g
      <3>2. Quiet(ev, g)
        BY <1>1, <3>1, PushOK
      <3>3. QED
        BY <1>1, <2>2, <3>2, TypesApart DEF Quiet, SameUse, SameUseBut, Armed
    <2>3. CASE Type[s] \in TimerType
      <3> DEFINE H == [ev.heap EXCEPT ![s][Delay[s]] = upto(MaxEqual, @ + 1)]
      <3>1. MaxEqual \in Nat \ {0} /\ ev.heap \in [Source -> [Left -> 0 .. MaxEqual]] /\ Delay[s] \in Left
        BY <1>1, EventLoopAssumption, LeftOK DEF Events
      <3>2. ev.heap[s][Delay[s]] \in Nat
        BY <3>1
      <3>3. upto(MaxEqual, ev.heap[s][Delay[s]] + 1) \in 0 .. MaxEqual
            /\ upto(MaxEqual, ev.heap[s][Delay[s]] + 1) # 0
        BY <3>1, <3>2, UptoOK
      <3>4. /\ H \in [Source -> [Left -> 0 .. MaxEqual]] /\ H[s][Delay[s]] > 0
            /\ \A x \in Source, l \in Left : ev.heap[x][l] > 0 => H[x][l] > 0
            /\ \A x \in Source : x # s => H[x] = ev.heap[x]
        BY <3>1, <3>3
      <3>5. g = [[ev EXCEPT !.timerfd = @ \cup {Type[s]}] EXCEPT !.heap = H, !.dropped = @ \ {s}]
        BY <1>1, <2>3, TypesApart DEF source_online, timer_push, Events
      <3> HIDE DEF H, g
      <3>6. g \in Events /\ g.err = FALSE /\ g.state = ev.state /\ g.polled = ev.polled
            /\ g.defer_sources = ev.defer_sources /\ g.pending = ev.pending /\ g.heap = H
            /\ g.timerfd = ev.timerfd \cup {Type[s]} /\ g.dropped = ev.dropped \ {s}
        BY <1>1, <2>3, <3>4, <3>5 DEF Events
      <3>7. (\A x \in Source : Due(ev, x) => Due(g, x)) /\ Due(g, s)
        BY <3>1, <3>4, <3>6 DEF Due
      <3>8. Armed(ev) => Armed(g)
        <4> SUFFICES ASSUME Armed(ev), NEW c \in TimerType, c \notin g.timerfd
                     PROVE  timer_is_empty(g, c)
          BY DEF Armed
        <4>1. c # Type[s] /\ timer_is_empty(ev, c)
          BY <3>6 DEF Armed
        <4>2. \A x \in OfType({c}) : x \in Source /\ x # s
          BY <4>1 DEF OfType
        <4>3. \A x \in Source : x # s => g.heap[x] = ev.heap[x]
          BY <3>4, <3>6
        <4>4. QED
          BY <4>1, <4>2, <4>3 DEF timer_is_empty
      <3>9. QED
        BY <2>3, <3>6, <3>7, <3>8, TypesApart
    <2>4. QED
      BY <2>1, <2>2, <2>3, TypesApart
  <1>3. set_enabled(ev, s, st) = r
    BY <1>2 DEF set_enabled
  <1> HIDE DEF g
  <1>4. r \in Events /\ r.state = [g.state EXCEPT ![s] = st] /\ r.polled = g.polled /\ r.err = FALSE
        /\ r.defer_sources = g.defer_sources /\ r.pending = g.pending /\ r.heap = g.heap
        /\ r.timerfd = g.timerfd /\ r.dropped = g.dropped
    BY <1>2 DEF Events, EventState
  <1> HIDE DEF r
  <1>5. Watched(r) /\ Deferred(r)
    BY <1>1, <1>2, <1>4 DEF Usable, Watched, Deferred, OfType, Events
  <1>6. WaitsBut(ev, s) => Waits(r)
    BY <1>1, <1>2, <1>4 DEF WaitsBut, Waits, Due, OfType, Events
  <1>7. Armed(g) => Armed(r)
    BY <1>4 DEF Armed, timer_is_empty
  <1>8. QED
    BY <1>2, <1>3, <1>4, <1>5, <1>6, <1>7 DEF Changed, Usable

-----------------------------------------------------------------------------
\* The source at the top of the queue leaves it; the others stay.
LEMMA PendingPopOK ==
  ASSUME LoopInv, NEW s \in pending_top(e)
  PROVE  /\ s \in Source /\ pending_pop(s) \in Events /\ SameUse(e, pending_pop(s))
         /\ Waits(e) => WaitsBut(pending_pop(s), s)
         /\ Waits(e) /\ e.state[s] # "OneShot" => Waits(pending_pop(s))
         /\ Armed(e) => Armed(pending_pop(s))
  <1> DEFINE r == pending_pop(s)
  <1>1. e \in Events /\ s \in Source /\ e.pending[s] > 0
    BY DEF LoopInv, pending_top
  <1>2. MaxPending \in Nat /\ e.pending \in [Source -> 0 .. MaxPending]
    BY <1>1, EventLoopAssumption DEF Events
  <1>3. e.pending[s] - 1 \in 0 .. MaxPending
    BY <1>1, <1>2
  <1>4. r \in Events /\ SameUse(e, r) /\ r.heap = e.heap /\ r.pending = [e.pending EXCEPT ![s] = @ - 1]
    BY <1>1, <1>3 DEF pending_pop, Events, SameUse, SameUseBut
  <1> HIDE DEF r
  <1>5. \A x \in Source \ {s} : Due(e, x) => Due(r, x)
    BY <1>2, <1>4 DEF Due
  <1>6. Waits(e) => WaitsBut(r, s)
    BY <1>4, <1>5 DEF Waits, WaitsBut, SameUse, SameUseBut, OfType
  <1>7. WaitsBut(r, s) /\ e.state[s] # "OneShot" => Waits(r)
    BY <1>4 DEF Waits, WaitsBut, SameUse, SameUseBut
  <1>8. Armed(e) => Armed(r)
    BY <1>4 DEF Armed, timer_is_empty, SameUse, SameUseBut
  <1>9. QED
    BY <1>1, <1>4, <1>6, <1>7, <1>8 DEF r

\* As time goes by an entry comes nearer to its deadline and stays in its heap.
LEMMA AdvanceOK ==
  ASSUME NEW ev \in Events
  PROVE  Quiet(ev, [ev EXCEPT !.heap = timer_advance(@)])
  <1> DEFINE H == timer_advance(ev.heap)
             r == [ev EXCEPT !.heap = H]
  <1>1. MaxEqual \in Nat \ {0} /\ ev.heap \in [Source -> [Left -> 0 .. MaxEqual]]
    BY EventLoopAssumption DEF Events
  <1>2. Left \subseteq Nat /\ 0 \in Left /\ 1 \in Left /\ \A l \in Left : l # 0 => l - 1 \in Left
    BY LeftOK
  <1>3. \A s \in Source : ev.heap[s][0] \in Nat /\ ev.heap[s][1] \in Nat
    BY <1>1, <1>2
  <1>4. \A s \in Source : /\ upto(MaxEqual, ev.heap[s][0] + ev.heap[s][1]) \in 0 .. MaxEqual
                          /\ upto(MaxEqual, ev.heap[s][0] + ev.heap[s][1]) = 0
                               <=> ev.heap[s][0] = 0 /\ ev.heap[s][1] = 0
    BY <1>1, <1>3, UptoOK
  <1>5. H = [s \in Source |-> [l \in Left |-> IF l = 0 THEN upto(MaxEqual, ev.heap[s][0] + ev.heap[s][1])
                                  ELSE IF l + 1 \in Left THEN ev.heap[s][l + 1] ELSE 0]]
    BY DEF timer_advance
  <1> HIDE DEF H
  <1>6. H \in [Source -> [Left -> 0 .. MaxEqual]]
    <2>1. ASSUME NEW s \in Source, NEW l \in Left
          PROVE  (IF l = 0 THEN upto(MaxEqual, ev.heap[s][0] + ev.heap[s][1])
                  ELSE IF l + 1 \in Left THEN ev.heap[s][l + 1] ELSE 0) \in 0 .. MaxEqual
      BY <1>1, <1>4
    <2>2. QED
      BY <1>5, <2>1
  <1>7. \A s \in Source, l \in Left : /\ l = 0 => H[s][0] = upto(MaxEqual, ev.heap[s][0] + ev.heap[s][1])
                                      /\ l # 0 /\ l + 1 \in Left => H[s][l] = ev.heap[s][l + 1]
                                      /\ l # 0 /\ l + 1 \notin Left => H[s][l] = 0
    BY <1>5
  <1>8. r \in Events /\ SameUse(ev, r) /\ r.pending = ev.pending /\ r.heap = H
    BY <1>6 DEF Events, SameUse, SameUseBut
  <1> HIDE DEF r
  <1>9. ASSUME NEW s \in Source, NEW l \in Left, ev.heap[s][l] > 0
        PROVE  \E k \in Left : H[s][k] > 0
    <2>1. CASE l = 0 \/ l = 1
      <3>1. H[s][0] # 0 /\ H[s][0] \in 0 .. MaxEqual
        BY <1>2, <1>3, <1>4, <1>6, <1>7, <1>9, <2>1
      <3>2. QED
        BY <1>1, <1>2, <3>1
    <2>2. CASE l # 0 /\ l # 1
      <3>1. l - 1 \in Left /\ l - 1 # 0 /\ (l - 1) + 1 = l
        BY <1>2, <2>2
      <3>2. QED
        BY <1>7, <1>9, <3>1
    <2>3. QED
      BY <2>1, <2>2
  <1>10. \A s \in Source : Due(ev, s) => Due(r, s)
    BY <1>8, <1>9 DEF Due
  <1>11. ASSUME NEW c \in TimerType, timer_is_empty(ev, c)
         PROVE  timer_is_empty(r, c)
    <2> SUFFICES ASSUME NEW s \in OfType({c}), NEW l \in Left
                 PROVE  H[s][l] = 0
      BY <1>8 DEF timer_is_empty
    <2>1. s \in Source /\ \A k \in Left : ev.heap[s][k] = 0
      BY <1>11 DEF timer_is_empty, OfType
    <2>2. QED
      BY <1>2, <1>4, <1>7, <2>1
  <1>12. QED
    BY <1>8, <1>10, <1>11 DEF Quiet, r, H

\* What users see of the sources.
Shown(ev) == [s \in Source |-> IF ev.state[s] = "None" THEN "Off" ELSE ev.state[s]]

\* What every step keeps, and the step of Scheduler it is.
StepOK ==
  /\ LoopInv'
  /\ TimersInv => TimersInv'
  /\ [Users!SNext]_(Users!svars)

LEMMA SameUseOK ==
  ASSUME NEW ev, Usable(ev), NEW r \in Events, SameUse(ev, r)
  PROVE  Usable(r) /\ Shown(r) = Shown(ev)
  BY DEF Usable, SameUse, SameUseBut, Watched, Deferred, Shown

LEMMA QuietOK ==
  ASSUME NEW ev, NEW r, Quiet(ev, r)
  PROVE  (Waits(ev) => Waits(r)) /\ (Armed(ev) => Armed(r))
  BY DEF Quiet, Waits, Armed, SameUse, SameUseBut, OfType

\* The step of Scheduler that the data and the place of a step make.
LEMMA AbstractStutter ==
  ASSUME Shown(e') = Shown(e), over' = over,
         (IF pc' = "callback" THEN top' ELSE Nobody) = (IF pc = "callback" THEN top ELSE Nobody)
  PROVE  [Users!SNext]_(Users!svars)
  BY DEF Users!svars, Shown

LEMMA AbstractLeave ==
  ASSUME Shown(e') = Shown(e), over' = TRUE,
         (IF pc' = "callback" THEN top' ELSE Nobody) = (IF pc = "callback" THEN top ELSE Nobody)
  PROVE  [Users!SNext]_(Users!svars)
  <1>1. Users!Leave
    BY DEF Users!Leave, Shown
  <1>2. QED
    BY <1>1 DEF Users!SNext

LEMMA RunStep ==
  ASSUME LoopInv, Run
  PROVE  StepOK
  <1>1. /\ pc = "run" /\ UNCHANGED <<top, again, ready>> /\ Usable(e)
    BY DEF Run, LoopInv, Usable
  <1>2. CASE e.exit
    <2>1. over' = TRUE /\ pc' = "left" /\ e' = e
      BY <1>2 DEF Run
    <2>2. LoopInv'
      BY <1>1, <2>1 DEF LoopInv, Placed, Usable
    <2>3. TimersInv => TimersInv'
      BY <2>1 DEF TimersInv
    <2>4. [Users!SNext]_(Users!svars)
      BY <1>1, <2>1, AbstractLeave
    <2>5. QED
      BY <2>2, <2>3, <2>4 DEF StepOK
  <1>3. CASE ~ e.exit
    <2>1. over' = over /\ pc' \in {"wait", "dispatch"} /\ e' = prepare(e)
      BY <1>3 DEF Run
    <2>2. Quiet(e, e')
      BY <2>1, PrepareOK DEF LoopInv
    <2>3. Usable(e') /\ Shown(e') = Shown(e)
      BY <1>1, <2>2, SameUseOK DEF Quiet
    <2>4. LoopInv'
      BY <1>1, <2>1, <2>3 DEF LoopInv, Placed, Usable
    <2>5. TimersInv => TimersInv'
      BY <2>1, <2>2, QuietOK DEF TimersInv
    <2>6. [Users!SNext]_(Users!svars)
      BY <1>1, <2>1, <2>3, AbstractStutter
    <2>7. QED
      BY <2>4, <2>5, <2>6 DEF StepOK
  <1>4. QED
    BY <1>2, <1>3

LEMMA WaitStep ==
  ASSUME LoopInv, Wait
  PROVE  StepOK
  <1>1. /\ pc = "wait" /\ e' = wait(e) /\ pc' = "dispatch" /\ UNCHANGED <<top, again, ready, over>>
        /\ Usable(e)
    BY DEF Wait, LoopInv, Usable
  <1>2. Quiet(e, e')
    BY <1>1, WaitOK DEF LoopInv
  <1>3. Usable(e') /\ Shown(e') = Shown(e)
    BY <1>1, <1>2, SameUseOK DEF Quiet
  <1>4. LoopInv'
    BY <1>1, <1>3 DEF LoopInv, Placed, Usable
  <1>5. TimersInv => TimersInv'
    BY <1>1, <1>2, QuietOK DEF TimersInv
  <1>6. [Users!SNext]_(Users!svars)
    BY <1>1, <1>3, AbstractStutter
  <1>7. QED
    BY <1>4, <1>5, <1>6 DEF StepOK

\* The call of an enabled source is Begin of Scheduler: a OneShot source is off by then.
LEMMA CallStep ==
  ASSUME LoopInv, pc = "dispatch", NEW s \in pending_top(e), e.state[s] \in {"On", "OneShot"}, call(s)
  PROVE  StepOK
  <1> DEFINE r == pending_pop(s)
  <1>1. /\ pc' = "callback" /\ top' = s /\ over' = over /\ Usable(e)
        /\ again' = (e.state[s] = "On" /\ Type[s] = "Defer")
        /\ e' = IF e.state[s] = "OneShot" THEN set_enabled(r, s, "Off") ELSE r
    BY DEF call, LoopInv, Usable
  <1>2. /\ s \in Source /\ r \in Events /\ SameUse(e, r)
        /\ Waits(e) => WaitsBut(r, s)
        /\ Waits(e) /\ e.state[s] # "OneShot" => Waits(r)
        /\ Armed(e) => Armed(r)
    BY PendingPopOK
  <1> HIDE DEF r
  <1>3. Usable(r) /\ Shown(r) = Shown(e) /\ r.state = e.state
    BY <1>1, <1>2, SameUseOK DEF SameUse, SameUseBut
  <1>4. /\ Usable(e')
        /\ e'.state = [e.state EXCEPT ![s] = IF @ = "OneShot" THEN "Off" ELSE @]
        /\ Waits(e) => Waits(e')
        /\ Armed(e) => Armed(e')
    <2>0. e.state \in [Source -> EventState \cup {"None"}]
      BY <1>1 DEF Usable, Events
    <2>1. CASE e.state[s] = "OneShot"
      <3>1. Changed(r, e', s, "Off")
        BY <1>1, <1>2, <1>3, <2>1, DisableOK
      <3>2. QED
        BY <1>2, <1>3, <2>0, <2>1, <3>1 DEF Changed
    <2>2. CASE e.state[s] # "OneShot"
      BY <1>1, <1>2, <1>3, <2>0, <2>2
    <2>3. QED
      BY <2>1, <2>2
  <1>5. LoopInv'
    <2>1. Placed'
      BY <1>1, <1>2 DEF LoopInv, Placed
    <2>2. QED
      BY <1>1, <1>4, <2>1 DEF LoopInv, Usable
  <1>6. TimersInv => TimersInv'
    BY <1>1, <1>4 DEF TimersInv
  <1>7. Users!Begin(s)
    <2>1. Shown(e') = [Shown(e) EXCEPT ![s] = IF @ = "OneShot" THEN "Off" ELSE @]
      <3>1. e.state \in [Source -> EventState \cup {"None"}]
        BY <1>1 DEF Usable, Events
      <3>2. QED
        BY <1>2, <1>4, <3>1 DEF Shown
    <2>2. Shown(e)[s] # "Off"
      BY <1>2 DEF Shown
    <2>3. ~ over
      BY DEF LoopInv, Placed
    <2>4. QED
      BY <1>1, <2>1, <2>2, <2>3 DEF Users!Begin, Shown
  <1>8. QED
    BY <1>2, <1>5, <1>6, <1>7 DEF StepOK, Users!SNext

LEMMA DispatchStep ==
  ASSUME LoopInv, Dispatch
  PROVE  StepOK
  <1>1. pc = "dispatch" /\ Usable(e)
    BY DEF Dispatch, LoopInv, Usable
  <1>2. CASE pending_is_empty(e)
    <2>1. pc' = "run" /\ UNCHANGED <<e, top, again, ready, over>>
      BY <1>2 DEF Dispatch
    <2>2. LoopInv'
      BY <1>1, <2>1 DEF LoopInv, Placed
    <2>3. TimersInv => TimersInv'
      BY <2>1 DEF TimersInv
    <2>4. [Users!SNext]_(Users!svars)
      BY <1>1, <2>1, AbstractStutter
    <2>5. QED
      BY <2>2, <2>3, <2>4 DEF StepOK
  <1>3. ASSUME NEW s \in pending_top(e), unwrap_state(s) \/ skip(s)
        PROVE  StepOK
    <2>1. /\ e.state[s] # "OneShot" /\ e' = pending_pop(s) /\ UNCHANGED <<top, again>>
          /\ (over' = TRUE /\ pc' = "panic") \/ (over' = over /\ pc' = "run")
      BY <1>3 DEF unwrap_state, skip
    <2>2. /\ e' \in Events /\ SameUse(e, e')
          /\ Waits(e) => Waits(e')
          /\ Armed(e) => Armed(e')
      BY <2>1, PendingPopOK
    <2>3. Usable(e') /\ Shown(e') = Shown(e)
      BY <1>1, <2>2, SameUseOK
    <2>4. LoopInv'
      <3>1. CASE over' = TRUE /\ pc' = "panic"
        BY <1>1, <2>1, <2>3, <3>1 DEF LoopInv, Placed, Usable
      <3>2. CASE over' = over /\ pc' = "run"
        BY <1>1, <2>1, <2>3, <3>2 DEF LoopInv, Placed, Usable
      <3>3. QED
        BY <2>1, <3>1, <3>2
    <2>5. TimersInv => TimersInv'
      BY <2>1, <2>2 DEF TimersInv
    <2>6. [Users!SNext]_(Users!svars)
      BY <1>1, <2>1, <2>3, AbstractStutter, AbstractLeave
    <2>7. QED
      BY <2>4, <2>5, <2>6 DEF StepOK
  <1>4. QED
    BY <1>1, <1>2, <1>3, CallStep DEF Dispatch, dispatch

LEMMA ReturnStep ==
  ASSUME LoopInv, Return
  PROVE  StepOK
  <1>1. /\ pc \in {"setup", "callback"} /\ pc' = "run" /\ top' = Nobody /\ again' = FALSE
        /\ over' = over /\ e' = (IF again THEN pending_push(e, top) ELSE e) /\ Usable(e)
    BY DEF Return, LoopInv, Usable
  <1>2. e' = e \/ Quiet(e, e')
    BY <1>1, PushOK DEF LoopInv, Placed, Usable
  <1>3. Usable(e') /\ Shown(e') = Shown(e)
    BY <1>1, <1>2, SameUseOK DEF Quiet
  <1>4. LoopInv'
    BY <1>1, <1>3 DEF LoopInv, Placed, Usable
  <1>5. TimersInv => TimersInv'
    BY <1>1, <1>2, QuietOK DEF TimersInv
  <1>6. CASE pc = "setup"
    <2>1. [Users!SNext]_(Users!svars)
      BY <1>1, <1>3, <1>6, AbstractStutter
    <2>2. QED
      BY <1>4, <1>5, <2>1 DEF StepOK
  <1>7. CASE pc = "callback"
    <2>1. top # Nobody
      BY <1>7, EventLoopAssumption DEF LoopInv, Placed
    <2>2. Users!Finish
      BY <1>1, <1>3, <1>7, <2>1 DEF Users!Finish, Shown
    <2>3. QED
      BY <1>4, <1>5, <2>2 DEF StepOK, Users!SNext
  <1>8. QED
    BY <1>1, <1>6, <1>7

\* A method called on source s from user code.
LEMMA UseStep ==
  ASSUME LoopInv, NEW s \in Source, NEW st \in EventState \cup {"None"}, NEW ev,
         pc \in {"setup", "callback"} => Changed(e, ev, s, st), Use(ev)
  PROVE  StepOK
  <1>1. Changed(e, ev, s, st) /\ pc \in {"setup", "callback"} /\ e' = ev
    BY DEF Use
  <1>2. ev.err = FALSE /\ Usable(ev)
    BY <1>1 DEF Changed, Usable
  <1>3. over' = FALSE /\ pc' = pc /\ UNCHANGED <<top, again, ready>>
    BY <1>2 DEF Use
  <1>4. over = FALSE
    BY <1>1 DEF LoopInv, Placed
  <1>5. LoopInv'
    BY <1>1, <1>2, <1>3, <1>4 DEF LoopInv, Placed, Usable
  <1>6. TimersInv => TimersInv'
    BY <1>1, <1>3, <1>4 DEF TimersInv, Changed, Waits, WaitsBut
  <1>7. Users!Change(s)
    <2>1. e.state \in [Source -> EventState \cup {"None"}]
      BY DEF LoopInv, Events
    <2>2. PICK x \in {"Off", "On", "OneShot"} : x = IF st = "None" THEN "Off" ELSE st
      BY DEF EventState
    <2>3. Shown(e') = [Shown(e) EXCEPT ![s] = x]
      BY <1>1, <2>1, <2>2 DEF Shown, Changed
    <2>4. QED
      BY <1>3, <1>4, <2>3 DEF Users!Change, Shown
  <1>8. QED
    BY <1>5, <1>6, <1>7 DEF StepOK, Users!SNext

LEMMA UserStep ==
  ASSUME LoopInv, User
  PROVE  StepOK
  <1>1. pc \in {"setup", "callback"} => Usable(e)
    BY DEF LoopInv, Usable
  <1>2. ASSUME NEW s \in Source, AddSource(s)
        PROVE  StepOK
    <2>1. pc \in {"setup", "callback"} => Changed(e, add_source(e, s), s, "Off")
      BY <1>1, <1>2, AddOK DEF AddSource
    <2>2. QED
      BY <1>2, <2>1, UseStep DEF AddSource, EventState
  <1>3. ASSUME NEW s \in Source, Enable(s)
        PROVE  StepOK
    <2>1. PICK st \in Modes[s] : Use(set_enabled(e, s, st))
      BY <1>3 DEF Enable
    <2>2. st \in {"On", "OneShot"}
      BY EventLoopAssumption
    <2>3. pc \in {"setup", "callback"} => Changed(e, set_enabled(e, s, st), s, st)
      BY <1>1, <1>3, <2>2, EnableOK DEF Enable
    <2>4. QED
      BY <2>1, <2>2, <2>3, UseStep DEF EventState
  <1>4. ASSUME NEW s \in Source, Disable(s)
        PROVE  StepOK
    <2>1. pc \in {"setup", "callback"} => Changed(e, set_enabled(e, s, "Off"), s, "Off")
      BY <1>1, <1>4, DisableOK DEF Disable
    <2>2. QED
      BY <1>4, <2>1, UseStep DEF Disable, EventState
  <1>5. ASSUME NEW s \in Source, DelSource(s)
        PROVE  StepOK
    <2>1. pc \in {"setup", "callback"} => Changed(e, del_source(e, s), s, "None")
      BY <1>1, <1>5, DeleteOK DEF DelSource
    <2>2. QED
      BY <1>5, <2>1, UseStep DEF DelSource, EventState
  <1>6. CASE SetExit
    <2> DEFINE r == [e EXCEPT !.exit = TRUE]
    <2>1. pc \in {"setup", "callback"} /\ e' = r /\ e \in Events /\ e.err = FALSE
      BY <1>6 DEF SetExit, Use, LoopInv
    <2>2. r \in Events /\ r.err = e.err /\ r.state = e.state /\ r.polled = e.polled
          /\ r.defer_sources = e.defer_sources /\ r.pending = e.pending /\ r.heap = e.heap
          /\ r.timerfd = e.timerfd /\ r.dropped = e.dropped
      BY <2>1 DEF Events
    <2>3. over' = FALSE /\ pc' = pc /\ UNCHANGED <<top, again, ready>>
      BY <1>6, <2>1, <2>2 DEF SetExit, Use
    <2> HIDE DEF r
    <2>4. over = FALSE
      BY <2>1 DEF LoopInv, Placed
    <2>5. Usable(e') /\ Shown(e') = Shown(e)
      BY <1>1, <2>1, <2>2 DEF Usable, Watched, Deferred, Shown
    <2>6. LoopInv'
      BY <2>1, <2>3, <2>4, <2>5 DEF LoopInv, Placed, Usable
    <2>7. TimersInv => TimersInv'
      BY <2>1, <2>2, <2>3, <2>4 DEF TimersInv, Waits, Armed, Due, timer_is_empty
    <2>8. [Users!SNext]_(Users!svars)
      BY <2>3, <2>4, <2>5, AbstractStutter
    <2>9. QED
      BY <2>6, <2>7, <2>8 DEF StepOK
  <1>7. QED
    BY <1>2, <1>3, <1>4, <1>5, <1>6 DEF User

LEMMA NewOK ==
  /\ NewEvents \in Events /\ NewEvents.err = FALSE /\ NewEvents.state = [s \in Source |-> "None"]
  /\ NewEvents.polled = {} /\ NewEvents.defer_sources = {}
  /\ NewEvents.heap = [s \in Source |-> [l \in Left |-> 0]]
  <1>1. MaxPending \in Nat \ {0} /\ MaxEqual \in Nat \ {0}
    BY EventLoopAssumption
  <1>2. [s \in Source |-> 0] \in [Source -> 0 .. MaxPending]
    BY <1>1
  <1>3. [s \in Source |-> [l \in Left |-> 0]] \in [Source -> [Left -> 0 .. MaxEqual]]
    BY <1>1
  <1>4. QED
    BY <1>2, <1>3 DEF NewEvents, Events

LEMMA ClearStep ==
  ASSUME LoopInv, Clear
  PROVE  StepOK
  <1> DEFINE r == [NewEvents EXCEPT !.polled = e.polled, !.heap = e.heap, !.exit = e.exit,
                                    !.dropped = e.dropped]
  <1>1. pc = "left" /\ e' = r /\ pc' = "cleared" /\ UNCHANGED <<top, again, ready, over>> /\ over
    BY DEF Clear, LoopInv, Placed
  <1>2. e \in Events /\ MaxPending \in Nat \ {0}
    BY EventLoopAssumption DEF LoopInv
  <1>3. r \in Events /\ r.err = FALSE /\ r.state = [s \in Source |-> "None"]
    <2>1. NewEvents \in Events /\ NewEvents.err = FALSE /\ NewEvents.state = [s \in Source |-> "None"]
      BY NewOK
    <2>2. e.polled \in SUBSET OfType(IoType) /\ e.heap \in [Source -> [Left -> 0 .. MaxEqual]]
          /\ e.exit \in BOOLEAN /\ e.dropped \in SUBSET OfType(TimerType)
      BY <1>2 DEF Events
    <2>3. QED
      BY <2>1, <2>2 DEF Events
  <1> HIDE DEF r
  <1>4. LoopInv'
    BY <1>1, <1>3 DEF LoopInv, Placed
  <1>5. TimersInv'
    BY <1>1, <1>3 DEF TimersInv, Waits, OfType
  <1>6. Users!Release
    BY <1>1, <1>3 DEF Users!Release
  <1>7. QED
    BY <1>4, <1>5, <1>6 DEF StepOK, Users!SNext

LEMMA KernelStep ==
  ASSUME LoopInv, Kernel
  PROVE  StepOK
  <1>1. /\ UNCHANGED <<pc, top, again, over>>
        /\ e' = e \/ e' = [e EXCEPT !.heap = timer_advance(@)]
    BY DEF Kernel, Readable, Tick
  <1>2. e' = e \/ Quiet(e, e')
    BY <1>1, AdvanceOK DEF LoopInv
  <1>3. e' \in Events /\ SameUse(e, e')
    BY <1>2 DEF Quiet, SameUse, SameUseBut, LoopInv
  <1>4. Shown(e') = Shown(e) /\ e'.err = FALSE
    BY <1>3 DEF SameUse, SameUseBut, Shown, LoopInv
  <1>5. LoopInv'
    BY <1>1, <1>3, <1>4 DEF LoopInv, Placed, SameUse, SameUseBut, Watched, Deferred
  <1>6. TimersInv => TimersInv'
    BY <1>1, <1>2, QuietOK DEF TimersInv
  <1>7. [Users!SNext]_(Users!svars)
    BY <1>1, <1>4, AbstractStutter
  <1>8. QED
    BY <1>5, <1>6, <1>7 DEF StepOK

-----------------------------------------------------------------------------
LEMMA LoopInit ==
  ASSUME EInit
  PROVE  LoopInv /\ TimersInv /\ Users!SInit
  <1>1. /\ e = NewEvents /\ pc = "setup" /\ top = Nobody /\ again = FALSE /\ over = FALSE
    BY DEF EInit
  <1>2. e \in Events /\ e.err = FALSE
    BY <1>1, NewOK
  <1>3. e.state = [s \in Source |-> "None"] /\ e.polled = {} /\ e.defer_sources = {}
        /\ e.heap = [s \in Source |-> [l \in Left |-> 0]]
    BY <1>1, NewOK
  <1>4. Watched(e) /\ Deferred(e) /\ Waits(e) /\ Armed(e)
    BY <1>3 DEF Watched, Deferred, Waits, Armed, timer_is_empty, OfType
  <1>5. Users!SInit
    BY <1>1, <1>3 DEF Users!SInit
  <1>6. QED
    BY <1>1, <1>2, <1>4, <1>5 DEF LoopInv, Placed, TimersInv

LEMMA LoopNext ==
  ASSUME LoopInv, [ENext]_vars
  PROVE  StepOK
  <1>1. CASE Loop
    BY <1>1, RunStep, WaitStep, DispatchStep, ReturnStep DEF Loop
  <1>2. CASE User \/ Clear \/ Kernel
    BY <1>2, UserStep, ClearStep, KernelStep
  <1>3. CASE UNCHANGED vars
    <2>1. UNCHANGED <<e, pc, top, again, over>>
      BY <1>3 DEF vars
    <2>2. LoopInv' /\ (TimersInv => TimersInv')
      BY <2>1 DEF LoopInv, Placed, TimersInv
    <2>3. [Users!SNext]_(Users!svars)
      BY <2>1, AbstractStutter
    <2>4. QED
      BY <2>2, <2>3 DEF StepOK
  <1>4. QED
    BY <1>1, <1>2, <1>3 DEF ENext

LEMMA InvMeans ==
  ASSUME LoopInv
  PROVE  ETypeOK /\ WatchedWhileEnabled
  <1>1. ETypeOK
    BY DEF LoopInv, Placed, Events, ETypeOK
  <1>2. WatchedWhileEnabled
    BY DEF LoopInv, Placed, Watched, WatchedWhileEnabled
  <1>3. QED
    BY <1>1, <1>2

\* EventsData and the loop keep their types, and no error of a method is ever unwrapped.
THEOREM LoopTyped == ESpec => []ETypeOK
  <1>1. EInit => LoopInv
    BY LoopInit
  <1>2. LoopInv /\ [ENext]_vars => LoopInv'
    BY LoopNext DEF StepOK
  <1>3. LoopInv => ETypeOK
    BY InvMeans
  <1>4. QED
    BY <1>1, <1>2, <1>3, PTL DEF ESpec

\* The loop implements the scheduler its users rely on: one call-back at a time, only of an
\* enabled source, a OneShot source off before its call-back, nothing after the end.
THEOREM LoopIsScheduler == ESpec => IsScheduler
  <1>1. EInit => LoopInv /\ Users!SInit
    BY LoopInit
  <1>2. LoopInv /\ [ENext]_vars => LoopInv' /\ [Users!SNext]_(Users!svars)
    BY LoopNext DEF StepOK
  <1>3. QED
    BY <1>1, <1>2, PTL DEF ESpec, IsScheduler, Users!SSpec

\* A descriptor is watched by epoll exactly as long as its source is enabled, whatever the
\* priorities (register, unregister, and the OneShot source that dispatch() turns off).
THEOREM EnabledAreWatched == ESpec => []WatchedWhileEnabled
  <1>1. EInit => LoopInv
    BY LoopInit
  <1>2. LoopInv /\ [ENext]_vars => LoopInv'
    BY LoopNext DEF StepOK
  <1>3. LoopInv => WatchedWhileEnabled
    BY InvMeans
  <1>4. QED
    BY <1>1, <1>2, <1>3, PTL DEF ESpec

\* What the loop keeps for its sources stays with them, for any priorities: descriptors in
\* epoll, and timers in their heap.  A timer that is lost has been dropped with one that
\* compares equal (TimerInner::remove), and there is no other way to lose one.
THEOREM SourcesAreKept == ESpec => []SourcesKept
  <1>1. EInit => LoopInv /\ TimersInv
    BY LoopInit
  <1>2. LoopInv /\ TimersInv /\ [ENext]_vars => (LoopInv /\ TimersInv)'
    BY LoopNext DEF StepOK
  <1>3. LoopInv /\ TimersInv => SourcesKept
    <2>1. TimersInv => TimersKept
      BY DEF TimersInv, TimersKept, TimerWaits, Waits, Armed, Due
    <2>2. QED
      BY <2>1, InvMeans DEF SourcesKept
  <1>4. QED
    BY <1>1, <1>2, <1>3, PTL DEF ESpec

-------------------------------------------------------------------------------

OpRec == [k : {"none", "clear_unit", "clear_frame", "open", "close"}, fd : {0} \cup Fd, step : 0..3]

\* The tables answer what a commit would leave.
Stored == mem.synced => mem.cache = exported(disk.db, mem)

\* What the records of the ports may say.
PortValue == {0, None} \cup Fd
PortRecs ==
  \A u \in Unit : /\ mem.cache[<<"port", u>>] \in PortValue /\ disk.db[<<"port", u>>] \in PortValue
                  /\ exported(disk.db, mem)[<<"port", u>>] \in PortValue

\* Before the ports have taken their descriptors: nothing is held, nothing is waiting.
Before == {"start", "compensate", "db_map"}
Fresh ==
  /\ mem.stage = "start" => mem.cache = Empty /\ mem.add = Empty /\ mem.del = {}
  /\ mem.stage \in {"compensate", "db_map"} => mem.synced /\ mem.add = Empty /\ mem.del = {}
NoPorts == mem.stage \in Before => \A u \in Unit : mem.port[u] = 0

\* Only a recovery takes marks away, and it closes what is still marked first.
Enabled_ == mem.stage \notin {"start", "boot", "enable"} => disk.enable
Unmarked == ~ disk.enable => \A n \in Fd : kern[n] = "kept" => disk.pend[n] # None
ClosedMarked == mem.stage = "clear_marked" => \A n \in Fd : disk.pend[n] # None => kern[n] # "kept"

\* fd_retain and fd_remove under way.
Ops ==
  /\ mem.op.k # "none" => mem.stage \in {"ok", "boot"} /\ mem.stack # <<>>
  /\ mem.op.k = "open" => Top.u \in Unit /\ mem.op.fd \in Fd /\ mem.port[Top.u] = 0
  /\ mem.op.k = "open" /\ mem.op.step # 1 => disk.pend[mem.op.fd] # None
  /\ mem.op.k = "close" => Top.u \in Unit /\ mem.op.fd \in Fd /\ mem.port[Top.u] = mem.op.fd
  /\ mem.op.k = "close" /\ mem.op.step \in {0, 3} => kern[mem.op.fd] # "kept"

\* The record of a port says n, and will say it after the next commit.
Recorded(u, n) == disk.db[<<"port", u>>] = n /\ exported(disk.db, mem)[<<"port", u>>] = n
Kept ==
  \A n \in Fd : kern[n] = "kept" /\ disk.pend[n] = None =>
    /\ mem.stage \in Before => \E u \in Unit : disk.db[<<"port", u>>] = n
    /\ mem.stage \notin Before => \E u \in Unit : mem.port[u] = n /\ Recorded(u, n)

FdInv == NoPorts /\ Enabled_ /\ Unmarked /\ ClosedMarked /\ Ops /\ Kept
RInv == LTypeOK /\ Stored /\ PortRecs /\ Fresh /\ FdInv

-----------------------------------------------------------------------------
(* The keys and the three copies of a table. *)

LEMMA Keys ==
  /\ FdListen \in Key /\ None \notin Value /\ Fd \subseteq Value /\ {0, 1} \subseteq Value
  /\ Fd \subseteq Nat /\ 0 \notin Fd /\ None \notin Fd /\ None \notin Nat
  /\ \A u \in Unit : /\ <<"port", u>> \in Key /\ <<"trigger", u>> \in Key
                     /\ FdListen # <<"port", u>>
                     /\ \A v \in Unit : <<"trigger", v>> # <<"port", u>>
  <1>2. Fd \subseteq Nat /\ 0 \notin Fd /\ None \notin Fd /\ None \notin Nat
    BY ReliAssumption
  <1>6. 0 \in Nat /\ 1 \in Nat
    OBVIOUS
  <1>7. None # 0 /\ None # 1
    BY <1>2, <1>6
  <1>1. None \notin Value /\ Fd \subseteq Value /\ {0, 1} \subseteq Value
    BY <1>2, <1>7 DEF Value
  <1>3. FdListen \in Key
    BY DEF FdListen, Key
  <1>4. ASSUME NEW u \in Unit
        PROVE  /\ <<"port", u>> \in Key /\ <<"trigger", u>> \in Key
               /\ FdListen # <<"port", u>>
               /\ \A v \in Unit : <<"trigger", v>> # <<"port", u>>
    BY DEF FdListen, Key
  <1>5. QED
    BY <1>1, <1>2, <1>3, <1>4

LEMMA EmptyOK == Empty \in Table /\ \A k \in Key : Empty[k] = None
  BY DEF Empty, Table

LEMMA NoOpOK == NoOp \in OpRec /\ NoOp.k = "none"
  BY DEF NoOp, OpRec

\* Two states of the process that differ in the tables only.
SameRest(m, n) ==
  /\ m.stack = n.stack /\ m.port = n.port /\ m.stage = n.stage /\ m.todo = n.todo /\ m.op = n.op
  /\ m.synced = n.synced

LEMMA InsertOK ==
  ASSUME NEW m \in Mem, NEW k \in Key, NEW v \in Value
  PROVE  /\ insert(m, k, v) \in Mem /\ SameRest(insert(m, k, v), m)
         /\ insert(m, k, v).cache = [m.cache EXCEPT ![k] = v]
         /\ insert(m, k, v).add = [m.add EXCEPT ![k] = v]
         /\ insert(m, k, v).del = m.del \ {k}
  <1>1. m.cache \in Table /\ m.add \in Table /\ m.del \in SUBSET Key
    BY DEF Mem
  <1>2. [m.cache EXCEPT ![k] = v] \in Table /\ [m.add EXCEPT ![k] = v] \in Table /\ m.del \ {k} \in SUBSET Key
    BY <1>1 DEF Table
  <1> DEFINE c == [m.cache EXCEPT ![k] = v]
             a == [m.add EXCEPT ![k] = v]
             d == m.del \ {k}
  <1>3. insert(m, k, v) = [m EXCEPT !.del = d, !.add = a, !.cache = c]
    BY DEF insert
  <1>4. c \in Table /\ a \in Table /\ d \in SUBSET Key
    BY <1>2
  <1> HIDE DEF c, a, d
  <1>5. [m EXCEPT !.del = d, !.add = a, !.cache = c] \in Mem
    BY <1>4 DEF Mem
  <1>6. LET i == [m EXCEPT !.del = d, !.add = a, !.cache = c]
        IN  i.cache = c /\ i.add = a /\ i.del = d /\ i.stack = m.stack /\ i.port = m.port /\ i.stage = m.stage
            /\ i.todo = m.todo /\ i.op = m.op
    BY DEF Mem
  <1>7. [m EXCEPT !.del = d, !.add = a, !.cache = c].synced = m.synced
    BY DEF Mem
  <1>8. QED
    BY <1>3, <1>5, <1>6, <1>7 DEF SameRest, c, a, d

LEMMA InsertCache ==
  ASSUME NEW m \in Mem, NEW k \in Key, NEW v \in Value, NEW i, i = insert(m, k, v)
  PROVE  i \in Mem /\ SameRest(i, m) /\ i.cache = [m.cache EXCEPT ![k] = v]
  <1>1. insert(m, k, v) \in Mem /\ SameRest(insert(m, k, v), m)
    BY InsertOK
  <1>2. insert(m, k, v).cache = [m.cache EXCEPT ![k] = v]
    BY DEF insert, Mem
  <1>3. QED
    BY <1>1, <1>2, Zenon

LEMMA TableRemoveOK ==
  ASSUME NEW m \in Mem, NEW k \in Key
  PROVE  /\ remove(m, k) \in Mem /\ SameRest(remove(m, k), m)
         /\ remove(m, k).cache = [m.cache EXCEPT ![k] = None]
         /\ remove(m, k).add = [m.add EXCEPT ![k] = None]
         /\ remove(m, k).del = m.del \cup {k}
  <1> DEFINE c == [m.cache EXCEPT ![k] = None]
             a == [m.add EXCEPT ![k] = None]
             d == m.del \cup {k}
  <1>1. m.cache \in Table /\ m.add \in Table /\ m.del \in SUBSET Key
    BY DEF Mem
  <1>2. remove(m, k) = [m EXCEPT !.add = a, !.del = d, !.cache = c]
    BY DEF remove
  <1>3. c \in Table /\ a \in Table /\ d \in SUBSET Key
    BY <1>1 DEF Table
  <1> HIDE DEF c, a, d
  <1>4. [m EXCEPT !.add = a, !.del = d, !.cache = c] \in Mem
    BY <1>3 DEF Mem
  <1>5. LET i == [m EXCEPT !.add = a, !.del = d, !.cache = c]
        IN  i.cache = c /\ i.add = a /\ i.del = d /\ i.stack = m.stack /\ i.port = m.port /\ i.stage = m.stage
            /\ i.todo = m.todo /\ i.op = m.op
    BY DEF Mem
  <1>6. [m EXCEPT !.add = a, !.del = d, !.cache = c].synced = m.synced
    BY DEF Mem
  <1>7. QED
    BY <1>2, <1>4, <1>5, <1>6 DEF SameRest, c, a, d

LEMMA WrittenOK ==
  ASSUME NEW m \in Mem
  PROVE  /\ written(m) \in Mem /\ SameRest(written(m), m)
         /\ written(m).cache = m.cache /\ written(m).add = Empty /\ written(m).del = {}
  <1>1. written(m) = [m EXCEPT !.add = Empty, !.del = {}]
    BY DEF written
  <1>2. [m EXCEPT !.add = Empty, !.del = {}] \in Mem
    BY EmptyOK DEF Mem
  <1>3. LET i == [m EXCEPT !.add = Empty, !.del = {}]
        IN  i.cache = m.cache /\ i.add = Empty /\ i.del = {} /\ i.stack = m.stack /\ i.port = m.port
            /\ i.stage = m.stage /\ i.todo = m.todo /\ i.op = m.op
    BY DEF Mem
  <1>4. [m EXCEPT !.add = Empty, !.del = {}].synced = m.synced
    BY DEF Mem
  <1>5. QED
    BY <1>1, <1>2, <1>3, <1>4 DEF SameRest

LEMMA ImportOK ==
  ASSUME NEW m \in Mem, disk \in Disk
  PROVE  /\ import(m) \in Mem /\ import(m).cache = disk.db /\ import(m).add = Empty /\ import(m).del = {}
         /\ import(m).synced
         /\ import(m).port = m.port /\ import(m).op = m.op /\ import(m).stack = m.stack
         /\ import(m).stage = m.stage /\ import(m).todo = m.todo
  <1> DEFINE w == written(m)
             d == disk.db
  <1>1. w \in Mem /\ SameRest(w, m) /\ w.add = Empty /\ w.del = {} /\ d \in Table
    BY WrittenOK DEF Disk
  <1>2. import(m) = [w EXCEPT !.cache = d, !.synced = TRUE]
    BY DEF import
  <1> HIDE DEF w, d
  <1>3. [w EXCEPT !.cache = d, !.synced = TRUE] \in Mem
    BY <1>1 DEF Mem
  <1>4. LET i == [w EXCEPT !.cache = d, !.synced = TRUE]
        IN  i.cache = d /\ i.add = w.add /\ i.del = w.del /\ i.port = w.port /\ i.op = w.op /\ i.stack = w.stack
            /\ i.stage = w.stage /\ i.todo = w.todo
    BY <1>1 DEF Mem
  <1>5. [w EXCEPT !.cache = d, !.synced = TRUE].synced
    BY <1>1 DEF Mem
  <1>6. QED
    BY <1>1, <1>2, <1>3, <1>4, <1>5 DEF SameRest, d

\* What a commit leaves.
LEMMA ExportedOK ==
  ASSUME NEW db \in Table, NEW m \in Mem
  PROVE  exported(db, m) \in Table
  <1>1. m.add \in Table
    BY DEF Mem
  <1>2. QED
    BY <1>1 DEF exported, Table

LEMMA ExportedSame ==
  ASSUME NEW db, NEW m, NEW n, m.add = n.add, m.del = n.del
  PROVE  exported(db, m) = exported(db, n)
  BY DEF exported

LEMMA ExportedWritten ==
  ASSUME NEW db \in Table, NEW m, m.add = Empty, m.del = {}
  PROVE  exported(db, m) = db
  BY EmptyOK DEF exported, Table

LEMMA ExportedInsert ==
  ASSUME NEW db \in Table, NEW m \in Mem, NEW k \in Key, NEW v \in Value
  PROVE  /\ exported(db, insert(m, k, v)) = [exported(db, m) EXCEPT ![k] = v]
         /\ m.cache = exported(db, m) => insert(m, k, v).cache = exported(db, insert(m, k, v))
  <1>1. /\ insert(m, k, v).cache = [m.cache EXCEPT ![k] = v] /\ insert(m, k, v).add = [m.add EXCEPT ![k] = v]
        /\ insert(m, k, v).del = m.del \ {k} /\ m.add \in Table
    BY InsertOK DEF Mem
  <1>2. v # None
    BY Keys
  <1> DEFINE i == insert(m, k, v)
  <1>5. i.add = [m.add EXCEPT ![k] = v] /\ i.del = m.del \ {k} /\ m.add \in Table
    BY <1>1
  <1> HIDE DEF i
  <1>6. ASSUME NEW x \in Key
        PROVE  exported(db, i)[x] = IF x = k THEN v ELSE exported(db, m)[x]
    <2>1. CASE x = k
      <3>1. i.add[x] = v /\ x \notin i.del
        BY <1>5, <2>1 DEF Table
      <3>2. QED
        BY <3>1, <1>2, <2>1 DEF exported
    <2>2. CASE x # k
      <3>1. i.add[x] = m.add[x] /\ (x \in i.del <=> x \in m.del)
        BY <1>5, <2>2 DEF Table
      <3>2. QED
        BY <3>1, <2>2 DEF exported
    <2>3. QED
      BY <2>1, <2>2
  <1>7. exported(db, i) = [exported(db, m) EXCEPT ![k] = v]
    BY <1>6 DEF exported
  <1>3. exported(db, insert(m, k, v)) = [exported(db, m) EXCEPT ![k] = v]
    BY <1>7 DEF i
  <1>4. QED
    BY <1>1, <1>3

LEMMA ExportedRemove ==
  ASSUME NEW db \in Table, NEW m \in Mem, NEW k \in Key
  PROVE  /\ exported(db, remove(m, k)) = [exported(db, m) EXCEPT ![k] = None]
         /\ m.cache = exported(db, m) => remove(m, k).cache = exported(db, remove(m, k))
  <1>1. /\ remove(m, k).cache = [m.cache EXCEPT ![k] = None] /\ remove(m, k).add = [m.add EXCEPT ![k] = None]
        /\ remove(m, k).del = m.del \cup {k} /\ m.add \in Table
    BY TableRemoveOK DEF Mem
  <1>2. exported(db, remove(m, k)) = [exported(db, m) EXCEPT ![k] = None]
    BY <1>1 DEF exported, Table
  <1>3. QED
    BY <1>1, <1>2
-----------------------------------------------------------------------------
(* What an update of the process leaves alone. *)

Stage == {"start", "compensate", "db_map", "close_marked", "clear_marked", "clear_unit",
          "clear_frame", "boot", "enable", "tail", "ok"}
Todo == Frame \cup {None}
PortMap == [Unit -> {0} \cup Fd]
WithStageTodo(m, s, t) == [m EXCEPT !.stage = s, !.todo = t]
WithOpPort(m, u, n) == [m EXCEPT !.op = NoOp, !.port[u] = n]
PortFd == {0} \cup Fd
PortSet(m, u, n) == [m.port EXCEPT ![u] = n]
WithPortStage(m, p, s) == [m EXCEPT !.port = p, !.stage = s]
WithReload(m, s, t, p) == [m EXCEPT !.stage = s, !.todo = t, !.port = p]
WithStackTodo(m, s, t) == [m EXCEPT !.stack = s, !.todo = t]
WithOpStack(m, o, s) == [m EXCEPT !.op = o, !.stack = s]
WithFrameEnd(m, o, s, t, g) == [m EXCEPT !.op = o, !.stack = s, !.todo = t, !.stage = g]
SameTables(w, m) == w.cache = m.cache /\ w.add = m.add /\ w.del = m.del /\ w.synced = m.synced

LEMMA MemFields ==
  ASSUME NEW m \in Mem
  PROVE  /\ m.cache \in Table /\ m.add \in Table /\ m.del \in SUBSET Key /\ m.stack \in Seq(Pair)
         /\ m.port \in PortMap /\ m.stage \in Stage /\ m.todo \in Todo /\ m.op \in OpRec
  BY DEF Mem, PortMap, Stage, Todo, OpRec

LEMMA DiskFields ==
  ASSUME NEW d \in Disk
  PROVE  /\ d.db \in Table /\ d.unit \in Unit \cup {None} /\ d.frames \in Seq(Frame)
         /\ d.pend \in [Fd -> {None} \cup Mark]
  BY DEF Disk

LEMMA SetStage ==
  ASSUME NEW m \in Mem, NEW s \in Stage, NEW w, w = [m EXCEPT !.stage = s]
  PROVE  /\ w \in Mem /\ SameTables(w, m) /\ w.stage = s /\ w.todo = m.todo
         /\ w.stack = m.stack /\ w.port = m.port /\ w.op = m.op
  <1>1. w \in Mem
    BY DEF Mem, Stage
  <1>2. /\ w.stage = s /\ w.todo = m.todo /\ w.stack = m.stack /\ w.port = m.port /\ w.op = m.op
        /\ w.cache = m.cache /\ w.add = m.add /\ w.del = m.del
    BY DEF Mem
  <1>3. w.synced = m.synced
    BY DEF Mem
  <1>4. QED
    BY <1>1, <1>2, <1>3 DEF SameTables

LEMMA SetStageTodo ==
  ASSUME NEW m \in Mem, NEW s \in Stage, NEW t \in Todo, NEW w, w = WithStageTodo(m, s, t)
  PROVE  /\ w \in Mem /\ SameTables(w, m) /\ w.stage = s /\ w.todo = t
         /\ w.stack = m.stack /\ w.port = m.port /\ w.op = m.op
  <1>1. w \in Mem
    BY DEF WithStageTodo, Mem, Stage, Todo
  <1>2. /\ w.stage = s /\ w.todo = t /\ w.stack = m.stack /\ w.port = m.port /\ w.op = m.op
        /\ w.cache = m.cache /\ w.add = m.add /\ w.del = m.del
    BY DEF WithStageTodo, Mem
  <1>3. w.synced = m.synced
    BY DEF WithStageTodo, Mem
  <1>4. QED
    BY <1>1, <1>2, <1>3 DEF SameTables

LEMMA SetOp ==
  ASSUME NEW m \in Mem, NEW o \in OpRec, NEW w, w = [m EXCEPT !.op = o]
  PROVE  /\ w \in Mem /\ SameTables(w, m) /\ w.stage = m.stage /\ w.todo = m.todo
         /\ w.stack = m.stack /\ w.port = m.port /\ w.op = o
  <1>1. w \in Mem
    BY DEF Mem, OpRec
  <1>2. /\ w.stage = m.stage /\ w.todo = m.todo /\ w.stack = m.stack /\ w.port = m.port /\ w.op = o
        /\ w.cache = m.cache /\ w.add = m.add /\ w.del = m.del
    BY DEF Mem
  <1>3. w.synced = m.synced
    BY DEF Mem
  <1>4. QED
    BY <1>1, <1>2, <1>3 DEF SameTables

LEMMA SetStep ==
  ASSUME NEW m \in Mem, NEW i \in 0..3, NEW w, w = [m EXCEPT !.op.step = i]
  PROVE  /\ w \in Mem /\ SameTables(w, m) /\ w.stage = m.stage /\ w.todo = m.todo
         /\ w.stack = m.stack /\ w.port = m.port
         /\ w.op.k = m.op.k /\ w.op.fd = m.op.fd /\ w.op.step = i
  <1> DEFINE o == [m.op EXCEPT !.step = i]
  <1>1. m.op \in OpRec
    BY MemFields
  <1>2. o \in OpRec /\ o.k = m.op.k /\ o.fd = m.op.fd /\ o.step = i
    BY <1>1 DEF OpRec
  <1>3. w = [m EXCEPT !.op = o]
    OBVIOUS
  <1> HIDE DEF o
  <1>4. /\ w \in Mem /\ SameTables(w, m) /\ w.stage = m.stage /\ w.todo = m.todo
        /\ w.stack = m.stack /\ w.port = m.port /\ w.op = o
    BY ONLY <1>2, <1>3, m \in Mem, SetOp
  <1>5. QED
    BY <1>2, <1>4, Zenon

LEMMA SetOpPort ==
  ASSUME NEW m \in Mem, NEW u \in Unit, NEW n \in PortFd, NEW w,
         w = WithOpPort(m, u, n)
  PROVE  /\ w \in Mem /\ SameTables(w, m) /\ w.stage = m.stage /\ w.todo = m.todo
         /\ w.stack = m.stack /\ w.port = PortSet(m, u, n) /\ w.op = NoOp
  <1> DEFINE p == [m.port EXCEPT ![u] = n]
             o == NoOp
  <1>1. p \in PortMap /\ o \in OpRec
    BY MemFields, NoOpOK DEF PortMap, PortFd
  <1>2. w = [m EXCEPT !.op = o, !.port = p]
    BY DEF WithOpPort
  <1> HIDE DEF p, o
  <1>3. w \in Mem
    BY <1>1, <1>2 DEF Mem, OpRec, PortMap
  <1>4. /\ w.stage = m.stage /\ w.todo = m.todo /\ w.stack = m.stack /\ w.port = p /\ w.op = o
        /\ w.cache = m.cache /\ w.add = m.add /\ w.del = m.del
    BY <1>2 DEF Mem
  <1>5. w.synced = m.synced
    BY <1>2 DEF Mem
  <1>6. QED
    BY <1>3, <1>4, <1>5 DEF SameTables, PortSet, p, o

LEMMA SetPortStage ==
  ASSUME NEW m \in Mem, NEW p \in PortMap, NEW s \in Stage, NEW w, w = WithPortStage(m, p, s)
  PROVE  /\ w \in Mem /\ SameTables(w, m) /\ w.stage = s /\ w.todo = m.todo
         /\ w.stack = m.stack /\ w.port = p /\ w.op = m.op
  <1>1. w \in Mem
    BY DEF WithPortStage, Mem, Stage, PortMap
  <1>2. /\ w.stage = s /\ w.todo = m.todo /\ w.stack = m.stack /\ w.port = p /\ w.op = m.op
        /\ w.cache = m.cache /\ w.add = m.add /\ w.del = m.del
    BY DEF WithPortStage, Mem
  <1>3. w.synced = m.synced
    BY DEF WithPortStage, Mem
  <1>4. QED
    BY <1>1, <1>2, <1>3 DEF SameTables

LEMMA SetReload ==
  ASSUME NEW m \in Mem, NEW p \in PortMap, NEW s \in Stage, NEW t \in Todo, NEW w,
         w = WithReload(m, s, t, p)
  PROVE  /\ w \in Mem /\ SameTables(w, m) /\ w.stage = s /\ w.todo = t
         /\ w.stack = m.stack /\ w.port = p /\ w.op = m.op
  <1>1. w \in Mem
    BY DEF WithReload, Mem, Stage, PortMap, Todo
  <1>2. /\ w.stage = s /\ w.todo = t /\ w.stack = m.stack /\ w.port = p /\ w.op = m.op
        /\ w.cache = m.cache /\ w.add = m.add /\ w.del = m.del
    BY DEF WithReload, Mem
  <1>3. w.synced = m.synced
    BY DEF WithReload, Mem
  <1>4. QED
    BY <1>1, <1>2, <1>3 DEF SameTables

LEMMA SetStackTodo ==
  ASSUME NEW m \in Mem, NEW s \in Seq(Pair), NEW t \in Todo, NEW w, w = WithStackTodo(m, s, t)
  PROVE  /\ w \in Mem /\ SameTables(w, m) /\ w.stage = m.stage /\ w.todo = t
         /\ w.stack = s /\ w.port = m.port /\ w.op = m.op
  <1>1. w \in Mem
    BY DEF WithStackTodo, Mem, Todo
  <1>2. /\ w.stage = m.stage /\ w.todo = t /\ w.stack = s /\ w.port = m.port /\ w.op = m.op
        /\ w.cache = m.cache /\ w.add = m.add /\ w.del = m.del
    BY DEF WithStackTodo, Mem
  <1>3. w.synced = m.synced
    BY DEF WithStackTodo, Mem
  <1>4. QED
    BY <1>1, <1>2, <1>3 DEF SameTables

LEMMA SetStack ==
  ASSUME NEW m \in Mem, NEW s \in Seq(Pair), NEW w, w = [m EXCEPT !.stack = s]
  PROVE  /\ w \in Mem /\ SameTables(w, m) /\ w.stage = m.stage /\ w.todo = m.todo
         /\ w.stack = s /\ w.port = m.port /\ w.op = m.op
  <1>1. w \in Mem
    BY DEF Mem
  <1>2. /\ w.stage = m.stage /\ w.todo = m.todo /\ w.stack = s /\ w.port = m.port /\ w.op = m.op
        /\ w.cache = m.cache /\ w.add = m.add /\ w.del = m.del
    BY DEF Mem
  <1>3. w.synced = m.synced
    BY DEF Mem
  <1>4. QED
    BY <1>1, <1>2, <1>3 DEF SameTables

LEMMA SetOpStack ==
  ASSUME NEW m \in Mem, NEW s \in Seq(Pair), NEW o \in OpRec, NEW w, w = WithOpStack(m, o, s)
  PROVE  /\ w \in Mem /\ SameTables(w, m) /\ w.stage = m.stage /\ w.todo = m.todo
         /\ w.stack = s /\ w.port = m.port /\ w.op = o
  <1>1. w \in Mem
    BY DEF WithOpStack, Mem, OpRec
  <1>2. /\ w.stage = m.stage /\ w.todo = m.todo /\ w.stack = s /\ w.port = m.port /\ w.op = o
        /\ w.cache = m.cache /\ w.add = m.add /\ w.del = m.del
    BY DEF WithOpStack, Mem
  <1>3. w.synced = m.synced
    BY DEF WithOpStack, Mem
  <1>4. QED
    BY <1>1, <1>2, <1>3 DEF SameTables

LEMMA SetFrameEnd ==
  ASSUME NEW m \in Mem, NEW s \in Seq(Pair), NEW o \in OpRec, NEW t \in Todo, NEW g \in Stage, NEW w,
         w = WithFrameEnd(m, o, s, t, g)
  PROVE  /\ w \in Mem /\ SameTables(w, m) /\ w.stage = g /\ w.todo = t
         /\ w.stack = s /\ w.port = m.port /\ w.op = o
  <1>1. w \in Mem
    BY DEF WithFrameEnd, Mem, OpRec, Todo, Stage
  <1>2. /\ w.stage = g /\ w.todo = t /\ w.stack = s /\ w.port = m.port /\ w.op = o
        /\ w.cache = m.cache /\ w.add = m.add /\ w.del = m.del
    BY DEF WithFrameEnd, Mem
  <1>3. w.synced = m.synced
    BY DEF WithFrameEnd, Mem
  <1>4. QED
    BY <1>1, <1>2, <1>3 DEF SameTables
-----------------------------------------------------------------------------
(* A step of the tables: m has the records of the process, or what is written to *)
(* them now, and is committed or not.                                            *)

Answer(m, u) == exported(disk.db, m)[<<"port", u>>]
View(m) ==
  /\ m \in Mem /\ SameRest(m, mem)
  /\ mem.synced => m.cache = exported(disk.db, m)
  /\ \A u \in Unit : /\ Answer(m, u) \in {Answer(mem, u), mem.port[u]}
                     /\ m.cache[<<"port", u>>] \in {mem.cache[<<"port", u>>], mem.port[u]}

LEMMA ViewSelf == RInv => View(mem)
  BY DEF RInv, LTypeOK, Stored, View, SameRest, Answer

\* A key that is no port's may be written and removed.
Other(k) == k \in Key /\ \A u \in Unit : k # <<"port", u>>

LEMMA ViewInsert ==
  ASSUME RInv, NEW k, Other(k), NEW v \in Value
  PROVE  View(insert(mem, k, v)) /\ \A u \in Unit : Answer(insert(mem, k, v), u) = Answer(mem, u)
  <1>1. mem \in Mem /\ disk.db \in Table /\ k \in Key /\ (mem.synced => mem.cache = exported(disk.db, mem))
    BY DiskFields DEF RInv, LTypeOK, Other, Stored
  <1> DEFINE i == insert(mem, k, v)
             ex == exported(disk.db, mem)
             f == exported(disk.db, i)
  <1>2. i \in Mem /\ SameRest(i, mem) /\ i.cache = [mem.cache EXCEPT ![k] = v]
    BY <1>1, InsertCache
  <1>3. f = [ex EXCEPT ![k] = v] /\ (mem.synced => i.cache = f)
    BY <1>1, ExportedInsert
  <1>4. mem.cache \in Table /\ ex \in Table
    BY <1>1, ExportedOK, MemFields
  <1> HIDE DEF i, ex, f
  <1>5. ASSUME NEW u \in Unit
        PROVE  f[<<"port", u>>] = ex[<<"port", u>>] /\ i.cache[<<"port", u>>] = mem.cache[<<"port", u>>]
    <2>1. <<"port", u>> \in Key /\ <<"port", u>> # k
      BY Keys DEF Other
    <2>2. QED
      BY <1>2, <1>3, <1>4, <2>1 DEF Table
  <1>6. \A u \in Unit : Answer(i, u) = Answer(mem, u)
    BY <1>5 DEF Answer, ex, f
  <1>7. mem.synced => i.cache = exported(disk.db, i)
    BY <1>3 DEF f
  <1>8. View(i)
    BY <1>2, <1>5, <1>6, <1>7 DEF View
  <1>9. QED
    BY <1>6, <1>8 DEF i

LEMMA ViewRemove ==
  ASSUME RInv, NEW k, Other(k)
  PROVE  View(remove(mem, k))
  <1>1. mem \in Mem /\ disk.db \in Table /\ k \in Key /\ (mem.synced => mem.cache = exported(disk.db, mem))
    BY DiskFields DEF RInv, LTypeOK, Other, Stored
  <1> DEFINE i == remove(mem, k)
             ex == exported(disk.db, mem)
             f == exported(disk.db, i)
  <1>2. i \in Mem /\ SameRest(i, mem) /\ i.cache = [mem.cache EXCEPT ![k] = None]
    BY <1>1, TableRemoveOK
  <1>3. f = [ex EXCEPT ![k] = None] /\ (mem.synced => i.cache = f)
    BY <1>1, ExportedRemove
  <1>4. mem.cache \in Table /\ ex \in Table
    BY <1>1, ExportedOK, MemFields
  <1> HIDE DEF i, ex, f
  <1>5. ASSUME NEW u \in Unit
        PROVE  f[<<"port", u>>] = ex[<<"port", u>>] /\ i.cache[<<"port", u>>] = mem.cache[<<"port", u>>]
    <2>1. <<"port", u>> \in Key /\ <<"port", u>> # k
      BY Keys DEF Other
    <2>2. QED
      BY <1>2, <1>3, <1>4, <2>1 DEF Table
  <1>6. \A u \in Unit : Answer(i, u) = Answer(mem, u)
    BY <1>5 DEF Answer, ex, f
  <1>7. mem.synced => i.cache = exported(disk.db, i)
    BY <1>3 DEF f
  <1>8. View(i)
    BY <1>2, <1>5, <1>6, <1>7 DEF View
  <1>9. QED
    BY <1>8 DEF i

\* db_update of a port writes the descriptor the port holds.
LEMMA ViewPort ==
  ASSUME RInv, NEW u \in Unit
  PROVE  View(insert(mem, <<"port", u>>, mem.port[u]))
  <1>1. mem \in Mem /\ disk.db \in Table /\ (mem.synced => mem.cache = exported(disk.db, mem))
    BY DiskFields DEF RInv, LTypeOK, Stored
  <1>2. <<"port", u>> \in Key /\ mem.port[u] \in Value
    BY <1>1, Keys, MemFields DEF PortMap
  <1> DEFINE k == <<"port", u>>
             v == mem.port[u]
             i == insert(mem, k, v)
             ex == exported(disk.db, mem)
             f == exported(disk.db, i)
  <1>3. i \in Mem /\ SameRest(i, mem) /\ i.cache = [mem.cache EXCEPT ![k] = v]
    BY <1>1, <1>2, InsertCache
  <1>4. f = [ex EXCEPT ![k] = v] /\ (mem.synced => i.cache = f)
    BY <1>1, <1>2, ExportedInsert
  <1>5. mem.cache \in Table /\ ex \in Table
    BY <1>1, ExportedOK, MemFields
  <1> HIDE DEF i, ex, f
  <1>6. ASSUME NEW x \in Unit
        PROVE  /\ f[<<"port", x>>] \in {ex[<<"port", x>>], mem.port[x]}
               /\ i.cache[<<"port", x>>] \in {mem.cache[<<"port", x>>], mem.port[x]}
    <2>1. <<"port", x>> \in Key
      BY Keys
    <2>2. CASE x = u
      BY <1>3, <1>4, <1>5, <2>1, <2>2 DEF Table
    <2>3. CASE x # u
      <3>1. <<"port", x>> # <<"port", u>>
        BY <2>3
      <3>2. QED
        BY <1>3, <1>4, <1>5, <2>1, <3>1 DEF Table
    <2>4. QED
      BY <2>2, <2>3
  <1>7. \A x \in Unit : Answer(i, x) \in {Answer(mem, x), mem.port[x]}
    BY <1>6 DEF Answer, ex, f
  <1>8. mem.synced => i.cache = exported(disk.db, i)
    BY <1>4 DEF f
  <1>9. View(i)
    BY <1>3, <1>6, <1>7, <1>8 DEF View
  <1>10. QED
    BY <1>9 DEF i

\* What a step of the tables keeps.
TablesKept ==
  /\ Stored' /\ PortRecs'
  /\ \A u \in Unit, n \in Fd : mem.port[u] = n /\ Recorded(u, n) => Recorded(u, n)'

LEMMA InMemory ==
  ASSUME RInv, NEW m, View(m), SameTables(mem', m), disk'.db = disk.db
  PROVE  TablesKept
  <1>0. /\ \A u \in Unit : /\ mem.cache[<<"port", u>>] \in PortValue /\ disk.db[<<"port", u>>] \in PortValue
                           /\ exported(disk.db, mem)[<<"port", u>>] \in PortValue
        /\ \A u \in Unit : mem.port[u] \in PortValue
    BY MemFields DEF RInv, PortRecs, LTypeOK, PortMap, PortValue
  <1>1. exported(disk'.db, mem') = exported(disk.db, m)
    BY DEF exported, SameTables
  <1>2. Stored'
    <2>1. mem'.synced = mem.synced
      BY DEF SameTables, SameRest, View
    <2>2. QED
      BY <1>1, <2>1 DEF Stored, View, SameTables
  <1>3. PortRecs'
    BY <1>0, <1>1 DEF PortRecs, View, SameTables, Answer
  <1>4. \A u \in Unit, n \in Fd : mem.port[u] = n /\ Recorded(u, n) => Recorded(u, n)'
    BY <1>1 DEF Recorded, View, Answer
  <1>5. QED
    BY <1>2, <1>3, <1>4 DEF TablesKept

LEMMA Committed ==
  ASSUME RInv, NEW m, View(m), SameTables(mem', written(m)), disk'.db = exported(disk.db, m)
  PROVE  TablesKept
  <1>0. /\ \A u \in Unit : /\ mem.cache[<<"port", u>>] \in PortValue /\ disk.db[<<"port", u>>] \in PortValue
                           /\ exported(disk.db, mem)[<<"port", u>>] \in PortValue
        /\ \A u \in Unit : mem.port[u] \in PortValue
    BY MemFields DEF RInv, PortRecs, LTypeOK, PortMap, PortValue
  <1>1. m \in Mem /\ disk.db \in Table /\ m.synced = mem.synced
    BY DiskFields DEF RInv, LTypeOK, View, SameRest
  <1>2. disk'.db \in Table
    BY <1>1, ExportedOK
  <1>3. /\ written(m).cache = m.cache /\ written(m).add = Empty /\ written(m).del = {}
        /\ written(m).synced = m.synced
    BY <1>1, WrittenOK DEF SameRest
  <1>4. exported(disk'.db, mem') = disk'.db
    BY <1>2, <1>3, ExportedWritten DEF SameTables
  <1>5. Stored'
    <2>1. mem'.synced = mem.synced
      BY <1>1, <1>3 DEF SameTables
    <2>2. QED
      BY <1>3, <1>4, <2>1 DEF Stored, View, SameTables
  <1>6. PortRecs'
    <2>1. ASSUME NEW u \in Unit
          PROVE  disk'.db[<<"port", u>>] \in PortValue /\ mem'.cache[<<"port", u>>] \in PortValue
      <3>1. disk'.db[<<"port", u>>] \in {Answer(mem, u), mem.port[u]}
        BY DEF View, Answer
      <3>2. mem'.cache[<<"port", u>>] \in {mem.cache[<<"port", u>>], mem.port[u]}
        BY <1>3 DEF View, SameTables
      <3>3. QED
        BY <1>0, <3>1, <3>2 DEF Answer
    <2>2. QED
      BY <1>4, <2>1 DEF PortRecs
  <1>7. \A u \in Unit, n \in Fd : mem.port[u] = n /\ Recorded(u, n) => Recorded(u, n)'
    BY <1>4 DEF Recorded, View, Answer
  <1>8. QED
    BY <1>5, <1>6, <1>7 DEF TablesKept

\* A step past the recovery of the ports that leaves ports, descriptors and marks alone.
LEMMA QuietStep ==
  ASSUME RInv, TablesKept, mem.stage \notin Before, mem'.stage \notin Before \cup {"clear_marked"},
         mem'.port = mem.port, kern' = kern, disk'.pend = disk.pend, disk.enable => disk'.enable,
         mem'.stage \in {"boot", "enable"} \/ disk'.enable,
         mem'.op.k \notin {"open", "close"},
         mem'.op.k # "none" => mem'.stage \in {"ok", "boot"} /\ mem'.stack # <<>>
  PROVE  Fresh' /\ FdInv'
  <1>0. Unmarked /\ Kept
    BY DEF RInv, FdInv
  <1>1. Fresh' /\ NoPorts' /\ ClosedMarked'
    BY DEF Fresh, NoPorts, ClosedMarked, Before
  <1>2. Enabled_'
    BY DEF Enabled_
  <1>3. Unmarked'
    BY <1>0 DEF Unmarked
  <1>4. Ops'
    BY DEF Ops
  <1>5. Kept'
    BY <1>0 DEF Kept, TablesKept
  <1>6. QED
    BY <1>1, <1>2, <1>3, <1>4, <1>5 DEF FdInv
-----------------------------------------------------------------------------
(* The same for the committed data. *)

WithDbFrames(d, b, s) == [d EXCEPT !.db = b, !.frames = s]
WithPendDb(d, p, b) == [d EXCEPT !.pend = p, !.db = b]
Marks == [Fd -> {None} \cup Mark]

LEMMA DiskDb ==
  ASSUME NEW d \in Disk, NEW b \in Table, NEW w, w = [d EXCEPT !.db = b]
  PROVE  /\ w \in Disk /\ w.db = b /\ w.unit = d.unit /\ w.frames = d.frames /\ w.pend = d.pend
         /\ w.enable = d.enable
  <1>1. w \in Disk
    BY DEF Disk, Marks
  <1>2. w.db = b /\ w.unit = d.unit /\ w.frames = d.frames /\ w.pend = d.pend
    BY DEF Disk
  <1>3. w.enable = d.enable
    BY DEF Disk
  <1>4. QED
    BY <1>1, <1>2, <1>3

LEMMA DiskUnit ==
  ASSUME NEW d \in Disk, NEW u \in Unit \cup {None}, NEW w, w = [d EXCEPT !.unit = u]
  PROVE  /\ w \in Disk /\ w.db = d.db /\ w.unit = u /\ w.frames = d.frames /\ w.pend = d.pend
         /\ w.enable = d.enable
  <1>1. w \in Disk
    BY DEF Disk, Marks
  <1>2. w.db = d.db /\ w.unit = u /\ w.frames = d.frames /\ w.pend = d.pend
    BY DEF Disk
  <1>3. w.enable = d.enable
    BY DEF Disk
  <1>4. QED
    BY <1>1, <1>2, <1>3

LEMMA DiskFrames ==
  ASSUME NEW d \in Disk, NEW s \in Seq(Frame), NEW w, w = [d EXCEPT !.frames = s]
  PROVE  /\ w \in Disk /\ w.db = d.db /\ w.unit = d.unit /\ w.frames = s /\ w.pend = d.pend
         /\ w.enable = d.enable
  <1>1. w \in Disk
    BY DEF Disk, Marks
  <1>2. w.db = d.db /\ w.unit = d.unit /\ w.frames = s /\ w.pend = d.pend
    BY DEF Disk
  <1>3. w.enable = d.enable
    BY DEF Disk
  <1>4. QED
    BY <1>1, <1>2, <1>3

LEMMA DiskDbFrames ==
  ASSUME NEW d \in Disk, NEW b \in Table, NEW s \in Seq(Frame), NEW w, w = WithDbFrames(d, b, s)
  PROVE  /\ w \in Disk /\ w.db = b /\ w.unit = d.unit /\ w.frames = s /\ w.pend = d.pend
         /\ w.enable = d.enable
  <1>1. w \in Disk
    BY DEF WithDbFrames, Disk, Marks
  <1>2. w.db = b /\ w.unit = d.unit /\ w.frames = s /\ w.pend = d.pend
    BY DEF WithDbFrames, Disk
  <1>3. w.enable = d.enable
    BY DEF WithDbFrames, Disk
  <1>4. QED
    BY <1>1, <1>2, <1>3

LEMMA DiskPend ==
  ASSUME NEW d \in Disk, NEW p \in Marks, NEW w, w = [d EXCEPT !.pend = p]
  PROVE  /\ w \in Disk /\ w.db = d.db /\ w.unit = d.unit /\ w.frames = d.frames /\ w.pend = p
         /\ w.enable = d.enable
  <1>1. w \in Disk
    BY DEF Disk, Marks
  <1>2. w.db = d.db /\ w.unit = d.unit /\ w.frames = d.frames /\ w.pend = p
    BY DEF Disk
  <1>3. w.enable = d.enable
    BY DEF Disk
  <1>4. QED
    BY <1>1, <1>2, <1>3

LEMMA DiskPendDb ==
  ASSUME NEW d \in Disk, NEW p \in Marks, NEW b \in Table, NEW w, w = WithPendDb(d, p, b)
  PROVE  /\ w \in Disk /\ w.db = b /\ w.unit = d.unit /\ w.frames = d.frames /\ w.pend = p
         /\ w.enable = d.enable
  <1>1. w \in Disk
    BY DEF WithPendDb, Disk, Marks
  <1>2. w.db = b /\ w.unit = d.unit /\ w.frames = d.frames /\ w.pend = p
    BY DEF WithPendDb, Disk
  <1>3. w.enable = d.enable
    BY DEF WithPendDb, Disk
  <1>4. QED
    BY <1>1, <1>2, <1>3

LEMMA DiskEnable ==
  ASSUME NEW d \in Disk, NEW w, w = [d EXCEPT !.enable = TRUE]
  PROVE  /\ w \in Disk /\ w.db = d.db /\ w.unit = d.unit /\ w.frames = d.frames /\ w.pend = d.pend
         /\ w.enable
  <1>1. w \in Disk
    BY DEF Disk
  <1>2. w.db = d.db /\ w.unit = d.unit /\ w.frames = d.frames /\ w.pend = d.pend
    BY DEF Disk
  <1>3. w.enable
    BY DEF Disk
  <1>4. QED
    BY <1>1, <1>2, <1>3

LEMMA Facts ==
  RInv => /\ mem \in Mem /\ disk \in Disk /\ kern \in [Fd -> {"free", "cloexec", "kept", "lost"}]
          /\ intr \subseteq Pair /\ comp \in Pair \cup {None} /\ cut \in BOOLEAN
          /\ crashes \in Nat /\ events \in Nat
  BY DEF RInv, LTypeOK

LEMMA FramePopOK ==
  ASSUME NEW S, NEW s \in Seq(S)
  PROVE  Pop(s) \in Seq(S)
  <1>1. CASE s = <<>>
    BY <1>1 DEF Pop
  <1>2. CASE s # <<>>
    <2>1. Len(s) \in Nat /\ Len(s) # 0
      BY <1>2
    <2>2. QED
      BY <1>2, <2>1 DEF Pop
  <1>3. QED
    BY <1>1, <1>2

LEMMA TopOK ==
  ASSUME mem \in Mem
  PROVE  /\ Top.f \in Frame \cup {None} /\ Top.u \in Unit \cup {None}
         /\ mem.stack = <<>> => Top.f = None /\ Top.u = None
         /\ mem.stack # <<>> => Len(mem.stack) \in 1..Len(mem.stack) /\ Top = mem.stack[Len(mem.stack)]
  <1>1. mem.stack \in Seq(Pair)
    BY MemFields
  <1>2. CASE mem.stack = <<>>
    BY <1>2 DEF Top
  <1>3. CASE mem.stack # <<>>
    <2>1. Len(mem.stack) \in Nat /\ Len(mem.stack) # 0
      BY <1>1, <1>3
    <2>2. Len(mem.stack) \in 1..Len(mem.stack)
      BY <2>1
    <2>3. Top = mem.stack[Len(mem.stack)]
      BY <1>3 DEF Top, Head_
    <2>4. mem.stack[Len(mem.stack)] \in Pair
      BY <1>1, <2>2
    <2>5. QED
      BY <1>3, <2>2, <2>3, <2>4 DEF Pair
  <1>4. QED
    BY <1>2, <1>3

\* The unit of the top frame.
LEMMA StackUnit ==
  ASSUME NEW s \in Seq(Pair), s # <<>>, NEW u \in Unit \cup {None}
  PROVE  [s EXCEPT ![Len(s)].u = u] \in Seq(Pair) /\ [s EXCEPT ![Len(s)].u = u] # <<>>
  <1>1. Len(s) \in Nat /\ Len(s) # 0
    OBVIOUS
  <1> DEFINE l == Len(s)
  <1>2. l \in 1..l /\ s[l] \in Pair
    BY <1>1
  <1> DEFINE r == [s[l] EXCEPT !.u = u]
  <1>3. r \in Pair
    BY <1>2 DEF Pair
  <1>4. [s EXCEPT ![Len(s)].u = u] = [s EXCEPT ![l] = r]
    OBVIOUS
  <1> HIDE DEF r
  <1>5. [s EXCEPT ![l] = r] \in Seq(Pair) /\ Len([s EXCEPT ![l] = r]) = Len(s)
    BY <1>2, <1>3
  <1>6. QED
    BY <1>1, <1>4, <1>5
LEMMA QuietDone ==
  ASSUME RInv, TablesKept, mem.stage \notin Before, mem'.stage \notin Before \cup {"clear_marked"},
         mem'.port = mem.port, kern' = kern, disk'.pend = disk.pend, disk.enable => disk'.enable,
         mem'.stage \in {"boot", "enable"} \/ disk'.enable,
         mem'.op.k \notin {"open", "close"},
         mem'.op.k # "none" => mem'.stage \in {"ok", "boot"} /\ mem'.stack # <<>>,
         mem' \in Mem, disk' \in Disk, intr' \subseteq Pair, comp' \in Pair \cup {None}, cut' = cut,
         crashes' = crashes, events' \in Nat
  PROVE  RInv'
  <1>1. Fresh' /\ FdInv'
    BY QuietStep
  <1>2. LTypeOK'
    BY Facts DEF LTypeOK
  <1>3. QED
    BY <1>1, <1>2 DEF RInv, TablesKept

-----------------------------------------------------------------------------
(* The actions that leave ports, descriptors and marks alone. *)

LEMMA NoneNoFrame == None \notin Frame /\ None \notin Mark
  BY ReliAssumption

LEMMA OtherKeys ==
  Other(FdListen) /\ \A u \in Unit : Other(<<"trigger", u>>)
  BY Keys DEF Other

LEMMA RunningStage ==
  ASSUME RInv, mem.stage \in {"ok", "boot"}
  PROVE  mem.stage \notin Before \cup {"clear_marked"} /\ (mem.stage \in {"boot", "enable"} \/ disk.enable)
  BY DEF RInv, FdInv, Enabled_, Before

LEMMA DoSetFrame ==
  ASSUME RInv, NEW f \in Frame, SetFrame(f)
  PROVE  RInv'
  <1>0. mem \in Mem /\ disk \in Disk /\ events \in Nat /\ comp \in Pair \cup {None} /\ intr \subseteq Pair
    BY Facts
  <1>1. mem.stage \in {"ok", "boot"} /\ mem.op.k = "none"
    BY DEF SetFrame, Running
  <1> DEFINE m == IF Top.f = "SubManager" THEN insert(mem, FdListen, 0) ELSE mem
             s == Append(m.stack, [f |-> f, u |-> None])
             fr == Append(disk.frames, f)
  <1>2. mem' = [m EXCEPT !.stack = s, !.todo = None] /\ disk' = [disk EXCEPT !.frames = fr]
    BY DEF SetFrame
  <1>3. View(m)
    BY Keys, OtherKeys, ViewInsert, ViewSelf
  <1> HIDE DEF m
  <1>4. m \in Mem /\ m.stage = mem.stage /\ m.port = mem.port /\ m.op = mem.op
    BY <1>3 DEF View, SameRest
  <1>5. s \in Seq(Pair) /\ fr \in Seq(Frame) /\ None \in Todo
    <2>1. m.stack \in Seq(Pair) /\ disk.frames \in Seq(Frame) /\ None \in Todo
      BY <1>0, <1>4, MemFields, DiskFields DEF Todo
    <2>2. [f |-> f, u |-> None] \in Pair
      BY DEF Pair
    <2>3. QED
      BY <2>1, <2>2
  <1> HIDE DEF s, fr
  <1>6. /\ mem' \in Mem /\ SameTables(mem', m) /\ mem'.stage = mem.stage /\ mem'.port = mem.port
        /\ mem'.op = mem.op
    <2>1. mem' = WithStackTodo(m, s, None)
      BY <1>2 DEF WithStackTodo
    <2>2. QED
      BY <1>4, <1>5, <2>1, SetStackTodo
  <1>7. disk' \in Disk /\ disk'.db = disk.db /\ disk'.pend = disk.pend /\ disk'.enable = disk.enable
    BY <1>0, <1>2, <1>5, DiskFrames
  <1>8. TablesKept
    BY <1>3, <1>6, <1>7, InMemory
  <1>9. events' \in Nat /\ kern' = kern /\ intr' = intr /\ comp' = comp /\ cut' = cut /\ crashes' = crashes
    BY <1>0 DEF SetFrame
  <1>10. mem.stage \notin Before \cup {"clear_marked"} /\ (mem.stage \in {"boot", "enable"} \/ disk.enable)
    BY <1>1, RunningStage
  <1>11. QED
    BY <1>0, <1>1, <1>6, <1>7, <1>8, <1>9, <1>10, QuietDone

LEMMA DoSetUnit ==
  ASSUME RInv, NEW u \in Unit, SetUnit(u)
  PROVE  RInv'
  <1>0. mem \in Mem /\ disk \in Disk /\ events \in Nat /\ comp \in Pair \cup {None} /\ intr \subseteq Pair
    BY Facts
  <1>1. mem.stage \in {"ok", "boot"} /\ mem.op.k = "none"
    BY DEF SetUnit, Running
  <1>2. mem.stack # <<>> /\ mem.stack \in Seq(Pair)
    <2>1. Top.f # None
      BY NoneNoFrame DEF SetUnit, Frame
    <2>2. QED
      BY <1>0, <2>1, TopOK, MemFields
  <1> DEFINE m == IF Top.f = "SubManager" THEN insert(mem, FdListen, 1) ELSE mem
             s == [m.stack EXCEPT ![Len(mem.stack)].u = u]
  <1>3. mem' = [m EXCEPT !.stack = s] /\ disk' = [disk EXCEPT !.unit = u]
    BY DEF SetUnit
  <1>4. View(m)
    BY Keys, OtherKeys, ViewInsert, ViewSelf
  <1> HIDE DEF m
  <1>5. m \in Mem /\ m.stage = mem.stage /\ m.port = mem.port /\ m.op = mem.op /\ m.stack = mem.stack
    BY <1>4 DEF View, SameRest
  <1>6. s \in Seq(Pair)
    BY <1>2, <1>5, StackUnit
  <1> HIDE DEF s
  <1>7. /\ mem' \in Mem /\ SameTables(mem', m) /\ mem'.stage = mem.stage /\ mem'.port = mem.port
        /\ mem'.op = mem.op
    BY <1>3, <1>5, <1>6, SetStack
  <1>8. disk' \in Disk /\ disk'.db = disk.db /\ disk'.pend = disk.pend /\ disk'.enable = disk.enable
    BY <1>0, <1>3, DiskUnit
  <1>9. TablesKept
    BY <1>4, <1>7, <1>8, InMemory
  <1>10. events' = events /\ kern' = kern /\ intr' = intr /\ comp' = comp /\ cut' = cut /\ crashes' = crashes
    BY DEF SetUnit
  <1>11. mem.stage \notin Before \cup {"clear_marked"} /\ (mem.stage \in {"boot", "enable"} \/ disk.enable)
    BY <1>1, RunningStage
  <1>12. QED
    BY <1>0, <1>1, <1>7, <1>8, <1>9, <1>10, <1>11, QuietDone

LEMMA DoWork ==
  ASSUME RInv, NEW u \in Unit, Work(u)
  PROVE  RInv'
  <1>0. mem \in Mem /\ disk \in Disk /\ events \in Nat /\ comp \in Pair \cup {None} /\ intr \subseteq Pair
    BY Facts
  <1>1. mem.stage \in {"ok", "boot"} /\ mem.op.k = "none"
    BY DEF Work, Running
  <1>2. View(mem')
    <2>1. View(insert(mem, <<"trigger", u>>, 1)) /\ View(remove(mem, <<"trigger", u>>))
      BY Keys, OtherKeys, ViewInsert, ViewRemove
    <2>2. View(insert(mem, <<"port", u>>, mem.port[u]))
      BY ViewPort
    <2>3. QED
      BY <2>1, <2>2 DEF Work
  <1>3. /\ mem' \in Mem /\ mem'.stage = mem.stage /\ mem'.port = mem.port /\ mem'.op = mem.op
        /\ SameTables(mem', mem')
    BY <1>2 DEF View, SameRest, SameTables
  <1>4. /\ events' = events /\ kern' = kern /\ intr' = intr /\ comp' = comp /\ cut' = cut /\ crashes' = crashes
        /\ disk' = disk
    BY DEF Work
  <1>5. TablesKept
    BY <1>2, <1>3, <1>4, InMemory
  <1>6. mem.stage \notin Before \cup {"clear_marked"} /\ (mem.stage \in {"boot", "enable"} \/ disk.enable)
    BY <1>1, RunningStage
  <1>7. QED
    BY <1>0, <1>1, <1>3, <1>4, <1>5, <1>6, QuietDone

LEMMA DoClearUnit ==
  ASSUME RInv, ClearUnit
  PROVE  RInv'
  <1>0. mem \in Mem /\ disk \in Disk /\ events \in Nat /\ comp \in Pair \cup {None} /\ intr \subseteq Pair
    BY Facts
  <1>1. mem.stage \in {"ok", "boot"} /\ mem.stack # <<>>
    BY <1>0, TopOK DEF ClearUnit, Running
  <1> DEFINE o == [NoOp EXCEPT !.k = "clear_unit"]
             w == written(mem)
             b == exported(disk.db, mem)
  <1>2. mem' = [w EXCEPT !.op = o] /\ disk' = [disk EXCEPT !.db = b]
    BY DEF ClearUnit, commit
  <1>3. o \in OpRec /\ o.k = "clear_unit"
    BY DEF OpRec, NoOp
  <1>4. View(mem) /\ w \in Mem /\ SameRest(w, mem) /\ b \in Table
    BY <1>0, ViewSelf, WrittenOK, ExportedOK, DiskFields
  <1> HIDE DEF o, w, b
  <1>5. /\ mem' \in Mem /\ SameTables(mem', w) /\ mem'.stage = mem.stage /\ mem'.port = mem.port
        /\ mem'.op = o /\ mem'.stack = mem.stack
    BY <1>2, <1>3, <1>4, SetOp DEF SameRest
  <1>6. disk' \in Disk /\ disk'.db = b /\ disk'.pend = disk.pend /\ disk'.enable = disk.enable
    BY <1>0, <1>2, <1>4, DiskDb
  <1>7. TablesKept
    BY <1>4, <1>5, <1>6, Committed DEF w, b
  <1>8. events' = events /\ kern' = kern /\ intr' = intr /\ comp' = comp /\ cut' = cut /\ crashes' = crashes
    BY DEF ClearUnit
  <1>9. mem.stage \notin Before \cup {"clear_marked"} /\ (mem.stage \in {"boot", "enable"} \/ disk.enable)
    BY <1>1, RunningStage
  <1>10. QED
    BY <1>0, <1>1, <1>3, <1>5, <1>6, <1>7, <1>8, <1>9, QuietDone

LEMMA DoUnitCleared ==
  ASSUME RInv, UnitCleared
  PROVE  RInv'
  <1>0. mem \in Mem /\ disk \in Disk /\ events \in Nat /\ comp \in Pair \cup {None} /\ intr \subseteq Pair
    BY Facts
  <1>1. mem.stage \in {"ok", "boot"} /\ mem.stack # <<>> /\ mem.stack \in Seq(Pair)
    BY <1>0, MemFields DEF UnitCleared, RInv, FdInv, Ops
  <1> DEFINE s == [mem.stack EXCEPT ![Len(mem.stack)].u = None]
             o == NoOp
  <1>2. mem' = [mem EXCEPT !.op = o, !.stack = s] /\ disk' = [disk EXCEPT !.unit = None]
    BY DEF UnitCleared
  <1>3. s \in Seq(Pair) /\ o \in OpRec /\ o.k = "none"
    BY <1>1, StackUnit, NoOpOK
  <1> HIDE DEF s, o
  <1>4. /\ mem' \in Mem /\ SameTables(mem', mem) /\ mem'.stage = mem.stage /\ mem'.port = mem.port
        /\ mem'.op = o
    <2>1. mem' = WithOpStack(mem, o, s)
      BY <1>2 DEF WithOpStack
    <2>2. QED
      BY <1>0, <1>3, <2>1, SetOpStack
  <1>5. disk' \in Disk /\ disk'.db = disk.db /\ disk'.pend = disk.pend /\ disk'.enable = disk.enable
    BY <1>0, <1>2, DiskUnit
  <1>6. TablesKept
    BY <1>4, <1>5, ViewSelf, InMemory
  <1>7. events' = events /\ kern' = kern /\ intr' = intr /\ comp' = comp /\ cut' = cut /\ crashes' = crashes
    BY DEF UnitCleared
  <1>8. mem.stage \notin Before \cup {"clear_marked"} /\ (mem.stage \in {"boot", "enable"} \/ disk.enable)
    BY <1>1, RunningStage
  <1>9. QED
    BY <1>0, <1>1, <1>3, <1>4, <1>5, <1>6, <1>7, <1>8, QuietDone
LEMMA DoClearFrame ==
  ASSUME RInv, ClearFrame
  PROVE  RInv'
  <1>0. mem \in Mem /\ disk \in Disk /\ events \in Nat /\ comp \in Pair \cup {None} /\ intr \subseteq Pair
    BY Facts
  <1>1. mem.stage \in {"ok", "boot"} /\ mem.stack # <<>>
    BY <1>0, TopOK DEF ClearFrame, Running
  <1> DEFINE m == IF Top.f = "SubManager" THEN remove(mem, FdListen) ELSE mem
             o == [NoOp EXCEPT !.k = "clear_frame"]
             w == written(m)
             b == exported(disk.db, m)
  <1>2. mem' = [w EXCEPT !.op = o] /\ disk' = [disk EXCEPT !.db = b]
    BY DEF ClearFrame, commit
  <1>3. o \in OpRec /\ o.k = "clear_frame"
    BY DEF OpRec, NoOp
  <1>4. View(m)
    BY OtherKeys, ViewRemove, ViewSelf
  <1> HIDE DEF m, o
  <1>5. m \in Mem /\ m.stage = mem.stage /\ m.port = mem.port /\ m.stack = mem.stack
    BY <1>4 DEF View, SameRest
  <1>6. w \in Mem /\ SameRest(w, m) /\ b \in Table
    BY <1>0, <1>5, WrittenOK, ExportedOK, DiskFields
  <1> HIDE DEF w, b
  <1>7. /\ mem' \in Mem /\ SameTables(mem', w) /\ mem'.stage = mem.stage /\ mem'.port = mem.port
        /\ mem'.op = o /\ mem'.stack = mem.stack
    BY <1>2, <1>3, <1>5, <1>6, SetOp DEF SameRest
  <1>8. disk' \in Disk /\ disk'.db = b /\ disk'.pend = disk.pend /\ disk'.enable = disk.enable
    BY <1>0, <1>2, <1>6, DiskDb
  <1>9. TablesKept
    BY <1>4, <1>7, <1>8, Committed DEF w, b
  <1>10. events' = events /\ kern' = kern /\ intr' = intr /\ comp' = comp /\ cut' = cut /\ crashes' = crashes
    BY DEF ClearFrame
  <1>11. mem.stage \notin Before \cup {"clear_marked"} /\ (mem.stage \in {"boot", "enable"} \/ disk.enable)
    BY <1>1, RunningStage
  <1>12. QED
    BY <1>0, <1>1, <1>3, <1>7, <1>8, <1>9, <1>10, <1>11, QuietDone

LEMMA DoFrameCleared ==
  ASSUME RInv, FrameCleared
  PROVE  RInv'
  <1>0. mem \in Mem /\ disk \in Disk /\ events \in Nat /\ comp \in Pair \cup {None} /\ intr \subseteq Pair
    BY Facts
  <1>1. mem.stage \in {"ok", "boot"} /\ mem.stack # <<>> /\ mem.stack \in Seq(Pair)
    BY <1>0, MemFields DEF FrameCleared, RInv, FdInv, Ops
  <1> DEFINE s == Pop(mem.stack)
             m == IF s # <<>> /\ Head_(s).f = "SubManager" /\ Top.f = "TargetDeps"
                  THEN insert(mem, FdListen, 1) ELSE mem
             o == NoOp
             t == after(Top.f, s)
             g == IF Top.f = "ManagerOp" THEN "enable" ELSE m.stage
             fr == Pop(disk.frames)
  <1>2. mem' = WithFrameEnd(m, o, s, t, g) /\ disk' = [disk EXCEPT !.frames = fr]
    BY DEF FrameCleared, WithFrameEnd
  <1>3. View(m)
    BY Keys, OtherKeys, ViewInsert, ViewSelf
  <1>4. s \in Seq(Pair) /\ o \in OpRec /\ o.k = "none" /\ fr \in Seq(Frame)
    BY <1>0, <1>1, FramePopOK, NoOpOK, DiskFields
  <1>5. t \in Todo
    BY DEF after, Todo, Frame
  <1> HIDE DEF s, m, o, t, fr
  <1>6. m \in Mem /\ m.stage = mem.stage /\ m.port = mem.port
    BY <1>3 DEF View, SameRest
  <1>7. g \in Stage /\ g \in {mem.stage, "enable"}
    BY <1>1, <1>6 DEF Stage
  <1> HIDE DEF g
  <1>8. mem' \in Mem /\ SameTables(mem', m) /\ mem'.stage = g /\ mem'.port = mem.port /\ mem'.op = o
    BY <1>2, <1>4, <1>5, <1>6, <1>7, SetFrameEnd
  <1>9. disk' \in Disk /\ disk'.db = disk.db /\ disk'.pend = disk.pend /\ disk'.enable = disk.enable
    BY <1>0, <1>2, <1>4, DiskFrames
  <1>10. TablesKept
    BY <1>3, <1>8, <1>9, InMemory
  <1>11. events' = events /\ kern' = kern /\ intr' = intr /\ comp' = comp /\ cut' = cut /\ crashes' = crashes
    BY DEF FrameCleared
  <1>12. mem.stage \notin Before \cup {"clear_marked"} /\ (mem.stage \in {"boot", "enable"} \/ disk.enable)
    BY <1>1, RunningStage
  <1>13. mem'.stage \notin Before \cup {"clear_marked"} /\ (mem'.stage \in {"boot", "enable"} \/ disk'.enable)
    BY <1>7, <1>8, <1>9, <1>12 DEF Before
  <1>14. QED
    BY <1>0, <1>1, <1>4, <1>8, <1>9, <1>10, <1>11, <1>12, <1>13, QuietDone

\* Between the stages of a recovery nothing is under way.
LEMMA NoneUnderWay ==
  ASSUME RInv, mem.stage \notin {"ok", "boot"}
  PROVE  mem.op.k = "none"
  BY DEF RInv, FdInv, Ops

LEMMA DoSetEnable ==
  ASSUME RInv, SetEnable
  PROVE  RInv'
  <1>0. mem \in Mem /\ disk \in Disk /\ events \in Nat /\ comp \in Pair \cup {None} /\ intr \subseteq Pair
    BY Facts
  <1>1. mem.stage = "enable" /\ mem' = [mem EXCEPT !.stage = "tail"] /\ disk' = [disk EXCEPT !.enable = TRUE]
    BY DEF SetEnable
  <1>2. mem.op.k = "none"
    BY <1>1, NoneUnderWay
  <1>3. "tail" \in Stage
    BY DEF Stage
  <1>4. /\ mem' \in Mem /\ SameTables(mem', mem) /\ mem'.stage = "tail" /\ mem'.port = mem.port
        /\ mem'.op = mem.op
    BY <1>0, <1>1, <1>3, SetStage
  <1>5. disk' \in Disk /\ disk'.db = disk.db /\ disk'.pend = disk.pend /\ disk'.enable
    BY <1>0, <1>1, DiskEnable
  <1>6. TablesKept
    BY <1>4, <1>5, ViewSelf, InMemory
  <1>7. events' = events /\ kern' = kern /\ intr' = intr /\ comp' = comp /\ cut' = cut /\ crashes' = crashes
    BY DEF SetEnable
  <1>8. mem.stage \notin Before /\ mem'.stage \notin Before \cup {"clear_marked"}
    BY <1>1, <1>4 DEF Before
  <1>9. QED
    BY <1>0, <1>2, <1>4, <1>5, <1>6, <1>7, <1>8, QuietDone

LEMMA DoTail ==
  ASSUME RInv, Tail_
  PROVE  RInv'
  <1>0. mem \in Mem /\ disk \in Disk /\ events \in Nat
    BY Facts
  <1> DEFINE w == written(mem)
             b == exported(disk.db, mem)
             fr == Pop(disk.frames)
  <1>1. /\ mem.stage = "tail" /\ mem' = WithStageTodo(w, "ok", "Load")
        /\ disk' = [disk EXCEPT !.db = b, !.frames = fr]
    BY DEF Tail_, WithStageTodo
  <1>2. mem.op.k = "none" /\ disk.enable
    <2>1. mem.op.k = "none"
      BY <1>1, NoneUnderWay
    <2>2. disk.enable
      BY <1>1 DEF RInv, FdInv, Enabled_
    <2>3. QED
      BY <2>1, <2>2
  <1>3. "ok" \in Stage /\ "Load" \in Todo
    BY DEF Stage, Todo, Frame
  <1>4. View(mem) /\ w \in Mem /\ SameRest(w, mem) /\ b \in Table /\ fr \in Seq(Frame)
    BY <1>0, ViewSelf, WrittenOK, ExportedOK, DiskFields, FramePopOK
  <1> HIDE DEF w, b, fr
  <1>5. /\ mem' \in Mem /\ SameTables(mem', w) /\ mem'.stage = "ok" /\ mem'.port = mem.port
        /\ mem'.op = mem.op
    BY <1>1, <1>3, <1>4, SetStageTodo DEF SameRest
  <1>6. disk' \in Disk /\ disk'.db = b /\ disk'.pend = disk.pend /\ disk'.enable = disk.enable
    <2>1. disk' = WithDbFrames(disk, b, fr)
      BY <1>1 DEF WithDbFrames
    <2>2. QED
      BY <1>0, <1>4, <2>1, DiskDbFrames
  <1>7. TablesKept
    BY <1>4, <1>5, <1>6, Committed DEF w, b
  <1>8. /\ events' = events /\ kern' = kern /\ intr' \subseteq Pair /\ comp' \in Pair \cup {None}
        /\ cut' = cut /\ crashes' = crashes
    BY DEF Tail_
  <1>9. mem.stage \notin Before /\ mem'.stage \notin Before \cup {"clear_marked"}
    BY <1>1, <1>5 DEF Before
  <1>10. QED
    BY <1>0, <1>2, <1>5, <1>6, <1>7, <1>8, <1>9, QuietDone

LEMMA DoRecoverClearUnit ==
  ASSUME RInv, RecoverClearUnit
  PROVE  RInv'
  <1>0. mem \in Mem /\ disk \in Disk /\ events \in Nat /\ comp \in Pair \cup {None} /\ intr \subseteq Pair
    BY Facts
  <1>1. /\ mem.stage = "clear_unit" /\ mem' = [mem EXCEPT !.stage = "clear_frame"]
        /\ disk' = [disk EXCEPT !.unit = None]
    BY DEF RecoverClearUnit
  <1>2. mem.op.k = "none"
    BY <1>1, NoneUnderWay
  <1>3. disk.enable
    BY <1>1 DEF RInv, FdInv, Enabled_
  <1>4. "clear_frame" \in Stage
    BY DEF Stage
  <1>5. /\ mem' \in Mem /\ SameTables(mem', mem) /\ mem'.stage = "clear_frame" /\ mem'.port = mem.port
        /\ mem'.op = mem.op
    BY <1>0, <1>1, <1>4, SetStage
  <1>6. disk' \in Disk /\ disk'.db = disk.db /\ disk'.pend = disk.pend /\ disk'.enable = disk.enable
    BY <1>0, <1>1, DiskUnit
  <1>7. TablesKept
    BY <1>5, <1>6, ViewSelf, InMemory
  <1>8. events' = events /\ kern' = kern /\ intr' = intr /\ comp' = comp /\ cut' = cut /\ crashes' = crashes
    BY DEF RecoverClearUnit
  <1>9. mem.stage \notin Before /\ mem'.stage \notin Before \cup {"clear_marked"}
    BY <1>1, <1>5 DEF Before
  <1>10. QED
    BY <1>0, <1>2, <1>3, <1>5, <1>6, <1>7, <1>8, <1>9, QuietDone

LEMMA DoRecoverClearFrame ==
  ASSUME RInv, RecoverClearFrame
  PROVE  RInv'
  <1>0. mem \in Mem /\ disk \in Disk /\ events \in Nat /\ comp \in Pair \cup {None} /\ intr \subseteq Pair
    BY Facts
  <1> DEFINE fr == Pop(disk.frames)
  <1>1. /\ mem.stage = "clear_frame" /\ mem' = [mem EXCEPT !.stage = "tail"]
        /\ disk' = [disk EXCEPT !.frames = fr]
    BY DEF RecoverClearFrame
  <1>2. mem.op.k = "none"
    BY <1>1, NoneUnderWay
  <1>3. disk.enable
    BY <1>1 DEF RInv, FdInv, Enabled_
  <1>4. "tail" \in Stage /\ fr \in Seq(Frame)
    BY <1>0, DiskFields, FramePopOK DEF Stage
  <1> HIDE DEF fr
  <1>5. /\ mem' \in Mem /\ SameTables(mem', mem) /\ mem'.stage = "tail" /\ mem'.port = mem.port
        /\ mem'.op = mem.op
    BY <1>0, <1>1, <1>4, SetStage
  <1>6. disk' \in Disk /\ disk'.db = disk.db /\ disk'.pend = disk.pend /\ disk'.enable = disk.enable
    BY <1>0, <1>1, <1>4, DiskFrames
  <1>7. TablesKept
    BY <1>5, <1>6, ViewSelf, InMemory
  <1>8. events' = events /\ kern' = kern /\ intr' = intr /\ comp' = comp /\ cut' = cut /\ crashes' = crashes
    BY DEF RecoverClearFrame
  <1>9. mem.stage \notin Before /\ mem'.stage \notin Before \cup {"clear_marked"}
    BY <1>1, <1>5 DEF Before
  <1>10. QED
    BY <1>0, <1>2, <1>3, <1>5, <1>6, <1>7, <1>8, <1>9, QuietDone
-----------------------------------------------------------------------------
(* The steps of open_port, fd_retain, fd_remove and close. *)

LEMMA PortStep ==
  ASSUME RInv, mem.stage \in {"ok", "boot"},
         mem' \in Mem, SameTables(mem', mem), mem'.stage = mem.stage,
         disk' \in Disk, disk'.db = disk.db, disk'.enable = disk.enable,
         kern' \in [Fd -> {"free", "cloexec", "kept", "lost"}],
         intr' = intr, comp' = comp, cut' = cut, crashes' = crashes, events' = events,
         \A n \in Fd : kern'[n] = "kept" /\ disk'.pend[n] = None =>
           /\ kern[n] = "kept" /\ disk.pend[n] = None
           /\ \A u \in Unit : mem.port[u] = n => mem'.port[u] = n,
         Ops'
  PROVE  RInv'
  <1>0. Enabled_ /\ Unmarked /\ Kept
    BY DEF RInv, FdInv
  <1>1. TablesKept
    BY ViewSelf, InMemory
  <1>2. Fresh' /\ NoPorts' /\ ClosedMarked'
    BY DEF Fresh, NoPorts, ClosedMarked, Before
  <1>3. Enabled_'
    BY <1>0 DEF Enabled_
  <1>4. Unmarked'
    BY <1>0 DEF Unmarked
  <1>5. Kept'
    <2>1. mem.stage \notin Before /\ mem'.stage \notin Before
      BY DEF Before
    <2>2. QED
      BY <1>0, <1>1, <2>1 DEF Kept, TablesKept
  <1>6. LTypeOK'
    BY Facts DEF LTypeOK
  <1>7. QED
    BY <1>1, <1>2, <1>3, <1>4, <1>5, <1>6 DEF RInv, FdInv, TablesKept

LEMMA SameTop == mem'.stack = mem.stack => Top' = Top
  BY DEF Top, Head_

LEMMA UnitsNamed == \A u \in Unit : u # None
  BY ReliAssumption

LEMMA DoOpenPort ==
  ASSUME RInv, NEW u \in Unit, OpenPort(u)
  PROVE  RInv'
  <1>0. mem \in Mem /\ disk \in Disk /\ kern \in [Fd -> {"free", "cloexec", "kept", "lost"}]
    BY Facts
  <1>1. mem.stage \in {"ok", "boot"} /\ Top.u = u /\ mem.port[u] = 0 /\ mem.stack # <<>>
    BY <1>0, UnitsNamed, TopOK DEF OpenPort, Running
  <1>2. PICK n \in Fd : /\ kern' = [kern EXCEPT ![n] = "cloexec"]
                        /\ mem' = [mem EXCEPT !.op = [k |-> "open", fd |-> n, step |-> 1]]
    BY DEF OpenPort, lowest_free
  <1> DEFINE o == [k |-> "open", fd |-> n, step |-> 1]
  <1>3. o \in OpRec /\ o.k = "open" /\ o.fd = n /\ o.step = 1
    BY DEF OpRec
  <1>4. mem' = [mem EXCEPT !.op = o]
    BY <1>2
  <1> HIDE DEF o
  <1>5. /\ mem' \in Mem /\ SameTables(mem', mem) /\ mem'.stage = mem.stage /\ mem'.port = mem.port
        /\ mem'.op = o /\ mem'.stack = mem.stack
    BY <1>0, <1>3, <1>4, SetOp
  <1>6. /\ disk' = disk /\ intr' = intr /\ comp' = comp /\ cut' = cut /\ crashes' = crashes /\ events' = events
        /\ kern' \in [Fd -> {"free", "cloexec", "kept", "lost"}]
    BY <1>0, <1>2 DEF OpenPort
  <1>7. Ops'
    BY <1>1, <1>3, <1>5, SameTop DEF Ops
  <1>8. \A x \in Fd : kern'[x] = "kept" => kern[x] = "kept"
    BY <1>0, <1>2
  <1>9. QED
    BY <1>0, <1>1, <1>5, <1>6, <1>7, <1>8, PortStep

LEMMA DoClosePort ==
  ASSUME RInv, NEW u \in Unit, ClosePort(u)
  PROVE  RInv'
  <1>0. mem \in Mem /\ disk \in Disk /\ kern \in [Fd -> {"free", "cloexec", "kept", "lost"}] /\ mem.port \in PortMap
    BY Facts, MemFields
  <1>1. mem.stage \in {"ok", "boot"} /\ Top.u = u /\ mem.port[u] # 0 /\ mem.stack # <<>>
    BY <1>0, UnitsNamed, TopOK DEF ClosePort, Running
  <1> DEFINE n == mem.port[u]
             o == [k |-> "close", fd |-> n, step |-> 1]
  <1>2. n \in Fd
    BY <1>0, <1>1 DEF PortMap
  <1>3. o \in OpRec /\ o.k = "close" /\ o.fd = n /\ o.step = 1
    BY <1>2 DEF OpRec
  <1>4. mem' = [mem EXCEPT !.op = o]
    BY DEF ClosePort
  <1> HIDE DEF o
  <1>5. /\ mem' \in Mem /\ SameTables(mem', mem) /\ mem'.stage = mem.stage /\ mem'.port = mem.port
        /\ mem'.op = o /\ mem'.stack = mem.stack
    BY <1>0, <1>3, <1>4, SetOp
  <1>6. /\ disk' = disk /\ intr' = intr /\ comp' = comp /\ cut' = cut /\ crashes' = crashes /\ events' = events
        /\ kern' = kern
    BY DEF ClosePort
  <1>7. Ops'
    BY <1>1, <1>2, <1>3, <1>5, SameTop DEF Ops
  <1>8. QED
    BY <1>0, <1>1, <1>5, <1>6, <1>7, PortStep

\* A mark written for n.
LEMMA FdAdd ==
  ASSUME disk \in Disk, NEW n \in Fd, NEW s \in {None} \cup Mark, fd_add(n, s)
  PROVE  /\ disk' \in Disk /\ disk'.db = disk.db /\ disk'.enable = disk.enable
         /\ disk'.pend[n] = s /\ \A x \in Fd \ {n} : disk'.pend[x] = disk.pend[x]
  <1> DEFINE p == [disk.pend EXCEPT ![n] = s]
  <1>1. disk.pend \in Marks
    BY DiskFields DEF Marks
  <1>2. p \in Marks /\ p[n] = s /\ \A x \in Fd \ {n} : p[x] = disk.pend[x]
    BY <1>1 DEF Marks
  <1>3. disk' = [disk EXCEPT !.pend = p]
    BY DEF fd_add
  <1> HIDE DEF p
  <1>4. QED
    BY <1>2, <1>3, DiskPend

LEMMA DoRetain ==
  ASSUME RInv, Retain
  PROVE  RInv'
  <1>0. mem \in Mem /\ disk \in Disk /\ kern \in [Fd -> {"free", "cloexec", "kept", "lost"}] /\ mem.port \in PortMap
    BY Facts, MemFields
  <1> DEFINE n == mem.op.fd
             u == Top.u
  <1>1. /\ mem.op.k = "open" /\ mem.stage \in {"ok", "boot"} /\ mem.stack # <<>>
        /\ u \in Unit /\ n \in Fd /\ mem.port[u] = 0 /\ (mem.op.step # 1 => disk.pend[n] # None)
    BY DEF Retain, RInv, FdInv, Ops
  <1>2. intr' = intr /\ comp' = comp /\ cut' = cut /\ crashes' = crashes /\ events' = events
    BY DEF Retain
  <1>3. CASE mem.op.step = 1 /\ mem' = [mem EXCEPT !.op = NoOp] /\ UNCHANGED <<disk, kern>>
    <2>1. /\ mem' \in Mem /\ SameTables(mem', mem) /\ mem'.stage = mem.stage /\ mem'.port = mem.port
          /\ mem'.op = NoOp
      BY <1>0, <1>3, SetOp, NoOpOK
    <2>2. Ops'
      BY <2>1, NoOpOK DEF Ops
    <2>3. QED
      BY <1>0, <1>1, <1>2, <1>3, <2>1, <2>2, PortStep
  <1>4. CASE mem.op.step = 1 /\ fd_add(n, "Retaining") /\ mem' = [mem EXCEPT !.op.step = 2] /\ UNCHANGED kern
    <2>1. /\ mem' \in Mem /\ SameTables(mem', mem) /\ mem'.stage = mem.stage /\ mem'.port = mem.port
          /\ mem'.stack = mem.stack /\ mem'.op.k = "open" /\ mem'.op.fd = n
      BY <1>0, <1>1, <1>4, SetStep
    <2>2. "Retaining" \in {None} \cup Mark /\ "Retaining" # None
      BY NoneNoFrame DEF Mark
    <2>3. /\ disk' \in Disk /\ disk'.db = disk.db /\ disk'.enable = disk.enable
          /\ disk'.pend[n] # None /\ \A x \in Fd \ {n} : disk'.pend[x] = disk.pend[x]
      BY <1>0, <1>1, <1>4, <2>2, FdAdd
    <2>4. Ops'
      BY <1>1, <2>1, <2>3, SameTop DEF Ops
    <2>5. QED
      BY <1>0, <1>1, <1>2, <1>4, <2>1, <2>3, <2>4, PortStep
  <1>5. CASE mem.op.step = 2 /\ kern' = [kern EXCEPT ![n] = "kept"] /\ mem' = [mem EXCEPT !.op.step = 3] /\ UNCHANGED disk
    <2>1. /\ mem' \in Mem /\ SameTables(mem', mem) /\ mem'.stage = mem.stage /\ mem'.port = mem.port
          /\ mem'.stack = mem.stack /\ mem'.op.k = "open" /\ mem'.op.fd = n
      BY <1>0, <1>1, <1>5, SetStep
    <2>2. disk.pend[n] # None
      BY <1>1, <1>5
    <2>3. kern' \in [Fd -> {"free", "cloexec", "kept", "lost"}] /\ \A x \in Fd \ {n} : kern'[x] = kern[x]
      BY <1>0, <1>1, <1>5
    <2>4. Ops'
      BY <1>1, <1>5, <2>1, <2>2, SameTop DEF Ops
    <2>5. QED
      BY <1>0, <1>1, <1>2, <1>5, <2>1, <2>2, <2>3, <2>4, PortStep
  <1>6. CASE mem.op.step = 3 /\ fd_add(n, "Retained") /\ mem' = [mem EXCEPT !.op = NoOp, !.port[u] = n] /\ UNCHANGED kern
    <2>1. mem' = WithOpPort(mem, u, n)
      BY <1>6 DEF WithOpPort
    <2>2. /\ mem' \in Mem /\ SameTables(mem', mem) /\ mem'.stage = mem.stage
          /\ mem'.port = [mem.port EXCEPT ![u] = n] /\ mem'.op = NoOp
      <3>1. mem \in Mem /\ u \in Unit /\ n \in PortFd
        BY <1>0, <1>1 DEF PortFd
      <3>2. /\ mem' \in Mem /\ SameTables(mem', mem) /\ mem'.stage = mem.stage
            /\ mem'.port = PortSet(mem, u, n) /\ mem'.op = NoOp
        BY ONLY <2>1, <3>1, SetOpPort
      <3>3. QED
        BY <3>2 DEF PortSet
    <2>3. "Retained" \in {None} \cup Mark /\ "Retained" # None
      BY NoneNoFrame DEF Mark
    <2>4. /\ disk' \in Disk /\ disk'.db = disk.db /\ disk'.enable = disk.enable
          /\ disk'.pend[n] # None /\ \A x \in Fd \ {n} : disk'.pend[x] = disk.pend[x]
      BY <1>0, <1>1, <1>6, <2>3, FdAdd
    <2>5. Ops'
      BY <2>2, NoOpOK DEF Ops
    <2>6. \A x \in Fd, v \in Unit : mem.port[v] = x => mem'.port[v] = x
      BY <1>0, <1>1, <2>2, Keys DEF PortMap
    <2>7. QED
      BY <1>0, <1>1, <1>2, <1>6, <2>2, <2>4, <2>5, <2>6, PortStep
  <1>7. QED
    BY <1>3, <1>4, <1>5, <1>6 DEF Retain, fd_retain

LEMMA DoRemove ==
  ASSUME RInv, Remove
  PROVE  RInv'
  <1>0. mem \in Mem /\ disk \in Disk /\ kern \in [Fd -> {"free", "cloexec", "kept", "lost"}] /\ mem.port \in PortMap
    BY Facts, MemFields
  <1> DEFINE n == mem.op.fd
             u == Top.u
  <1>1. /\ mem.op.k = "close" /\ mem.stage \in {"ok", "boot"} /\ mem.stack # <<>>
        /\ u \in Unit /\ n \in Fd /\ mem.port[u] = n /\ (mem.op.step \in {0, 3} => kern[n] # "kept")
    BY DEF Remove, RInv, FdInv, Ops
  <1>2. intr' = intr /\ comp' = comp /\ cut' = cut /\ crashes' = crashes /\ events' = events
    BY DEF Remove
  <1>3. CASE fd_add(n, IF kern[n] # "cloexec" THEN "Removing" ELSE None) /\ UNCHANGED kern
             /\ mem' = [mem EXCEPT !.op.step = IF kern[n] # "cloexec" THEN 2 ELSE 0]
    <2> DEFINE s == IF kern[n] # "cloexec" THEN "Removing" ELSE None
               i == IF kern[n] # "cloexec" THEN 2 ELSE 0
    <2>1. i \in 0..3 /\ (i \in {0, 3} => kern[n] # "kept")
      OBVIOUS
    <2>2. s \in {None} \cup Mark /\ (kern[n] = "kept" => s # None)
      BY NoneNoFrame DEF Mark
    <2>3. fd_add(n, s) /\ mem' = [mem EXCEPT !.op.step = i] /\ kern' = kern
      BY <1>3
    <2> HIDE DEF s, i
    <2>4. /\ mem' \in Mem /\ SameTables(mem', mem) /\ mem'.stage = mem.stage /\ mem'.port = mem.port
          /\ mem'.stack = mem.stack /\ mem'.op.k = "close" /\ mem'.op.fd = n /\ mem'.op.step = i
      BY <1>0, <1>1, <2>1, <2>3, SetStep
    <2>5. /\ disk' \in Disk /\ disk'.db = disk.db /\ disk'.enable = disk.enable
          /\ disk'.pend[n] = s /\ \A x \in Fd \ {n} : disk'.pend[x] = disk.pend[x]
      BY <1>0, <1>1, <2>2, <2>3, FdAdd
    <2>6. Ops'
      BY <1>1, <2>1, <2>3, <2>4, SameTop DEF Ops
    <2>7. QED
      BY <1>0, <1>1, <1>2, <2>2, <2>3, <2>4, <2>5, <2>6, PortStep
  <1>4. CASE kern' = [kern EXCEPT ![n] = IF @ = "free" THEN @ ELSE "cloexec"] /\ mem' = [mem EXCEPT !.op.step = 3] /\ UNCHANGED disk
    <2>1. /\ mem' \in Mem /\ SameTables(mem', mem) /\ mem'.stage = mem.stage /\ mem'.port = mem.port
          /\ mem'.stack = mem.stack /\ mem'.op.k = "close" /\ mem'.op.fd = n
      BY <1>0, <1>1, <1>4, SetStep
    <2>2. /\ kern' \in [Fd -> {"free", "cloexec", "kept", "lost"}] /\ kern'[n] # "kept"
          /\ \A x \in Fd \ {n} : kern'[x] = kern[x]
      BY <1>0, <1>1, <1>4
    <2>3. Ops'
      BY <1>1, <2>1, <2>2, SameTop DEF Ops
    <2>4. QED
      BY <1>0, <1>1, <1>2, <1>4, <2>1, <2>2, <2>3, PortStep
  <1>5. CASE mem.op.step = 3 /\ fd_add(n, None) /\ mem' = [mem EXCEPT !.op.step = 0] /\ UNCHANGED kern
    <2>1. /\ mem' \in Mem /\ SameTables(mem', mem) /\ mem'.stage = mem.stage /\ mem'.port = mem.port
          /\ mem'.stack = mem.stack /\ mem'.op.k = "close" /\ mem'.op.fd = n
      BY <1>0, <1>1, <1>5, SetStep
    <2>2. /\ disk' \in Disk /\ disk'.db = disk.db /\ disk'.enable = disk.enable
          /\ \A x \in Fd \ {n} : disk'.pend[x] = disk.pend[x]
      BY <1>0, <1>1, <1>5, FdAdd
    <2>3. Ops'
      BY <1>1, <1>5, <2>1, SameTop DEF Ops
    <2>4. QED
      BY <1>0, <1>1, <1>2, <1>5, <2>1, <2>2, <2>3, PortStep
  <1>6. CASE kern' = [kern EXCEPT ![n] = "free"] /\ mem' = [mem EXCEPT !.op = NoOp, !.port[u] = 0] /\ UNCHANGED disk
    <2>1. mem' = WithOpPort(mem, u, 0)
      BY <1>6 DEF WithOpPort
    <2>2. /\ mem' \in Mem /\ SameTables(mem', mem) /\ mem'.stage = mem.stage
          /\ mem'.port = [mem.port EXCEPT ![u] = 0] /\ mem'.op = NoOp
      <3>1. mem \in Mem /\ u \in Unit /\ 0 \in PortFd
        BY <1>0, <1>1 DEF PortFd
      <3>2. /\ mem' \in Mem /\ SameTables(mem', mem) /\ mem'.stage = mem.stage
            /\ mem'.port = PortSet(mem, u, 0) /\ mem'.op = NoOp
        BY ONLY <2>1, <3>1, SetOpPort
      <3>3. QED
        BY <3>2 DEF PortSet
    <2>3. /\ kern' \in [Fd -> {"free", "cloexec", "kept", "lost"}] /\ kern'[n] = "free"
          /\ \A x \in Fd \ {n} : kern'[x] = kern[x]
      BY <1>0, <1>1, <1>6
    <2>4. Ops'
      BY <2>2, NoOpOK DEF Ops
    <2>5. \A x \in Fd \ {n}, v \in Unit : mem.port[v] = x => mem'.port[v] = x
      BY <1>0, <1>1, <2>2 DEF PortMap
    <2>6. QED
      BY <1>0, <1>1, <1>2, <1>6, <2>2, <2>3, <2>4, <2>5, PortStep
  <1>7. QED
    BY <1>3, <1>4, <1>5, <1>6 DEF Remove, fd_remove
-----------------------------------------------------------------------------
(* Crash and recovery. *)

\* After an import the tables say what is on disk, and nothing waits to be written.
LEMMA Imported ==
  ASSUME RInv, disk' = disk, SameTables(mem', import(mem))
  PROVE  Stored' /\ PortRecs' /\ mem'.synced /\ mem'.add = Empty /\ mem'.del = {}
  <1>1. mem \in Mem /\ disk \in Disk /\ disk.db \in Table
    BY Facts, DiskFields
  <1>2. import(mem).cache = disk.db /\ import(mem).add = Empty /\ import(mem).del = {} /\ import(mem).synced
    BY <1>1, ImportOK
  <1>3. mem'.cache = disk.db /\ mem'.add = Empty /\ mem'.del = {}
    BY <1>2 DEF SameTables
  <1>4. mem'.synced
    BY <1>2 DEF SameTables
  <1>5. exported(disk.db, mem') = disk.db
    BY <1>1, <1>3, ExportedWritten
  <1>6. Stored'
    BY <1>3, <1>5 DEF Stored
  <1>7. PortRecs'
    BY <1>3, <1>5 DEF PortRecs, RInv
  <1>8. QED
    BY <1>3, <1>4, <1>6, <1>7

LEMMA DoStartup ==
  ASSUME RInv, Startup
  PROVE  RInv'
  <1>0. mem \in Mem /\ disk \in Disk /\ NoPorts /\ Unmarked /\ Kept
    BY Facts DEF RInv, FdInv
  <1>1. /\ mem.stage = "start" /\ disk' = disk /\ kern' = kern /\ intr' = intr /\ comp' = comp /\ cut' = cut
        /\ crashes' = crashes /\ events' = events
    BY DEF Startup
  <1>2. mem.op.k = "none"
    BY <1>1, NoneUnderWay
  <1>3. "compensate" \in Stage /\ "boot" \in Stage /\ "ManagerOp" \in Todo
    BY DEF Stage, Todo, Frame
  <1>4. CASE disk.enable
    <2> DEFINE i == import(mem)
    <2>1. mem' = [i EXCEPT !.stage = "compensate"]
      BY <1>4 DEF Startup
    <2>2. i \in Mem /\ i.port = mem.port /\ i.op = mem.op
      BY <1>0, ImportOK
    <2> HIDE DEF i
    <2>3. /\ mem' \in Mem /\ SameTables(mem', i) /\ mem'.stage = "compensate" /\ mem'.port = mem.port
          /\ mem'.op = mem.op
      BY <1>3, <2>1, <2>2, SetStage
    <2>4. Stored' /\ PortRecs' /\ mem'.synced /\ mem'.add = Empty /\ mem'.del = {}
      BY <1>1, <2>3, Imported DEF i
    <2>5. Fresh'
      BY <2>3, <2>4 DEF Fresh
    <2>6. NoPorts'
      BY <1>0, <1>1, <2>3 DEF NoPorts, Before
    <2>7. Enabled_' /\ Unmarked'
      BY <1>1, <1>4 DEF Enabled_, Unmarked
    <2>8. ClosedMarked'
      BY <2>3 DEF ClosedMarked
    <2>9. Ops'
      BY <1>2, <2>3 DEF Ops
    <2>10. Kept'
      BY <1>0, <1>1, <2>3 DEF Kept, Before
    <2>11. LTypeOK'
      BY Facts, <1>1, <2>3 DEF LTypeOK
    <2>12. QED
      BY <2>4, <2>5, <2>6, <2>7, <2>8, <2>9, <2>10, <2>11 DEF RInv, FdInv
  <1>5. CASE ~ disk.enable
    <2>1. mem' = WithStageTodo(mem, "boot", "ManagerOp")
      BY <1>5 DEF Startup, WithStageTodo
    <2>2. /\ mem' \in Mem /\ SameTables(mem', mem) /\ mem'.stage = "boot" /\ mem'.port = mem.port
          /\ mem'.op = mem.op
      BY <1>0, <1>3, <2>1, SetStageTodo
    <2>3. TablesKept
      BY <1>1, <2>2, ViewSelf, InMemory
    <2>4. Fresh' /\ NoPorts' /\ ClosedMarked'
      BY <2>2 DEF Fresh, NoPorts, ClosedMarked, Before
    <2>5. Enabled_'
      BY <2>2 DEF Enabled_
    <2>6. Unmarked'
      BY <1>0, <1>1 DEF Unmarked
    <2>7. Ops'
      BY <1>2, <2>2 DEF Ops
    <2>8. Kept'
      BY <1>0, <1>1, <1>5 DEF Kept, Unmarked
    <2>9. LTypeOK'
      BY Facts, <1>1, <2>2 DEF LTypeOK
    <2>10. QED
      BY <2>3, <2>4, <2>5, <2>6, <2>7, <2>8, <2>9 DEF RInv, FdInv, TablesKept
  <1>6. QED
    BY <1>4, <1>5

LEMMA BlankOK ==
  ASSUME NEW s \in BOOLEAN
  PROVE  /\ Blank(s) \in Disk /\ Blank(s).db = Empty /\ Blank(s).unit = None /\ Blank(s).frames = <<>>
         /\ ~ Blank(s).enable /\ Blank(s).switch = s
  <1>1. Blank(s).db = Empty /\ Blank(s).unit = None /\ Blank(s).frames = <<>>
    BY DEF Blank
  <1>2. ~ Blank(s).enable
    BY DEF Blank
  <1>3. Blank(s).switch = s
    BY DEF Blank
  <1>4. Blank(s) \in Disk
    BY EmptyOK DEF Blank, Disk
  <1>5. QED
    BY <1>1, <1>2, <1>3, <1>4

WithBoot(m) == [m EXCEPT !.stage = "boot", !.todo = "ManagerOp", !.synced = TRUE]

LEMMA SetBoot ==
  ASSUME NEW m \in Mem, NEW w, w = WithBoot(m)
  PROVE  /\ w \in Mem /\ w.cache = m.cache /\ w.add = m.add /\ w.del = m.del /\ w.stage = "boot"
         /\ w.todo = "ManagerOp" /\ w.stack = m.stack /\ w.port = m.port /\ w.op = m.op
  <1>1. "boot" \in Stage /\ "ManagerOp" \in Todo
    BY DEF Stage, Todo, Frame
  <1>2. w \in Mem
    BY <1>1 DEF WithBoot, Mem, Stage, Todo
  <1>3. /\ w.cache = m.cache /\ w.add = m.add /\ w.del = m.del /\ w.stage = "boot"
        /\ w.todo = "ManagerOp" /\ w.stack = m.stack /\ w.port = m.port /\ w.op = m.op
    BY DEF WithBoot, Mem
  <1>4. QED
    BY <1>2, <1>3

\* A start that clears the data: no record, no mark, and no descriptor that counts as kept.
LEMMA DoClearedStartup ==
  ASSUME RInv, ClearedStartup
  PROVE  RInv'
  <1>0. /\ mem \in Mem /\ Fresh /\ NoPorts /\ kern \in [Fd -> {"free", "cloexec", "kept", "lost"}]
    BY Facts DEF RInv, FdInv
  <1>1. /\ mem.stage = "start" /\ disk' = Blank(FALSE) /\ mem' = WithBoot(mem) /\ intr' = {} /\ comp' = None
        /\ cut' = FALSE /\ crashes' = crashes /\ events' = events
        /\ kern' = [n \in Fd |-> IF kern[n] = "kept" THEN "lost" ELSE kern[n]]
    BY DEF ClearedStartup, WithBoot
  <1>2. disk' \in Disk /\ disk'.db = Empty
    BY <1>1, BlankOK
  <1>3. /\ mem' \in Mem /\ mem'.cache = Empty /\ mem'.add = Empty /\ mem'.del = {} /\ mem'.stage = "boot"
        /\ mem'.port = mem.port /\ mem'.op = mem.op
    BY <1>0, <1>1, SetBoot DEF Fresh
  <1>4. /\ kern' \in [Fd -> {"free", "cloexec", "kept", "lost"}] /\ \A n \in Fd : kern'[n] # "kept"
    BY <1>0, <1>1
  <1>5. exported(disk'.db, mem') = Empty
    BY <1>2, <1>3, EmptyOK, ExportedWritten
  <1>6. Stored'
    BY <1>3, <1>5 DEF Stored
  <1>7. PortRecs'
    <2>1. \A u \in Unit : Empty[<<"port", u>>] = None
      BY Keys, EmptyOK
    <2>2. QED
      BY <1>2, <1>3, <1>5, <2>1 DEF PortRecs, PortValue
  <1>8. Fresh' /\ NoPorts' /\ Enabled_' /\ ClosedMarked'
    BY <1>3 DEF Fresh, NoPorts, Enabled_, ClosedMarked, Before
  <1>9. Ops'
    BY <1>1, <1>3, NoneUnderWay DEF Ops
  <1>10. Unmarked' /\ Kept'
    BY <1>4 DEF Unmarked, Kept
  <1>11. LTypeOK'
    BY Facts, <1>1, <1>2, <1>3, <1>4 DEF LTypeOK
  <1>12. QED
    BY <1>6, <1>7, <1>8, <1>9, <1>10, <1>11 DEF RInv, FdInv

LEMMA DoReload ==
  ASSUME RInv, Reload
  PROVE  RInv'
  <1>0. mem \in Mem /\ disk \in Disk /\ events \in Nat /\ Enabled_ /\ Unmarked /\ Kept /\ Ops
    BY Facts DEF RInv, FdInv
  <1>1. /\ mem.stage = "ok" /\ mem.stack = <<>> /\ disk' = disk /\ kern' = kern /\ intr' = intr /\ comp' = comp
        /\ cut' = cut /\ crashes' = crashes /\ events' = events + 1
    BY DEF Reload
  <1>2. mem.op.k = "none"
    BY <1>0, <1>1 DEF Ops
  <1> DEFINE i == import(mem)
             p == [u \in Unit |-> 0]
  <1>3. mem' = WithReload(i, "compensate", None, p)
    BY DEF Reload, WithReload
  <1>4. i \in Mem /\ i.op = mem.op
    BY <1>0, ImportOK
  <1>5. "compensate" \in Stage /\ None \in Todo /\ p \in PortMap /\ \A u \in Unit : p[u] = 0
    BY DEF Stage, Todo, PortMap
  <1> HIDE DEF i, p
  <1>6. mem' \in Mem /\ SameTables(mem', i) /\ mem'.stage = "compensate" /\ mem'.port = p /\ mem'.op = mem.op
    BY <1>3, <1>4, <1>5, SetReload
  <1>7. Stored' /\ PortRecs' /\ mem'.synced /\ mem'.add = Empty /\ mem'.del = {}
    BY <1>1, <1>6, Imported DEF i
  <1>8. Fresh'
    BY <1>6, <1>7 DEF Fresh
  <1>9. NoPorts'
    BY <1>5, <1>6 DEF NoPorts
  <1>10. Enabled_' /\ Unmarked'
    BY <1>0, <1>1 DEF Enabled_, Unmarked
  <1>11. ClosedMarked'
    BY <1>6 DEF ClosedMarked
  <1>12. Ops'
    BY <1>2, <1>6 DEF Ops
  <1>13. Kept'
    BY <1>0, <1>1, <1>6 DEF Kept, Before, Recorded
  <1>14. LTypeOK'
    BY Facts, <1>0, <1>1, <1>6 DEF LTypeOK
  <1>15. QED
    BY <1>7, <1>8, <1>9, <1>10, <1>11, <1>12, <1>13, <1>14 DEF RInv, FdInv

\* The process anew: empty tables, which are right only over an empty database.
LEMMA NewMemOK ==
  ASSUME disk \in Disk
  PROVE  /\ NewMem \in Mem /\ NewMem.cache = Empty /\ NewMem.add = Empty /\ NewMem.del = {}
         /\ NewMem.stage = "start" /\ NewMem.port = [u \in Unit |-> 0] /\ NewMem.op = NoOp
         /\ NewMem.stack = <<>> /\ (NewMem.synced => disk.db = Empty)
  <1> DEFINE y == (disk.db = Empty)
             p == [u \in Unit |-> 0]
             o == NoOp
             ex == Empty
             M(z) == [cache |-> ex, add |-> ex, del |-> {}, stack |-> <<>>, port |-> p,
                      stage |-> "start", todo |-> None, synced |-> z, op |-> o]
  <1>1. NewMem = M(y)
    BY DEF NewMem
  <1>2. y \in BOOLEAN /\ ex \in Table /\ p \in PortMap /\ o \in OpRec
    BY EmptyOK, NoOpOK DEF PortMap
  <1> HIDE DEF y, p, o, ex
  <1>3. ASSUME NEW z \in BOOLEAN
        PROVE  M(z) \in Mem
    BY <1>2 DEF Mem, PortMap, OpRec
  <1>4. ASSUME NEW z \in BOOLEAN
        PROVE  /\ M(z).cache = ex /\ M(z).add = ex /\ M(z).del = {} /\ M(z).stage = "start" /\ M(z).port = p
               /\ M(z).op = o /\ M(z).stack = <<>>
    OBVIOUS
  <1>5. ASSUME NEW z \in BOOLEAN
        PROVE  M(z).synced = z
    OBVIOUS
  <1>6. /\ M(y) \in Mem /\ M(y).cache = ex /\ M(y).add = ex /\ M(y).del = {} /\ M(y).stage = "start"
        /\ M(y).port = p /\ M(y).op = o /\ M(y).stack = <<>>
    BY <1>2, <1>3, <1>4
  <1>7. M(y).synced => disk.db = Empty
    <2>1. M(y).synced = y
      BY <1>2, <1>5
    <2>2. QED
      BY <2>1 DEF y
  <1> HIDE DEF M
  <1>8. QED
    BY <1>1, <1>6, <1>7 DEF p, o, ex

LEMMA FreshProcess ==
  ASSUME disk \in Disk, mem = NewMem, \A u \in Unit : disk.db[<<"port", u>>] \in PortValue
  PROVE  /\ mem \in Mem /\ Stored /\ PortRecs /\ Fresh /\ NoPorts /\ Enabled_ /\ ClosedMarked /\ Ops
         /\ mem.stage = "start"
  <1>1. /\ mem \in Mem /\ mem.cache = Empty /\ mem.add = Empty /\ mem.del = {}
        /\ mem.stage = "start" /\ mem.port = [u \in Unit |-> 0] /\ mem.op = NoOp
        /\ mem.stack = <<>> /\ (mem.synced => disk.db = Empty)
    BY NewMemOK
  <1>2. exported(disk.db, mem) = disk.db
    BY <1>1, ExportedWritten, DiskFields
  <1>3. Stored
    BY <1>1, <1>2 DEF Stored
  <1>4. PortRecs
    <2>1. \A u \in Unit : mem.cache[<<"port", u>>] = None
      BY <1>1, Keys, EmptyOK
    <2>2. QED
      BY <1>2, <2>1 DEF PortRecs, PortValue
  <1>5. Fresh /\ Enabled_ /\ ClosedMarked
    BY <1>1 DEF Fresh, Enabled_, ClosedMarked
  <1>6. NoPorts
    BY <1>1 DEF NoPorts
  <1>7. Ops
    BY <1>1, NoOpOK DEF Ops
  <1>8. QED
    BY <1>1, <1>3, <1>4, <1>5, <1>6, <1>7

\* What a crash leaves is found again: a mark, or the record of the port on disk.
LEMMA DoCrash ==
  ASSUME RInv, Crash
  PROVE  RInv'
  <1>0. /\ mem \in Mem /\ disk \in Disk /\ kern \in [Fd -> {"free", "cloexec", "kept", "lost"}] /\ Unmarked /\ Kept
        /\ intr \subseteq Pair /\ crashes \in Nat /\ events \in Nat /\ PortRecs
    BY Facts DEF RInv, FdInv
  <1>1. /\ disk' = disk /\ mem' = NewMem /\ comp' = None /\ crashes' = crashes + 1 /\ events' = events
        /\ kern' = [n \in Fd |-> IF kern[n] = "cloexec" THEN "free" ELSE kern[n]]
    BY DEF Crash
  <1>2. (mem = NewMem)' /\ (disk \in Disk)' /\ (\A u \in Unit : disk.db[<<"port", u>>] \in PortValue)'
    BY <1>0, <1>1 DEF NewMem, PortRecs
  <1>3. /\ (mem \in Mem)' /\ Stored' /\ PortRecs' /\ Fresh' /\ NoPorts' /\ Enabled_' /\ ClosedMarked' /\ Ops'
        /\ (mem.stage = "start")'
    BY <1>2, FreshProcess, PTL
  <1>4. kern' \in [Fd -> {"free", "cloexec", "kept", "lost"}] /\ \A n \in Fd : kern'[n] = "kept" => kern[n] = "kept"
    BY <1>0, <1>1
  <1>5. Unmarked'
    BY <1>0, <1>1, <1>4 DEF Unmarked
  <1>6. Kept'
    BY <1>0, <1>1, <1>3, <1>4 DEF Kept, Before, Recorded
  <1>7. intr' \subseteq Pair /\ cut' \in BOOLEAN
    <2>1. mem.stack \in Seq(Pair)
      BY <1>0, MemFields
    <2>2. \A i \in 1..Len(mem.stack) : mem.stack[i] \in Pair
      BY <2>1
    <2>3. intr' = intr \cup {mem.stack[i] : i \in 1..Len(mem.stack)} /\ cut' = (cut \/ ~ disk.enable)
      BY DEF Crash
    <2>4. intr' \subseteq Pair
      BY <1>0, <2>2, <2>3
    <2>5. cut' \in BOOLEAN
      BY <2>3
    <2>6. QED
      BY <2>4, <2>5
  <1>8. LTypeOK'
    BY <1>0, <1>1, <1>3, <1>4, <1>7 DEF LTypeOK
  <1>9. QED
    BY <1>3, <1>5, <1>6, <1>8 DEF RInv, FdInv

\* db_compensate writes a trigger and commits; the ports' records stay.
LEMMA DoCompensate ==
  ASSUME RInv, Compensate
  PROVE  RInv'
  <1>0. mem \in Mem /\ disk \in Disk /\ Fresh /\ NoPorts /\ Enabled_ /\ Kept /\ disk.db \in Table
    BY Facts, DiskFields DEF RInv, FdInv
  <1>1. /\ mem.stage = "compensate" /\ kern' = kern /\ intr' = intr /\ comp' = comp /\ cut' = cut
        /\ crashes' = crashes /\ events' = events
    BY DEF Compensate
  <1>2. mem.op.k = "none"
    BY <1>1, NoneUnderWay
  <1> DEFINE m == IF disk.unit # None /\ retriggers(mem) THEN insert(mem, <<"trigger", disk.unit>>, 1) ELSE mem
             w == written(m)
             b == exported(disk.db, m)
  <1>3. mem' = [w EXCEPT !.stage = "db_map"] /\ disk' = [disk EXCEPT !.db = b]
    BY DEF Compensate, commit
  <1>4. View(m) /\ \A u \in Unit : Answer(m, u) = Answer(mem, u)
    <2>1. disk.unit # None => disk.unit \in Unit
      BY <1>0, DiskFields
    <2>2. QED
      BY <2>1, Keys, OtherKeys, ViewInsert, ViewSelf
  <1> HIDE DEF m
  <1>5. m \in Mem /\ m.port = mem.port /\ m.op = mem.op /\ m.synced = mem.synced
    BY <1>4 DEF View, SameRest
  <1>6. /\ w \in Mem /\ w.port = mem.port /\ w.op = mem.op /\ w.add = Empty /\ w.del = {} /\ b \in Table
    BY <1>0, <1>5, WrittenOK, ExportedOK DEF SameRest
  <1>7. w.synced = mem.synced
    BY <1>5, WrittenOK DEF SameRest
  <1> HIDE DEF w, b
  <1>8. "db_map" \in Stage
    BY DEF Stage
  <1>9. mem' \in Mem /\ SameTables(mem', w) /\ mem'.stage = "db_map" /\ mem'.port = mem.port /\ mem'.op = mem.op
    BY <1>3, <1>6, <1>8, SetStage
  <1>10. disk' \in Disk /\ disk'.db = b /\ disk'.pend = disk.pend /\ disk'.enable = disk.enable
    BY <1>0, <1>3, <1>6, DiskDb
  <1>11. TablesKept
    BY <1>4, <1>9, <1>10, Committed DEF w, b
  <1>12. mem.synced /\ mem.add = Empty /\ mem.del = {} /\ exported(disk.db, mem) = disk.db
    BY <1>0, <1>1, ExportedWritten DEF Fresh
  <1>13. Fresh'
    <2>1. mem'.add = Empty /\ mem'.del = {}
      BY <1>6, <1>9 DEF SameTables
    <2>2. mem'.synced
      BY <1>7, <1>9, <1>12 DEF SameTables
    <2>3. QED
      BY <1>9, <2>1, <2>2 DEF Fresh
  <1>14. NoPorts'
    BY <1>0, <1>1, <1>9 DEF NoPorts, Before
  <1>15. Enabled_' /\ Unmarked'
    BY <1>0, <1>1, <1>10 DEF Enabled_, Unmarked
  <1>16. ClosedMarked'
    BY <1>9 DEF ClosedMarked
  <1>17. Ops'
    BY <1>2, <1>9 DEF Ops
  <1>18. Kept'
    <2>1. ASSUME NEW u \in Unit, NEW n \in Fd, disk.db[<<"port", u>>] = n
          PROVE  disk'.db[<<"port", u>>] = n
      <3>1. b[<<"port", u>>] = Answer(mem, u)
        BY <1>4 DEF Answer, b
      <3>2. QED
        BY <3>1, <1>10, <1>12, <2>1 DEF Answer
    <2>2. QED
      BY <2>1, <1>0, <1>1, <1>9, <1>10 DEF Kept, Before
  <1>19. LTypeOK'
    BY Facts, <1>1, <1>9, <1>10 DEF LTypeOK
  <1>20. QED
    BY <1>11, <1>13, <1>14, <1>15, <1>16, <1>17, <1>18, <1>19 DEF RInv, FdInv, TablesKept

\* db_map gives a descriptor to the port whose record names it, and takes its mark.
LEMMA DoDbMap ==
  ASSUME RInv, DbMap
  PROVE  RInv'
  <1>0. /\ mem \in Mem /\ disk \in Disk /\ Fresh /\ Stored /\ PortRecs /\ Enabled_ /\ Kept
        /\ disk.db \in Table /\ disk.pend \in Marks
    BY Facts, DiskFields DEF RInv, FdInv, Marks
  <1>1. /\ mem.stage = "db_map" /\ kern' = kern /\ intr' = intr /\ comp' = comp /\ cut' = cut
        /\ crashes' = crashes /\ events' = events
    BY DEF DbMap
  <1>2. mem.op.k = "none"
    BY <1>1, NoneUnderWay
  <1>3. exported(disk.db, mem) = disk.db /\ mem.cache = disk.db
    <2>1. mem.synced /\ mem.add = Empty /\ mem.del = {}
      BY <1>0, <1>1 DEF Fresh
    <2>2. QED
      BY <1>0, <2>1, ExportedWritten DEF Stored
  <1> DEFINE q == [n \in Fd |-> IF n \in fd_take THEN None ELSE disk.pend[n]]
             p == [u \in Unit |-> recorded(u)]
  <1>4. mem' = WithPortStage(mem, p, "close_marked") /\ disk' = [disk EXCEPT !.pend = q]
    BY DEF DbMap, WithPortStage
  <1>5. "close_marked" \in Stage /\ q \in Marks
    BY <1>0 DEF Stage, Marks
  <1>6. p \in PortMap
    <2>1. ASSUME NEW u \in Unit
          PROVE  recorded(u) \in {0} \cup Fd
      BY <1>0 DEF PortRecs, PortValue, recorded
    <2>2. QED
      BY <2>1 DEF PortMap
  <1>7. ASSUME NEW u \in Unit, NEW n \in Fd, disk.db[<<"port", u>>] = n
        PROVE  p[u] = n /\ Recorded(u, n)
    BY <1>3, <1>7, Keys DEF recorded, Recorded
  <1>8. ASSUME NEW n \in Fd, q[n] = None, disk.pend[n] # None
        PROVE  \E u \in Unit : disk.db[<<"port", u>>] = n
    <2>1. n \in fd_take
      BY <1>8
    <2>2. PICK u \in Unit : n = recorded(u)
      BY <2>1 DEF fd_take
    <2>3. QED
      BY <1>3, <2>2, Keys DEF recorded
  <1> HIDE DEF p, q
  <1>9. /\ mem' \in Mem /\ SameTables(mem', mem) /\ mem'.stage = "close_marked" /\ mem'.port = p
        /\ mem'.op = mem.op
    BY <1>0, <1>4, <1>5, <1>6, SetPortStage
  <1>10. disk' \in Disk /\ disk'.db = disk.db /\ disk'.pend = q /\ disk'.enable = disk.enable
    BY <1>0, <1>4, <1>5, DiskPend
  <1>11. TablesKept
    BY <1>9, <1>10, ViewSelf, InMemory
  <1>12. Fresh' /\ NoPorts' /\ ClosedMarked'
    BY <1>9 DEF Fresh, NoPorts, ClosedMarked, Before
  <1>13. Enabled_' /\ Unmarked'
    BY <1>0, <1>1, <1>10 DEF Enabled_, Unmarked
  <1>14. Ops'
    BY <1>2, <1>9 DEF Ops
  <1>15. Kept'
    <2>1. exported(disk'.db, mem') = exported(disk.db, mem)
      BY <1>9, <1>10 DEF exported, SameTables
    <2>2. ASSUME NEW n \in Fd, kern[n] = "kept", q[n] = None
          PROVE  \E u \in Unit : disk.db[<<"port", u>>] = n
      BY <1>0, <1>1, <1>8, <2>2 DEF Kept, Before
    <2>3. \A n \in Fd : kern[n] = "kept" /\ q[n] = None =>
            \E u \in Unit : p[u] = n /\ Recorded(u, n)
      BY <1>7, <2>2
    <2>4. \A u \in Unit, n \in Fd : Recorded(u, n)' <=> Recorded(u, n)
      BY <1>10, <2>1 DEF Recorded
    <2>5. QED
      BY <1>1, <1>9, <1>10, <2>3, <2>4 DEF Kept, Before
  <1>16. LTypeOK'
    BY Facts, <1>1, <1>9, <1>10 DEF LTypeOK
  <1>17. QED
    BY <1>11, <1>12, <1>13, <1>14, <1>15, <1>16 DEF RInv, FdInv, TablesKept

LEMMA DoCloseMarked ==
  ASSUME RInv, CloseMarked
  PROVE  RInv'
  <1>0. /\ mem \in Mem /\ disk \in Disk /\ Enabled_ /\ Kept /\ kern \in [Fd -> {"free", "cloexec", "kept", "lost"}]
    BY Facts DEF RInv, FdInv
  <1>1. /\ mem.stage = "close_marked" /\ disk' = disk /\ intr' = intr /\ comp' = comp /\ cut' = cut
        /\ crashes' = crashes /\ events' = events /\ mem' = [mem EXCEPT !.stage = "clear_marked"]
        /\ kern' = [n \in Fd |-> IF disk.pend[n] # None THEN "free" ELSE kern[n]]
    BY DEF CloseMarked
  <1>2. mem.op.k = "none"
    BY <1>1, NoneUnderWay
  <1>3. "clear_marked" \in Stage
    BY DEF Stage
  <1>4. /\ mem' \in Mem /\ SameTables(mem', mem) /\ mem'.stage = "clear_marked" /\ mem'.port = mem.port
        /\ mem'.op = mem.op
    BY <1>0, <1>1, <1>3, SetStage
  <1>5. /\ kern' \in [Fd -> {"free", "cloexec", "kept", "lost"}]
        /\ \A n \in Fd : kern'[n] = "kept" => kern[n] = "kept" /\ disk.pend[n] = None
    BY <1>0, <1>1
  <1>6. TablesKept
    BY <1>1, <1>4, ViewSelf, InMemory
  <1>7. Fresh' /\ NoPorts'
    BY <1>4 DEF Fresh, NoPorts, Before
  <1>8. ClosedMarked'
    BY <1>1, <1>5 DEF ClosedMarked
  <1>9. Enabled_' /\ Unmarked'
    BY <1>0, <1>1 DEF Enabled_, Unmarked
  <1>10. Ops'
    BY <1>2, <1>4 DEF Ops
  <1>11. Kept'
    BY <1>0, <1>1, <1>4, <1>5, <1>6 DEF Kept, Before, TablesKept
  <1>12. LTypeOK'
    BY Facts, <1>1, <1>4, <1>5 DEF LTypeOK
  <1>13. QED
    BY <1>6, <1>7, <1>8, <1>9, <1>10, <1>11, <1>12 DEF RInv, FdInv, TablesKept

LEMMA DoClearMarked ==
  ASSUME RInv, ClearMarked
  PROVE  RInv'
  <1>0. /\ mem \in Mem /\ disk \in Disk /\ Enabled_ /\ Kept /\ ClosedMarked /\ disk.db \in Table
    BY Facts, DiskFields DEF RInv, FdInv
  <1>1. /\ mem.stage = "clear_marked" /\ kern' = kern /\ intr' = intr /\ cut' = cut
        /\ crashes' = crashes /\ events' = events
    BY DEF ClearMarked
  <1>2. mem.op.k = "none"
    BY <1>1, NoneUnderWay
  <1> DEFINE w == written(mem)
             b == exported(disk.db, mem)
             q == [n \in Fd |-> None]
  <1>3. mem' = [w EXCEPT !.stage = "clear_unit"] /\ disk' = WithPendDb(disk, q, b)
    BY DEF ClearMarked, WithPendDb
  <1>4. "clear_unit" \in Stage /\ q \in Marks
    BY DEF Stage, Marks
  <1>5. View(mem) /\ w \in Mem /\ SameRest(w, mem) /\ b \in Table
    BY <1>0, ViewSelf, WrittenOK, ExportedOK
  <1> HIDE DEF w, b, q
  <1>6. /\ mem' \in Mem /\ SameTables(mem', w) /\ mem'.stage = "clear_unit" /\ mem'.port = mem.port
        /\ mem'.op = mem.op
    BY <1>3, <1>4, <1>5, SetStage DEF SameRest
  <1>7. disk' \in Disk /\ disk'.db = b /\ disk'.enable = disk.enable
    BY <1>0, <1>3, <1>4, <1>5, DiskPendDb
  <1>8. TablesKept
    BY <1>5, <1>6, <1>7, Committed DEF w, b
  <1>9. Fresh' /\ NoPorts' /\ ClosedMarked'
    BY <1>6 DEF Fresh, NoPorts, ClosedMarked, Before
  <1>10. Enabled_' /\ Unmarked'
    BY <1>0, <1>1, <1>7 DEF Enabled_, Unmarked
  <1>11. Ops'
    BY <1>2, <1>6 DEF Ops
  <1>12. Kept'
    <2>1. \A n \in Fd : kern[n] = "kept" => disk.pend[n] = None
      BY <1>0, <1>1 DEF ClosedMarked
    <2>2. QED
      BY <1>0, <1>1, <1>6, <1>8, <2>1 DEF Kept, Before, TablesKept
  <1>13. comp' \in Pair \cup {None}
    <2>1. last_frame \in Frame \/ ~ (last_frame \in {"JobManager", "SigChld", "Notify"} \/ last_frame = "SubManager")
      BY DEF Frame
    <2>2. disk.unit \in Unit \cup {None}
      BY <1>0, DiskFields
    <2>3. retriggers(mem) /\ disk.unit # None => [f |-> last_frame, u |-> disk.unit] \in Pair
      BY <2>1, <2>2 DEF retriggers, Pair
    <2>4. QED
      BY <2>3 DEF ClearMarked
  <1>14. LTypeOK'
    BY Facts, <1>1, <1>6, <1>7, <1>13 DEF LTypeOK
  <1>15. QED
    BY <1>8, <1>9, <1>10, <1>11, <1>12, <1>14 DEF RInv, FdInv, TablesKept

-----------------------------------------------------------------------------
(* The theorems. *)

LEMMA RInvInit == LInit => RInv
  <1> SUFFICES ASSUME LInit PROVE RInv
    OBVIOUS
  <1>1. mem = NewMem /\ kern = [n \in Fd |-> "free"] /\ \E s \in BOOLEAN : disk = Blank(s)
    BY DEF LInit
  <1>2. disk \in Disk
    BY <1>1, BlankOK
  <1>3. disk.db = Empty
    BY <1>1, BlankOK
  <1>4. \A u \in Unit : disk.db[<<"port", u>>] \in PortValue
    BY <1>3, Keys, EmptyOK DEF PortValue
  <1>5. /\ mem \in Mem /\ Stored /\ PortRecs /\ Fresh /\ NoPorts /\ Enabled_ /\ ClosedMarked /\ Ops
    BY <1>1, <1>2, <1>4, FreshProcess
  <1>6. Unmarked /\ Kept
    BY <1>1 DEF Unmarked, Kept
  <1>7. LTypeOK
    BY <1>1, <1>2, <1>5 DEF LTypeOK, LInit
  <1>8. QED
    BY <1>5, <1>6, <1>7 DEF RInv, FdInv

LEMMA RInvNext == RInv /\ [LNext]_lvars => RInv'
  <1> SUFFICES ASSUME RInv, [LNext]_lvars PROVE RInv'
    OBVIOUS
  <1>1. CASE UNCHANGED lvars
    BY <1>1 DEF lvars, RInv, LTypeOK, Stored, PortRecs, Fresh, FdInv, NoPorts, Enabled_, Unmarked, ClosedMarked,
                Ops, Top, Kept, Recorded
  <1>2. CASE LNext
    BY <1>2, DoStartup, DoClearedStartup, DoClearUnit, DoUnitCleared, DoClearFrame, DoFrameCleared, DoSetEnable, DoTail,
       DoRetain, DoRemove, DoCrash, DoCompensate, DoDbMap, DoCloseMarked, DoClearMarked,
       DoRecoverClearUnit, DoRecoverClearFrame, DoReload, DoSetFrame, DoSetUnit, DoWork, DoOpenPort,
       DoClosePort DEF LNext
  <1>3. QED
    BY <1>1, <1>2

LEMMA RInvHolds == LSpec => []RInv
  BY RInvInit, RInvNext, PTL DEF LSpec

\* The tables, the frames, the marks and the descriptors keep their types: no port holds
\* anything but a descriptor, whatever was written, committed or recovered.
THEOREM ReliabilityTyped == LSpec => []LTypeOK
  <1>1. RInv => LTypeOK
    BY DEF RInv
  <1>2. QED
    BY <1>1, RInvHolds, PTL

\* What the tables answer is what a commit would leave in the database (the three copies
\* of ReDb: cache, add and del), for any units and any number of crashes and reloads.
THEOREM CacheStored == LSpec => []CacheIsStored
  <1>1. RInv => CacheIsStored
    BY DEF RInv, Stored, CacheIsStored
  <1>2. QED
    BY <1>1, RInvHolds, PTL

\* Only a start without switch.debug loses a descriptor, and the file stays as it is.
NoneLost == \A n \in Fd : kern[n] = "lost" => ~ disk.switch

LEMMA SwitchStays ==
  ASSUME RInv, LNext
  PROVE  disk'.switch = disk.switch
  <1>0. disk \in Disk
    BY Facts
  <1>1. CASE ClearedStartup
    <2>1. disk' = Blank(FALSE) /\ ~ disk.switch
      BY <1>1 DEF ClearedStartup
    <2>2. disk.switch \in BOOLEAN
      BY <1>0 DEF Disk
    <2>3. QED
      BY <2>1, <2>2, BlankOK
  <1>4. CASE ClearUnit \/ ClearFrame \/ Compensate
    BY <1>0, <1>4 DEF ClearUnit, ClearFrame, Compensate, commit, Disk
  <1>5. CASE UnitCleared \/ FrameCleared \/ SetEnable \/ Tail_ \/ RecoverClearUnit \/ RecoverClearFrame
    BY <1>0, <1>5 DEF UnitCleared, FrameCleared, SetEnable, Tail_, RecoverClearUnit, RecoverClearFrame, Disk
  <1>6. CASE DbMap \/ ClearMarked
    BY <1>0, <1>6 DEF DbMap, ClearMarked, Disk
  <1>7. CASE Retain \/ Remove
    BY <1>0, <1>7 DEF Retain, Remove, fd_retain, fd_remove, fd_add, Disk
  <1>8. ASSUME NEW u \in Unit, SetUnit(u)
        PROVE  disk'.switch = disk.switch
    BY <1>0, <1>8 DEF SetUnit, Disk
  <1>9. ASSUME NEW f \in Frame, SetFrame(f)
        PROVE  disk'.switch = disk.switch
    BY <1>0, <1>9 DEF SetFrame, Disk
  <1>10. CASE Startup \/ Crash \/ CloseMarked \/ Reload
    BY <1>10 DEF Startup, Crash, CloseMarked, Reload
  <1>11. ASSUME NEW u \in Unit, Work(u) \/ OpenPort(u) \/ ClosePort(u)
        PROVE  disk'.switch = disk.switch
    BY <1>11 DEF Work, OpenPort, ClosePort
  <1>12. QED
    BY <1>1, <1>4, <1>5, <1>6, <1>7, <1>8, <1>9, <1>10, <1>11 DEF LNext

LEMMA LostStays ==
  ASSUME RInv, LNext, NEW x \in Fd, kern'[x] = "lost"
  PROVE  kern[x] = "lost" \/ ~ disk.switch
  <1>0. kern \in [Fd -> {"free", "cloexec", "kept", "lost"}]
    BY Facts
  <1>1. CASE Startup \/ ClearUnit \/ UnitCleared \/ ClearFrame \/ FrameCleared \/ SetEnable \/ Tail_
             \/ Compensate \/ DbMap \/ ClearMarked \/ RecoverClearUnit \/ RecoverClearFrame \/ Reload
    <2>1. kern' = kern
      BY <1>1 DEF Startup, ClearUnit, UnitCleared, ClearFrame, FrameCleared, SetEnable, Tail_, Compensate,
           DbMap, ClearMarked, RecoverClearUnit, RecoverClearFrame, Reload
    <2>2. QED
      BY <2>1
  <1>2. CASE ClearedStartup
    BY <1>2 DEF ClearedStartup
  <1>3. CASE Crash \/ CloseMarked
    BY <1>0, <1>3 DEF Crash, CloseMarked
  <1>4. CASE Retain
    BY <1>0, <1>4 DEF Retain, fd_retain
  <1>5. CASE Remove
    BY <1>0, <1>5 DEF Remove, fd_remove
  <1>6. CASE \E f \in Frame : SetFrame(f)
    BY <1>6 DEF SetFrame
  <1>7. CASE \E u \in Unit : SetUnit(u) \/ Work(u) \/ ClosePort(u)
    BY <1>7 DEF SetUnit, Work, ClosePort
  <1>8. CASE \E u \in Unit : OpenPort(u)
    BY <1>0, <1>8 DEF OpenPort
  <1>9. QED
    BY <1>1, <1>2, <1>3, <1>4, <1>5, <1>6, <1>7, <1>8 DEF LNext

LEMMA NoneLostHolds == LSpec => []NoneLost
  <1>1. LInit => NoneLost
    BY DEF LInit, NoneLost
  <1>2. RInv /\ NoneLost /\ [LNext]_lvars => NoneLost'
    <2> SUFFICES ASSUME RInv, NoneLost, [LNext]_lvars PROVE NoneLost'
      OBVIOUS
    <2>1. CASE UNCHANGED lvars
      BY <2>1 DEF lvars, NoneLost
    <2>2. CASE LNext
      BY <2>2, SwitchStays, LostStays DEF NoneLost
    <2>3. QED
      BY <2>1, <2>2
  <1>3. QED
    BY <1>1, <1>2, RInvHolds, PTL DEF LSpec

\* No descriptor that survives an exec outlives its port: it is marked for the recovery
\* to close, held by a port, or about to be taken from the record of one (fd_retain,
\* fd_remove, fd_take and make_consistent), wherever the process crashes; and where
\* switch.debug is, that is every descriptor the exec kept: only a start that clears the
\* data (main without the file) loses one.
THEOREM DescriptorsAccounted == LSpec => []FdAccounted
  <1>1. RInv /\ NoneLost => FdAccounted
    BY DEF RInv, FdInv, Kept, FdAccounted, Before, NoneLost
  <1>2. QED
    BY <1>1, RInvHolds, NoneLostHolds, PTL
-----------------------------------------------------------------------------
(* The frames: what a crash leaves of the last frame and the last unit, and  *)
(* what the recovery makes of it.                                            *)

\* The frames of the two queues, and those whose unit is run again.
FrameQuiet == {"Load", "TargetDeps"}
Retried == {"JobManager", "SigChld", "Notify", "SubManager"}
Recovery == {"start", "compensate", "db_map", "close_marked", "clear_marked", "clear_unit"}
Depth == DOMAIN mem.stack

\* Frames are held by a process that runs.
Idle == mem.stage \notin {"boot", "ok"} => mem.stack = <<>>

\* Startup is the outermost frame, the loop itself has no unit, and only the queues are
\* dispatched while a unit is set.
Nested ==
  \A i \in Depth :
    /\ mem.stack[i].f = "ManagerOp" => i = 1
    /\ mem.stack[i].f = "OtherEvent" => mem.stack[i].u = None
    /\ \A j \in Depth : j < i /\ mem.stack[j].u # None => mem.stack[i].f \in FrameQuiet

Queued ==
  /\ mem.todo \in {None, "ManagerOp", "OtherEvent"} \cup FrameQuiet
  /\ mem.todo \in {"ManagerOp", "OtherEvent"} => mem.stack = <<>>

Popping == mem.op.k = "clear_frame" => Top.u = None

\* The frames of the process are the last ones on disk; earlier crashes may have left others.
OnDisk ==
  /\ Len(mem.stack) <= Len(disk.frames)
  /\ \A i \in Depth : disk.frames[Len(disk.frames) - Len(mem.stack) + i] = mem.stack[i].f

\* The last unit, if there is one, is that of the innermost frame that has a unit.
Innermost ==
  mem.stage \in {"boot", "ok", "enable", "tail", "clear_frame"} /\ ~ cut /\ disk.unit # None =>
    \E i \in Depth : mem.stack[i].u = disk.unit /\ \A j \in Depth : i < j => mem.stack[j].u = None

\* What a recovery finds was interrupted.
Interrupted ==
  mem.stage \in Recovery /\ ~ cut /\ disk.unit # None /\ last_frame \in Retried =>
    [f |-> last_frame, u |-> disk.unit] \in intr

FirstBoot == mem.stage = "start" /\ ~ cut /\ ~ disk.enable => disk.unit = None

FrameInv ==
  /\ Idle /\ Nested /\ Queued /\ Popping
  /\ OnDisk /\ Innermost /\ Interrupted /\ FirstBoot /\ NoFalseTrigger

LEMMA DepthOK ==
  ASSUME mem \in Mem
  PROVE  /\ mem.stack \in Seq(Pair) /\ Len(mem.stack) \in Nat /\ Depth = 1..Len(mem.stack)
         /\ \A i \in Depth : mem.stack[i] \in Pair
  BY MemFields DEF Depth

LEMMA FramesOK == ASSUME disk \in Disk PROVE disk.frames \in Seq(Frame) /\ Len(disk.frames) \in Nat
  BY DiskFields

\* A step that leaves the frames and the stage alone.
SameFrames ==
  /\ mem'.stack = mem.stack /\ mem'.todo = mem.todo /\ mem'.stage = mem.stage
  /\ disk'.unit = disk.unit /\ disk'.frames = disk.frames /\ disk'.enable = disk.enable
  /\ intr' = intr /\ comp' = comp /\ cut' = cut

LEMMA FrameStays ==
  ASSUME FrameInv, SameFrames, mem'.op.k = "clear_frame" => Top.u = None
  PROVE  FrameInv'
  <1>1. Top' = Top /\ Depth' = Depth /\ last_frame' = last_frame
    BY DEF SameFrames, Top, Depth, last_frame
  <1>2. Idle' /\ Nested' /\ Queued' /\ Popping' /\ OnDisk'
    BY <1>1 DEF FrameInv, SameFrames, Idle, Nested, Queued, Popping, OnDisk
  <1>3. Innermost'
    BY <1>1 DEF FrameInv, SameFrames, Innermost
  <1>4. Interrupted' /\ FirstBoot' /\ NoFalseTrigger'
    BY <1>1 DEF FrameInv, SameFrames, Interrupted, FirstBoot, NoFalseTrigger
  <1>5. QED
    BY <1>2, <1>3, <1>4 DEF FrameInv

\* A process without a frame.
LEMMA NoFrames ==
  ASSUME mem' \in Mem, disk' \in Disk, mem'.stack = <<>>,
         mem'.todo \in {None, "ManagerOp", "OtherEvent"} \cup FrameQuiet
  PROVE  Idle' /\ Nested' /\ Queued' /\ Popping' /\ OnDisk'
  <1>1. Depth' = {} /\ Len(mem'.stack) = 0
    BY DEF Depth
  <1>2. Len(disk'.frames) \in Nat
    BY DEF Disk
  <1>3. Top'.u = None
    BY DEF Top
  <1>4. QED
    BY <1>1, <1>2, <1>3 DEF Idle, Nested, Queued, Popping, OnDisk

LEMMA FramesWork ==
  ASSUME RInv, FrameInv, NEW u \in Unit, Work(u)
  PROVE  FrameInv'
  <1>1. mem \in Mem /\ mem.op.k = "none"
    BY Facts DEF Work, Running
  <1>2. SameRest(mem', mem)
    <2>1. mem.port[u] \in Value /\ 1 \in Value
      BY <1>1, MemFields DEF PortMap, Value
    <2>2. \A k \in Key, v \in Value : SameRest(insert(mem, k, v), mem) /\ SameRest(remove(mem, k), mem)
      BY <1>1, InsertOK, TableRemoveOK
    <2>3. QED
      BY <2>1, <2>2, Keys DEF Work
  <1>3. SameFrames /\ mem'.op.k # "clear_frame"
    BY <1>1, <1>2 DEF Work, SameFrames, SameRest
  <1>4. QED
    BY <1>3, FrameStays

LEMMA FramesClearUnit ==
  ASSUME RInv, FrameInv, ClearUnit
  PROVE  FrameInv'
  <1> DEFINE w == written(mem)
             o == [NoOp EXCEPT !.k = "clear_unit"]
             b == exported(disk.db, mem)
  <1>1. mem \in Mem /\ disk \in Disk /\ w \in Mem /\ SameRest(w, mem) /\ o \in OpRec /\ o.k = "clear_unit"
    BY Facts, WrittenOK DEF OpRec, NoOp
  <1>2. mem' = [w EXCEPT !.op = o] /\ disk' = [disk EXCEPT !.db = b]
    BY DEF ClearUnit, commit
  <1> HIDE DEF w, o, b
  <1>3. mem'.stack = w.stack /\ mem'.todo = w.todo /\ mem'.stage = w.stage /\ mem'.op = o
    BY <1>1, <1>2, SetOp
  <1>4. disk'.unit = disk.unit /\ disk'.frames = disk.frames
    BY <1>1, <1>2 DEF Disk
  <1>5. disk'.enable = disk.enable
    BY <1>1, <1>2 DEF Disk
  <1>6. SameFrames /\ mem'.op.k # "clear_frame"
    BY <1>1, <1>3, <1>4, <1>5 DEF ClearUnit, SameFrames, SameRest
  <1>7. QED
    BY <1>6, FrameStays

LEMMA FramesClearFrame ==
  ASSUME RInv, FrameInv, ClearFrame
  PROVE  FrameInv'
  <1> DEFINE m == IF Top.f = "SubManager" THEN remove(mem, FdListen) ELSE mem
             w == written(m)
             o == [NoOp EXCEPT !.k = "clear_frame"]
             b == exported(disk.db, m)
  <1>1. mem \in Mem /\ disk \in Disk /\ o \in OpRec
    BY Facts DEF OpRec, NoOp
  <1>2. m \in Mem /\ SameRest(m, mem)
    BY <1>1, Keys, TableRemoveOK DEF SameRest
  <1>3. w \in Mem /\ SameRest(w, m)
    BY <1>2, WrittenOK
  <1>4. mem' = [w EXCEPT !.op = o] /\ disk' = [disk EXCEPT !.db = b]
    BY DEF ClearFrame, commit
  <1> HIDE DEF w, o, b, m
  <1>5. mem'.stack = w.stack /\ mem'.todo = w.todo /\ mem'.stage = w.stage
    BY <1>1, <1>3, <1>4, SetOp
  <1>6. disk'.unit = disk.unit /\ disk'.frames = disk.frames
    BY <1>1, <1>4 DEF Disk
  <1>7. disk'.enable = disk.enable
    BY <1>1, <1>4 DEF Disk
  <1>8. SameFrames /\ Top.u = None
    BY <1>2, <1>3, <1>5, <1>6, <1>7 DEF ClearFrame, SameFrames, SameRest
  <1>9. QED
    BY <1>8, FrameStays

LEMMA FramesOpenClose ==
  ASSUME RInv, FrameInv, NEW u \in Unit, OpenPort(u) \/ ClosePort(u)
  PROVE  FrameInv'
  <1>1. mem \in Mem
    BY Facts
  <1>2. \E o \in OpRec : o.k # "clear_frame" /\ mem' = [mem EXCEPT !.op = o]
    <2>1. CASE OpenPort(u)
      <3>1. PICK n \in lowest_free : mem' = [mem EXCEPT !.op = [k |-> "open", fd |-> n, step |-> 1]]
        BY <2>1 DEF OpenPort
      <3>2. [k |-> "open", fd |-> n, step |-> 1] \in OpRec
        BY DEF OpRec, lowest_free
      <3>3. QED
        BY <3>1, <3>2
    <2>2. CASE ClosePort(u)
      <3>1. mem' = [mem EXCEPT !.op = [k |-> "close", fd |-> mem.port[u], step |-> 1]]
        BY <2>2 DEF ClosePort
      <3>2. [k |-> "close", fd |-> mem.port[u], step |-> 1] \in OpRec
        BY <1>1, MemFields DEF OpRec, PortMap
      <3>3. QED
        BY <3>1, <3>2
    <2>3. QED
      BY <2>1, <2>2
  <1>3. /\ mem'.stack = mem.stack /\ mem'.todo = mem.todo /\ mem'.stage = mem.stage
        /\ mem'.op.k # "clear_frame"
    BY <1>1, <1>2, SetOp
  <1>4. SameFrames
    BY <1>3 DEF OpenPort, ClosePort, SameFrames
  <1>5. QED
    BY <1>3, <1>4, FrameStays

LEMMA PendOnly ==
  ASSUME disk \in Disk, NEW n, NEW s, fd_add(n, s)
  PROVE  disk'.unit = disk.unit /\ disk'.frames = disk.frames /\ disk'.enable = disk.enable
  <1>1. disk'.unit = disk.unit /\ disk'.frames = disk.frames
    BY DEF fd_add, Disk
  <1>2. disk'.enable = disk.enable
    BY DEF fd_add, Disk
  <1>3. QED
    BY <1>1, <1>2

LEMMA FramesRetain ==
  ASSUME RInv, FrameInv, Retain \/ Remove
  PROVE  FrameInv'
  <1>1. mem \in Mem /\ disk \in Disk /\ mem.op \in OpRec /\ mem.op.k \in {"open", "close"}
    BY Facts, MemFields DEF Retain, Remove
  <1>2. disk'.unit = disk.unit /\ disk'.frames = disk.frames /\ disk'.enable = disk.enable
    BY <1>1, PendOnly DEF Retain, Remove, fd_retain, fd_remove
  <1>3. /\ mem'.stack = mem.stack /\ mem'.todo = mem.todo /\ mem'.stage = mem.stage
        /\ mem'.op.k # "clear_frame"
    <2>1. CASE mem' = [mem EXCEPT !.op = NoOp]
      BY <1>1, <2>1, SetOp, NoOpOK
    <2>2. ASSUME NEW i \in 0..3, mem' = [mem EXCEPT !.op.step = i]
          PROVE  /\ mem'.stack = mem.stack /\ mem'.todo = mem.todo /\ mem'.stage = mem.stage
                 /\ mem'.op.k # "clear_frame"
      BY <1>1, <2>2, SetStep
    <2>3. ASSUME NEW u, NEW n, mem' = WithOpPort(mem, u, n)
          PROVE  /\ mem'.stack = mem.stack /\ mem'.todo = mem.todo /\ mem'.stage = mem.stage
                 /\ mem'.op.k # "clear_frame"
      <3>1. mem'.op = NoOp
        BY <1>1, <2>3 DEF Mem, WithOpPort
      <3>2. mem'.stack = mem.stack /\ mem'.todo = mem.todo /\ mem'.stage = mem.stage
        BY <1>1, <2>3 DEF Mem, WithOpPort
      <3>3. QED
        BY <3>1, <3>2, NoOpOK
    <2>4. CASE Retain
      <3>1. \/ mem' = [mem EXCEPT !.op = NoOp]
            \/ mem' = [mem EXCEPT !.op.step = 2]
            \/ mem' = [mem EXCEPT !.op.step = 3]
            \/ mem' = WithOpPort(mem, Top.u, mem.op.fd)
        BY <2>4, Zenon DEF Retain, fd_retain, WithOpPort
      <3>2. QED
        BY <3>1, <2>1, <2>2, <2>3
    <2>5. CASE Remove
      <3>1. \/ mem' = [mem EXCEPT !.op.step = IF kern[mem.op.fd] # "cloexec" THEN 2 ELSE 0]
            \/ mem' = [mem EXCEPT !.op.step = 3]
            \/ mem' = [mem EXCEPT !.op.step = 0]
            \/ mem' = WithOpPort(mem, Top.u, 0)
        BY <2>5, Zenon DEF Remove, fd_remove, WithOpPort
      <3>2. (IF kern[mem.op.fd] # "cloexec" THEN 2 ELSE 0) \in 0..3
        OBVIOUS
      <3>3. QED
        BY <3>1, <3>2, <2>2, <2>3
    <2>6. QED
      BY <2>4, <2>5
  <1>4. SameFrames
    BY <1>2, <1>3 DEF Retain, Remove, SameFrames
  <1>5. QED
    BY <1>3, <1>4, FrameStays

-----------------------------------------------------------------------------
(* The stages of a start.  None of them holds a frame. *)

LEMMA EmptyStart ==
  ASSUME FrameInv, mem.stage \notin {"boot", "ok"}
  PROVE  mem.stack = <<>> /\ mem.todo \in {None, "ManagerOp", "OtherEvent"} \cup FrameQuiet
  BY DEF FrameInv, Idle, Queued

\* A step of the recovery that keeps the last frame and the last unit.
LEMMA Recovers ==
  ASSUME RInv', FrameInv, mem.stage \in Recovery, mem'.stage \in Recovery \ {"start"},
         mem'.stack = mem.stack, mem'.todo = mem.todo,
         disk'.unit = disk.unit, disk'.frames = disk.frames, intr' = intr, cut' = cut, NoFalseTrigger'
  PROVE  FrameInv'
  <1>1. mem' \in Mem /\ disk' \in Disk
    BY DEF RInv, LTypeOK
  <1>2. Idle' /\ Nested' /\ Queued' /\ Popping' /\ OnDisk'
    BY <1>1, EmptyStart, NoFrames DEF Recovery
  <1>3. Innermost' /\ FirstBoot'
    BY DEF Innermost, FirstBoot, Recovery
  <1>4. Interrupted'
    <2>1. last_frame' = last_frame
      BY DEF last_frame
    <2>2. QED
      BY <2>1 DEF FrameInv, Interrupted
  <1>5. QED
    BY <1>2, <1>3, <1>4 DEF FrameInv

LEMMA FramesCompensate ==
  ASSUME RInv, RInv', FrameInv, Compensate
  PROVE  FrameInv'
  <1> DEFINE m == IF disk.unit # None /\ retriggers(mem)
                  THEN insert(mem, <<"trigger", disk.unit>>, 1) ELSE mem
             w == written(m)
             b == exported(disk.db, m)
  <1>1. mem \in Mem /\ disk \in Disk /\ disk.unit \in Unit \cup {None}
    BY Facts, DiskFields
  <1>2. m \in Mem /\ SameRest(m, mem)
    <2>1. disk.unit # None => disk.unit \in Unit
      BY <1>1
    <2>2. \A u \in Unit : insert(mem, <<"trigger", u>>, 1) \in Mem /\ SameRest(insert(mem, <<"trigger", u>>, 1), mem)
      BY <1>1, Keys, InsertOK
    <2>3. QED
      BY <1>1, <2>1, <2>2 DEF SameRest
  <1>3. w \in Mem /\ SameRest(w, m)
    BY <1>2, WrittenOK
  <1>4. mem' = [w EXCEPT !.stage = "db_map"] /\ disk' = [disk EXCEPT !.db = b]
    BY DEF Compensate, commit
  <1> HIDE DEF w, b, m
  <1>5. mem'.stack = mem.stack /\ mem'.todo = mem.todo /\ mem'.stage = "db_map"
    BY <1>2, <1>3, <1>4, SetStage DEF SameRest, Stage
  <1>6. disk'.unit = disk.unit /\ disk'.frames = disk.frames
    BY <1>1, <1>4 DEF Disk
  <1>7. NoFalseTrigger'
    BY DEF Compensate, FrameInv, NoFalseTrigger
  <1>8. intr' = intr /\ cut' = cut /\ mem.stage = "compensate"
    BY DEF Compensate
  <1>9. QED
    BY <1>5, <1>6, <1>7, <1>8, Recovers DEF Recovery

LEMMA FramesDbMap ==
  ASSUME RInv, RInv', FrameInv, DbMap
  PROVE  FrameInv'
  <1> DEFINE q == [n \in Fd |-> IF n \in fd_take THEN None ELSE disk.pend[n]]
             p == [u \in Unit |-> recorded(u)]
  <1>1. mem \in Mem /\ disk \in Disk
    BY Facts
  <1>2. mem' = [mem EXCEPT !.port = p, !.stage = "close_marked"] /\ disk' = [disk EXCEPT !.pend = q]
    BY DEF DbMap
  <1> HIDE DEF q, p
  <1>3. mem'.stack = mem.stack /\ mem'.todo = mem.todo /\ mem'.stage = "close_marked"
    BY <1>1, <1>2 DEF Mem
  <1>4. disk'.unit = disk.unit /\ disk'.frames = disk.frames
    BY <1>1, <1>2 DEF Disk
  <1>5. NoFalseTrigger' /\ intr' = intr /\ cut' = cut /\ mem.stage = "db_map"
    BY DEF DbMap, FrameInv, NoFalseTrigger
  <1>6. QED
    BY <1>3, <1>4, <1>5, Recovers DEF Recovery

LEMMA FramesCloseMarked ==
  ASSUME RInv, RInv', FrameInv, CloseMarked
  PROVE  FrameInv'
  <1>1. mem \in Mem /\ mem' = [mem EXCEPT !.stage = "clear_marked"] /\ disk' = disk
    BY Facts DEF CloseMarked
  <1>2. mem'.stack = mem.stack /\ mem'.todo = mem.todo /\ mem'.stage = "clear_marked"
    BY <1>1, SetStage DEF Stage
  <1>3. NoFalseTrigger' /\ intr' = intr /\ cut' = cut /\ mem.stage = "close_marked"
    BY DEF CloseMarked, FrameInv, NoFalseTrigger
  <1>4. QED
    BY <1>1, <1>2, <1>3, Recovers DEF Recovery

\* What is compensated is the last frame with the last unit, which a crash interrupted.
LEMMA FramesClearMarked ==
  ASSUME RInv, RInv', FrameInv, ClearMarked
  PROVE  FrameInv'
  <1> DEFINE w == written(mem)
             q == [n \in Fd |-> None]
             b == exported(disk.db, mem)
  <1>1. mem \in Mem /\ disk \in Disk /\ w \in Mem /\ SameRest(w, mem)
    BY Facts, WrittenOK
  <1>2. mem' = [w EXCEPT !.stage = "clear_unit"] /\ disk' = [disk EXCEPT !.pend = q, !.db = b]
    BY DEF ClearMarked
  <1> HIDE DEF q, b, w
  <1>3. mem'.stack = mem.stack /\ mem'.todo = mem.todo /\ mem'.stage = "clear_unit"
    BY <1>1, <1>2, SetStage DEF SameRest, Stage
  <1>4. disk'.unit = disk.unit /\ disk'.frames = disk.frames
    BY <1>1, <1>2 DEF Disk
  <1>5. intr' = intr /\ cut' = cut /\ mem.stage = "clear_marked"
    BY DEF ClearMarked
  <1>6. NoFalseTrigger'
    <2>1. disk.unit # None /\ retriggers(mem) => last_frame \in Retried
      BY DEF retriggers, Retried
    <2>2. comp' # None => comp' = [f |-> last_frame, u |-> disk.unit] /\ disk.unit # None /\ retriggers(mem)
      BY DEF ClearMarked
    <2>3. QED
      BY <1>5, <2>1, <2>2 DEF FrameInv, Interrupted, Recovery, NoFalseTrigger
  <1>7. QED
    BY <1>3, <1>4, <1>5, <1>6, Recovers DEF Recovery

LEMMA FramesRecoverClear ==
  ASSUME RInv, RInv', FrameInv, RecoverClearUnit \/ RecoverClearFrame
  PROVE  FrameInv'
  <1>1. mem \in Mem /\ disk \in Disk /\ mem' \in Mem /\ disk' \in Disk
    BY Facts DEF RInv, LTypeOK
  <1>2. mem.stack = <<>> /\ mem.todo \in {None, "ManagerOp", "OtherEvent"} \cup FrameQuiet
    BY EmptyStart DEF RecoverClearUnit, RecoverClearFrame
  <1>3. mem'.stack = mem.stack /\ mem'.todo = mem.todo /\ mem'.stage \in {"clear_frame", "tail"}
    BY <1>1, SetStage DEF RecoverClearUnit, RecoverClearFrame, Stage
  <1>4. Idle' /\ Nested' /\ Queued' /\ Popping' /\ OnDisk'
    BY <1>1, <1>2, <1>3, NoFrames
  <1>5. ~ cut => disk'.unit = None
    <2>1. CASE RecoverClearUnit
      BY <1>1, <2>1 DEF RecoverClearUnit, Disk
    <2>2. CASE RecoverClearFrame
      <3>1. ~ cut => disk.unit = None
        BY <1>2, <2>2 DEF RecoverClearFrame, FrameInv, Innermost, Depth
      <3>2. disk'.unit = disk.unit
        BY <1>1, <2>2 DEF RecoverClearFrame, Disk
      <3>3. QED
        BY <3>1, <3>2
    <2>3. QED
      BY <2>1, <2>2
  <1>6. cut' = cut /\ NoFalseTrigger'
    BY DEF RecoverClearUnit, RecoverClearFrame, FrameInv, NoFalseTrigger
  <1>7. Innermost' /\ Interrupted' /\ FirstBoot'
    BY <1>3, <1>5, <1>6 DEF Innermost, Interrupted, FirstBoot, Recovery
  <1>8. QED
    BY <1>4, <1>6, <1>7 DEF FrameInv

LEMMA FramesEnable ==
  ASSUME RInv, RInv', FrameInv, SetEnable \/ Tail_
  PROVE  FrameInv'
  <1>1. mem \in Mem /\ disk \in Disk /\ mem' \in Mem /\ disk' \in Disk
    BY Facts DEF RInv, LTypeOK
  <1>2. mem.stack = <<>> /\ mem.todo \in {None, "ManagerOp", "OtherEvent"} \cup FrameQuiet
    BY EmptyStart DEF SetEnable, Tail_
  <1>3. ~ cut => disk.unit = None
    BY <1>2 DEF SetEnable, Tail_, FrameInv, Innermost, Depth
  <1>4. /\ mem'.stack = <<>> /\ mem'.todo \in {None, "ManagerOp", "OtherEvent"} \cup FrameQuiet
        /\ mem'.stage \in {"tail", "ok"} /\ disk'.unit = disk.unit
    <2>1. CASE SetEnable
      <3>1. mem'.stack = mem.stack /\ mem'.todo = mem.todo /\ mem'.stage = "tail"
        BY <1>1, <2>1, SetStage DEF SetEnable, Stage
      <3>2. disk'.unit = disk.unit
        BY <1>1, <2>1 DEF SetEnable, Disk
      <3>3. QED
        BY <1>2, <3>1, <3>2
    <2>2. CASE Tail_
      <3> DEFINE w == written(mem)
                 b == exported(disk.db, mem)
                 fr == Pop(disk.frames)
      <3>1. w \in Mem /\ SameRest(w, mem)
        BY <1>1, WrittenOK
      <3>2. mem' = WithStageTodo(w, "ok", "Load") /\ disk' = [disk EXCEPT !.db = b, !.frames = fr]
        BY <2>2 DEF Tail_, WithStageTodo
      <3> HIDE DEF w, b, fr
      <3>3. mem'.stack = w.stack /\ mem'.todo = "Load" /\ mem'.stage = "ok"
        BY <3>1, <3>2, SetStageTodo DEF Stage, Todo, Frame
      <3>4. disk'.unit = disk.unit
        BY <1>1, <3>2 DEF Disk
      <3>5. QED
        BY <1>2, <3>1, <3>3, <3>4 DEF SameRest, FrameQuiet
    <2>3. QED
      BY <2>1, <2>2
  <1>5. Idle' /\ Nested' /\ Queued' /\ Popping' /\ OnDisk'
    BY <1>1, <1>4, NoFrames
  <1>6. cut' = cut /\ NoFalseTrigger'
    BY DEF SetEnable, Tail_, FrameInv, NoFalseTrigger
  <1>7. Innermost' /\ Interrupted' /\ FirstBoot'
    BY <1>3, <1>4, <1>6 DEF Innermost, Interrupted, FirstBoot, Recovery
  <1>8. QED
    BY <1>5, <1>6, <1>7 DEF FrameInv

LEMMA FramesStartup ==
  ASSUME RInv, RInv', FrameInv, Startup
  PROVE  FrameInv'
  <1>1. mem \in Mem /\ disk \in Disk /\ mem' \in Mem /\ disk' \in Disk
    BY Facts DEF RInv, LTypeOK
  <1>2. mem.stack = <<>> /\ mem.todo \in {None, "ManagerOp", "OtherEvent"} \cup FrameQuiet
    BY EmptyStart DEF Startup
  <1>3. NoFalseTrigger' /\ disk' = disk /\ intr' = intr /\ cut' = cut /\ mem.stage = "start"
    BY DEF Startup, FrameInv, NoFalseTrigger
  <1>4. CASE disk.enable
    <2> DEFINE i == import(mem)
    <2>1. i \in Mem /\ i.stack = mem.stack /\ i.todo = mem.todo
      BY <1>1, ImportOK
    <2>2. mem' = [i EXCEPT !.stage = "compensate"]
      BY <1>4 DEF Startup
    <2> HIDE DEF i
    <2>3. mem'.stack = mem.stack /\ mem'.todo = mem.todo /\ mem'.stage = "compensate"
      BY <2>1, <2>2, SetStage DEF Stage
    <2>4. QED
      BY <1>3, <2>3, Recovers DEF Recovery
  <1>5. CASE ~ disk.enable
    <2>1. mem' = WithStageTodo(mem, "boot", "ManagerOp")
      BY <1>5 DEF Startup, WithStageTodo
    <2>2. mem'.stack = mem.stack /\ mem'.todo = "ManagerOp" /\ mem'.stage = "boot"
      BY <1>1, <2>1, SetStageTodo DEF Stage, Todo, Frame
    <2>3. Idle' /\ Nested' /\ Queued' /\ Popping' /\ OnDisk'
      BY <1>1, <1>2, <2>2, NoFrames
    <2>4. ~ cut => disk.unit = None
      BY <1>3, <1>5 DEF FrameInv, FirstBoot
    <2>5. Innermost' /\ Interrupted' /\ FirstBoot'
      BY <1>3, <2>2, <2>4 DEF Innermost, Interrupted, FirstBoot, Recovery
    <2>6. QED
      BY <1>3, <2>3, <2>5 DEF FrameInv
  <1>6. QED
    BY <1>4, <1>5

LEMMA FramesClearedStartup ==
  ASSUME RInv, RInv', FrameInv, ClearedStartup
  PROVE  FrameInv'
  <1>1. mem \in Mem /\ mem' \in Mem /\ disk' \in Disk
    BY Facts DEF RInv, LTypeOK
  <1>2. mem.stack = <<>>
    BY EmptyStart DEF ClearedStartup
  <1>3. comp' = None /\ disk' = Blank(FALSE) /\ mem' = WithBoot(mem)
    BY DEF ClearedStartup, WithBoot
  <1>4. mem'.stack = <<>> /\ mem'.todo = "ManagerOp" /\ mem'.stage = "boot" /\ disk'.unit = None
    BY <1>1, <1>2, <1>3, SetBoot, BlankOK
  <1>5. Idle' /\ Nested' /\ Queued' /\ Popping' /\ OnDisk'
    BY <1>1, <1>4, NoFrames
  <1>6. Innermost' /\ Interrupted' /\ FirstBoot' /\ NoFalseTrigger'
    BY <1>3, <1>4 DEF Innermost, Interrupted, FirstBoot, NoFalseTrigger
  <1>7. QED
    BY <1>5, <1>6 DEF FrameInv

LEMMA FramesReload ==
  ASSUME RInv, RInv', FrameInv, Reload
  PROVE  FrameInv'
  <1>1. mem \in Mem /\ disk \in Disk /\ mem' \in Mem /\ disk' \in Disk
    BY Facts DEF RInv, LTypeOK
  <1>2. NoFalseTrigger' /\ disk' = disk /\ cut' = cut /\ mem.stage = "ok" /\ mem.stack = <<>>
    BY DEF Reload, FrameInv, NoFalseTrigger
  <1>3. ~ cut => disk.unit = None
    BY <1>2 DEF FrameInv, Innermost, Depth
  <1> DEFINE i == import(mem)
             p == [u \in Unit |-> 0]
  <1>4. i \in Mem /\ i.stack = mem.stack
    BY <1>1, ImportOK
  <1>5. mem' = [i EXCEPT !.stage = "compensate", !.todo = None, !.port = p]
    BY DEF Reload
  <1> HIDE DEF i, p
  <1>6. mem'.stack = i.stack /\ mem'.todo = None /\ mem'.stage = "compensate"
    BY <1>4, <1>5 DEF Mem
  <1>7. Idle' /\ Nested' /\ Queued' /\ Popping' /\ OnDisk'
    BY <1>1, <1>2, <1>4, <1>6, NoFrames
  <1>8. Innermost' /\ Interrupted' /\ FirstBoot'
    BY <1>2, <1>3, <1>6 DEF Innermost, Interrupted, FirstBoot, Recovery
  <1>9. QED
    BY <1>2, <1>7, <1>8 DEF FrameInv

-----------------------------------------------------------------------------
(* Frames and units are set and cleared. *)

LEMMA FramesCrash ==
  ASSUME RInv, RInv', FrameInv, Crash
  PROVE  FrameInv'
  <1>1. mem \in Mem /\ disk \in Disk /\ mem' \in Mem /\ disk' \in Disk
    BY Facts DEF RInv, LTypeOK
  <1>2. mem'.stack = <<>> /\ mem'.todo = None /\ mem'.stage = "start"
    BY DEF Crash, NewMem
  <1>3. /\ disk' = disk /\ comp' = None /\ cut' = (cut \/ ~ disk.enable)
        /\ intr' = intr \cup {mem.stack[i] : i \in 1..Len(mem.stack)}
    BY DEF Crash
  <1>4. Idle' /\ Nested' /\ Queued' /\ Popping' /\ OnDisk'
    BY <1>1, <1>2, NoFrames
  <1>5. Innermost' /\ FirstBoot' /\ NoFalseTrigger'
    BY <1>2, <1>3 DEF Innermost, FirstBoot, NoFalseTrigger
  <1>6. ASSUME ~ cut, disk.unit # None, last_frame \in Retried
        PROVE  [f |-> last_frame, u |-> disk.unit] \in intr'
    <2>1. CASE mem.stage \in Recovery
      BY <1>3, <1>6, <2>1 DEF FrameInv, Interrupted
    <2>2. CASE mem.stage \notin Recovery
      <3>1. mem.stage \in {"boot", "ok", "enable", "tail", "clear_frame"}
        BY <1>1, <2>2, MemFields DEF Stage, Recovery
      <3>2. PICK i \in Depth : mem.stack[i].u = disk.unit
        BY <1>6, <3>1 DEF FrameInv, Innermost
      <3> DEFINE l == Len(mem.stack)
      <3>3. /\ l \in Nat /\ Depth = 1..l /\ i \in 1..l /\ l \in Depth /\ mem.stack[l] \in Pair
            /\ Len(disk.frames) \in Nat
        BY <1>1, <3>2, DepthOK, FramesOK
      <3>4. last_frame = mem.stack[l].f
        <4>1. l <= Len(disk.frames) /\ disk.frames[Len(disk.frames) - l + l] = mem.stack[l].f
          BY <3>3 DEF FrameInv, OnDisk
        <4>2. Len(disk.frames) - l + l = Len(disk.frames) /\ Len(disk.frames) # 0
          BY <3>3, <4>1
        <4>3. disk.frames # <<>>
          BY <4>2
        <4>4. QED
          BY <4>1, <4>2, <4>3 DEF last_frame, Head_
      <3>5. i = l
        <4>1. SUFFICES ASSUME i < l PROVE FALSE
          BY <3>3
        <4>2. mem.stack[l].f \in FrameQuiet
          BY <1>6, <3>2, <3>3, <4>1 DEF FrameInv, Nested
        <4>3. QED
          BY <1>6, <3>4, <4>2 DEF FrameQuiet, Retried
      <3>6. mem.stack[l] = [f |-> last_frame, u |-> disk.unit]
        BY <3>2, <3>3, <3>4, <3>5 DEF Pair
      <3>7. QED
        BY <1>3, <3>3, <3>6
    <2>3. QED
      BY <2>1, <2>2
  <1>7. Interrupted'
    <2>1. last_frame' = last_frame
      BY <1>3 DEF last_frame
    <2>2. QED
      BY <1>3, <1>6, <2>1 DEF Interrupted
  <1>8. QED
    BY <1>4, <1>5, <1>7 DEF FrameInv

\* The unit of the top frame is set or cleared, the rest of the frames is as it was.
LEMMA StackUnitParts ==
  ASSUME NEW s \in Seq(Pair), s # <<>>, NEW u \in Unit \cup {None}, NEW t, t = [s EXCEPT ![Len(s)].u = u]
  PROVE  /\ Len(t) = Len(s) /\ DOMAIN t = DOMAIN s /\ Len(s) \in DOMAIN s
         /\ t[Len(s)].f = s[Len(s)].f /\ t[Len(s)].u = u
         /\ \A i \in DOMAIN s : i # Len(s) => t[i] = s[i]
  <1> DEFINE l == Len(s)
             r == [s[l] EXCEPT !.u = u]
  <1>1. l \in Nat /\ l # 0 /\ DOMAIN s = 1..l
    OBVIOUS
  <1>2. l \in DOMAIN s /\ s[l] \in Pair
    BY <1>1
  <1>3. r \in Pair /\ r.f = s[l].f /\ r.u = u
    BY <1>2 DEF Pair
  <1>4. t = [s EXCEPT ![l] = r]
    OBVIOUS
  <1> HIDE DEF r
  <1>5. Len(t) = Len(s) /\ DOMAIN t = DOMAIN s /\ t[l] = r /\ \A i \in DOMAIN s : i # l => t[i] = s[i]
    BY <1>2, <1>3, <1>4
  <1>6. QED
    BY <1>2, <1>3, <1>5

\* The unit of the top frame changes to u, and so does the last unit.
LEMMA UnitChanges ==
  ASSUME RInv, RInv', FrameInv, mem.stage \in {"boot", "ok"}, mem.stack # <<>>, NEW u \in Unit \cup {None},
         Top.f # "OtherEvent" \/ u = None,
         mem'.stack = [mem.stack EXCEPT ![Len(mem.stack)].u = u],
         mem'.todo = mem.todo, mem'.stage = mem.stage, mem'.op.k # "clear_frame",
         mem.todo \notin {"ManagerOp", "OtherEvent"},
         disk'.unit = u, disk'.frames = disk.frames, comp' = comp, intr' = intr, cut' = cut
  PROVE  FrameInv'
  <1>1. mem \in Mem /\ mem.stack \in Seq(Pair) /\ mem' \in Mem
    BY Facts, MemFields DEF RInv, LTypeOK
  <1> DEFINE l == Len(mem.stack)
  <1>2. /\ Len(mem'.stack) = l /\ Depth' = Depth /\ l \in Depth /\ Depth = 1..l /\ l \in Nat
        /\ mem'.stack[l].f = mem.stack[l].f /\ mem'.stack[l].u = u
        /\ \A i \in Depth : i # l => mem'.stack[i] = mem.stack[i]
    BY <1>1, StackUnitParts, DepthOK DEF Depth
  <1>3. \A i \in Depth : mem'.stack[i].f = mem.stack[i].f
    BY <1>2
  <1>4. Top = mem.stack[l]
    BY <1>1, TopOK
  <1>5. Nested'
    <2> SUFFICES ASSUME NEW i \in Depth
                 PROVE  /\ mem'.stack[i].f = "ManagerOp" => i = 1
                        /\ mem'.stack[i].f = "OtherEvent" => mem'.stack[i].u = None
                        /\ \A j \in Depth : j < i /\ mem'.stack[j].u # None => mem'.stack[i].f \in FrameQuiet
      BY <1>2 DEF Nested
    <2>1. mem'.stack[i].f = "ManagerOp" => i = 1
      BY <1>3 DEF FrameInv, Nested
    <2>2. mem'.stack[i].f = "OtherEvent" => mem'.stack[i].u = None
      BY <1>2, <1>3, <1>4 DEF FrameInv, Nested
    <2>3. ASSUME NEW j \in Depth, j < i, mem'.stack[j].u # None
          PROVE  mem'.stack[i].f \in FrameQuiet
      <3>1. j # l
        BY <1>2, <2>3
      <3>2. QED
        BY <1>2, <1>3, <2>3, <3>1 DEF FrameInv, Nested
    <2>4. QED
      BY <2>1, <2>2, <2>3
  <1>6. Idle' /\ Queued' /\ Popping'
    BY DEF FrameInv, Idle, Queued, Popping
  <1>7. OnDisk'
    BY <1>2, <1>3 DEF FrameInv, OnDisk
  <1>8. Innermost'
    BY <1>2 DEF Innermost
  <1>9. Interrupted' /\ FirstBoot' /\ NoFalseTrigger'
    BY DEF FrameInv, Interrupted, FirstBoot, NoFalseTrigger, Recovery
  <1>10. QED
    BY <1>5, <1>6, <1>7, <1>8, <1>9 DEF FrameInv

LEMMA ListenOK ==
  ASSUME mem \in Mem, NEW v \in {0, 1}
  PROVE  insert(mem, FdListen, v) \in Mem /\ SameRest(insert(mem, FdListen, v), mem)
  <1>1. FdListen \in Key /\ v \in Value
    BY DEF Key, Value
  <1>2. QED
    BY <1>1, InsertOK

LEMMA FramesSetUnit ==
  ASSUME RInv, RInv', FrameInv, NEW u \in Unit, SetUnit(u)
  PROVE  FrameInv'
  <1>1. mem \in Mem /\ disk \in Disk
    BY Facts
  <1>2. /\ mem.stage \in {"boot", "ok"} /\ mem.op.k = "none" /\ mem.todo = None
        /\ Top.f # "OtherEvent" /\ Top.f # None
    BY NoneNoFrame DEF SetUnit, Running, Frame
  <1>3. mem.stack # <<>> /\ mem.stack \in Seq(Pair)
    BY <1>1, <1>2, TopOK, MemFields
  <1> DEFINE m == IF Top.f = "SubManager" THEN insert(mem, FdListen, 1) ELSE mem
             s == [m.stack EXCEPT ![Len(mem.stack)].u = u]
  <1>4. mem' = [m EXCEPT !.stack = s] /\ disk' = [disk EXCEPT !.unit = u]
    BY DEF SetUnit
  <1>5. m \in Mem /\ SameRest(m, mem)
    BY <1>1, ListenOK DEF SameRest
  <1>6. s = [mem.stack EXCEPT ![Len(mem.stack)].u = u] /\ s \in Seq(Pair)
    BY <1>3, <1>5, StackUnit DEF SameRest
  <1> HIDE DEF m, s
  <1>7. mem'.stack = s /\ mem'.todo = m.todo /\ mem'.stage = m.stage /\ mem'.op = m.op
    BY <1>4, <1>5, <1>6, SetStack
  <1>8. disk'.unit = u /\ disk'.frames = disk.frames
    BY <1>1, <1>4 DEF Disk
  <1>9. comp' = comp /\ intr' = intr /\ cut' = cut
    BY DEF SetUnit
  <1>10. mem'.todo = mem.todo /\ mem'.stage = mem.stage /\ mem'.op.k # "clear_frame"
    BY <1>2, <1>5, <1>7 DEF SameRest
  <1>11. mem.todo \notin {"ManagerOp", "OtherEvent"}
    BY <1>2, NoneNoFrame DEF Frame
  <1>12. QED
    BY <1>2, <1>3, <1>6, <1>7, <1>8, <1>9, <1>10, <1>11, UnitChanges

LEMMA FramesUnitCleared ==
  ASSUME RInv, RInv', FrameInv, UnitCleared
  PROVE  FrameInv'
  <1>1. mem \in Mem /\ disk \in Disk
    BY Facts
  <1>2. mem.stage \in {"boot", "ok"} /\ mem.stack # <<>> /\ mem.stack \in Seq(Pair)
    BY <1>1, MemFields DEF UnitCleared, RInv, FdInv, Ops
  <1> DEFINE s == [mem.stack EXCEPT ![Len(mem.stack)].u = None]
             o == NoOp
  <1>3. mem' = WithOpStack(mem, o, s) /\ disk' = [disk EXCEPT !.unit = None]
    BY DEF UnitCleared, WithOpStack
  <1>4. s \in Seq(Pair) /\ o \in OpRec /\ o.k = "none"
    BY <1>2, StackUnit, NoOpOK
  <1> HIDE DEF s, o
  <1>5. mem'.stack = s /\ mem'.todo = mem.todo /\ mem'.stage = mem.stage /\ mem'.op = o
    BY <1>1, <1>3, <1>4, SetOpStack
  <1>6. disk'.unit = None /\ disk'.frames = disk.frames
    BY <1>1, <1>3 DEF Disk
  <1>7. comp' = comp /\ intr' = intr /\ cut' = cut
    BY DEF UnitCleared
  <1>8. mem.todo \notin {"ManagerOp", "OtherEvent"}
    BY <1>2 DEF FrameInv, Queued
  <1>9. s = [mem.stack EXCEPT ![Len(mem.stack)].u = None]
    BY DEF s
  <1>10. QED
    BY <1>2, <1>4, <1>5, <1>6, <1>7, <1>8, <1>9, UnitChanges

\* A handler is called by the loop, which has no unit set.
LEMMA PushedFrame ==
  ASSUME mem \in Mem, FrameInv, NEW f \in Next_frame
  PROVE  /\ f \in FrameQuiet \/ \A i \in Depth : mem.stack[i].u = None
         /\ f = "ManagerOp" => mem.stack = <<>>
  <1>1. CASE mem.todo # None
    <2>1. f = mem.todo
      BY <1>1 DEF Next_frame
    <2>2. f \in FrameQuiet \/ mem.stack = <<>>
      BY <1>1, <2>1 DEF FrameInv, Queued
    <2>3. QED
      BY <2>1, <2>2 DEF FrameInv, Queued, Depth, FrameQuiet
  <1>2. CASE mem.todo = None /\ Top.f = "OtherEvent"
    <2>1. f \in Handlers
      BY <1>2 DEF Next_frame, Loads
    <2>2. mem.stack # <<>>
      BY <1>2, TopOK, NoneNoFrame DEF Frame
    <2>3. Top = mem.stack[Len(mem.stack)] /\ Len(mem.stack) \in Depth
      BY <2>2, TopOK, DepthOK
    <2>4. \A i \in Depth : i <= Len(mem.stack) /\ i \in Nat
      BY DepthOK
    <2>5. ASSUME NEW i \in Depth PROVE mem.stack[i].u = None
      <3>1. CASE i = Len(mem.stack)
        BY <1>2, <2>3, <3>1 DEF FrameInv, Nested
      <3>2. CASE i < Len(mem.stack)
        BY <1>2, <2>3, <3>2 DEF FrameInv, Nested, FrameQuiet
      <3>3. QED
        BY <2>4, <3>1, <3>2, DepthOK
    <2>6. QED
      BY <2>1, <2>5 DEF Handlers
  <1>3. CASE mem.todo = None /\ Top.f # "OtherEvent"
    <2>1. f = "Load"
      BY <1>3 DEF Next_frame
    <2>2. QED
      BY <2>1 DEF FrameQuiet
  <1>4. QED
    BY <1>1, <1>2, <1>3

LEMMA FramesSetFrame ==
  ASSUME RInv, RInv', FrameInv, NEW f \in Frame, SetFrame(f)
  PROVE  FrameInv'
  <1>1. mem \in Mem /\ disk \in Disk /\ mem' \in Mem /\ disk' \in Disk
    BY Facts DEF RInv, LTypeOK
  <1>2. mem.stage \in {"boot", "ok"} /\ mem.op.k = "none" /\ f \in Next_frame
    BY DEF SetFrame, Running
  <1> DEFINE m == IF Top.f = "SubManager" THEN insert(mem, FdListen, 0) ELSE mem
             r == [f |-> f, u |-> None]
             s == Append(m.stack, r)
             fr == Append(disk.frames, f)
             l == Len(mem.stack)
             d == Len(disk.frames)
  <1>3. mem' = WithStackTodo(m, s, None) /\ disk' = [disk EXCEPT !.frames = fr]
    BY DEF SetFrame, WithStackTodo
  <1>4. m \in Mem /\ SameRest(m, mem)
    BY <1>1, ListenOK DEF SameRest
  <1>5. r \in Pair /\ mem.stack \in Seq(Pair) /\ l \in Nat /\ Depth = 1..l
    BY <1>1, DepthOK DEF Pair
  <1>6. /\ s \in Seq(Pair) /\ Len(s) = l + 1 /\ s[l + 1] = r /\ \A i \in 1..l : s[i] = mem.stack[i]
        /\ DOMAIN s = 1..(l + 1)
    <2>1. s = Append(mem.stack, r)
      BY <1>4 DEF SameRest
    <2> HIDE DEF s, r
    <2>2. QED
      BY <1>5, <2>1
  <1>7. /\ d \in Nat /\ fr \in Seq(Frame) /\ Len(fr) = d + 1 /\ fr[d + 1] = f
        /\ \A i \in 1..d : fr[i] = disk.frames[i]
    BY <1>1, FramesOK
  <1>8. r.f = f /\ r.u = None /\ None \in Todo
    BY DEF Todo
  <1> HIDE DEF m, s, fr, r
  <1>9. mem'.stack = s /\ mem'.todo = None /\ mem'.stage = mem.stage /\ mem'.op = mem.op
    BY <1>3, <1>4, <1>6, <1>8, SetStackTodo DEF SameRest
  <1>10. disk'.unit = disk.unit /\ disk'.frames = fr
    BY <1>1, <1>3 DEF Disk
  <1>11. comp' = comp /\ intr' = intr /\ cut' = cut
    BY DEF SetFrame
  <1>12. Depth' = 1..(l + 1)
    BY <1>6, <1>9 DEF Depth
  <1>13. (f \in FrameQuiet \/ \A i \in Depth : mem.stack[i].u = None) /\ (f = "ManagerOp" => mem.stack = <<>>)
    BY <1>1, <1>2, PushedFrame
  <1>14. Idle' /\ Queued' /\ Popping'
    BY <1>2, <1>9, NoneNoFrame DEF Idle, Queued, Popping, Frame
  <1>15. Nested'
    <2> SUFFICES ASSUME NEW i \in 1..(l + 1)
                 PROVE  /\ s[i].f = "ManagerOp" => i = 1
                        /\ s[i].f = "OtherEvent" => s[i].u = None
                        /\ \A j \in 1..(l + 1) : j < i /\ s[j].u # None => s[i].f \in FrameQuiet
      BY <1>9, <1>12 DEF Nested
    <2>1. CASE i \in 1..l
      <3>1. \A j \in 1..(l + 1) : j < i => j \in 1..l
        BY <1>5, <2>1
      <3>2. QED
        BY <1>5, <1>6, <2>1, <3>1 DEF FrameInv, Nested
    <2>2. CASE i = l + 1
      <3>1. s[i] = r /\ \A j \in 1..(l + 1) : j < i => j \in Depth /\ s[j] = mem.stack[j]
        BY <1>5, <1>6, <2>2
      <3>2. f = "ManagerOp" => i = 1
        BY <1>13, <2>2
      <3>3. QED
        BY <1>8, <1>13, <3>1, <3>2
    <2>3. QED
      BY <1>5, <2>1, <2>2
  <1>16. OnDisk'
    <2>1. l <= d /\ \A i \in 1..l : disk.frames[d - l + i] = mem.stack[i].f
      BY <1>5 DEF FrameInv, OnDisk
    <2> HIDE DEF l, d
    <2>2. ASSUME NEW i \in 1..(l + 1) PROVE fr[(d + 1) - (l + 1) + i] = s[i].f
      <3>1. CASE i \in 1..l
        <4>1. (d + 1) - (l + 1) + i = d - l + i /\ d - l + i \in 1..d
          BY <1>5, <1>7, <2>1, <3>1
        <4>2. QED
          BY <1>6, <1>7, <2>1, <3>1, <4>1
      <3>2. CASE i = l + 1
        <4>1. (d + 1) - (l + 1) + i = d + 1
          BY <1>5, <1>7, <3>2
        <4>2. QED
          BY <1>6, <1>7, <1>8, <3>2, <4>1
      <3>3. QED
        BY <1>5, <3>1, <3>2
    <2>3. l + 1 <= d + 1
      BY <1>5, <1>7, <2>1
    <2>4. QED
      BY <1>6, <1>7, <1>9, <1>10, <1>12, <2>2, <2>3 DEF OnDisk
  <1>17. Innermost'
    <2> SUFFICES ASSUME ~ cut, disk.unit # None
                 PROVE  \E i \in 1..(l + 1) : s[i].u = disk.unit /\ \A j \in 1..(l + 1) : i < j => s[j].u = None
      BY <1>9, <1>10, <1>11, <1>12 DEF Innermost
    <2>1. PICK i \in Depth : mem.stack[i].u = disk.unit /\ \A j \in Depth : i < j => mem.stack[j].u = None
      BY <1>2 DEF FrameInv, Innermost
    <2>2. i \in 1..(l + 1) /\ s[i].u = disk.unit
      BY <1>5, <1>6, <2>1
    <2>3. \A j \in 1..(l + 1) : j \in 1..l \/ j = l + 1
      BY <1>5
    <2>4. QED
      BY <1>5, <1>6, <1>8, <2>1, <2>2, <2>3
  <1>18. Interrupted' /\ FirstBoot' /\ NoFalseTrigger'
    BY <1>2, <1>9, <1>11 DEF FrameInv, Interrupted, FirstBoot, NoFalseTrigger, Recovery
  <1>19. QED
    BY <1>14, <1>15, <1>16, <1>17, <1>18 DEF FrameInv

LEMMA FramesFrameCleared ==
  ASSUME RInv, RInv', FrameInv, FrameCleared
  PROVE  FrameInv'
  <1>1. mem \in Mem /\ disk \in Disk /\ mem' \in Mem /\ disk' \in Disk
    BY Facts DEF RInv, LTypeOK
  <1>2. mem.stage \in {"boot", "ok"} /\ mem.stack # <<>> /\ mem.stack \in Seq(Pair) /\ mem.op.k = "clear_frame"
    BY <1>1, MemFields DEF FrameCleared, RInv, FdInv, Ops
  <1> DEFINE l == Len(mem.stack)
             d == Len(disk.frames)
             s == Pop(mem.stack)
             m == IF s # <<>> /\ Head_(s).f = "SubManager" /\ Top.f = "TargetDeps"
                  THEN insert(mem, FdListen, 1) ELSE mem
             o == NoOp
             t == after(Top.f, s)
             g == IF Top.f = "ManagerOp" THEN "enable" ELSE m.stage
             fr == Pop(disk.frames)
  <1>3. mem' = WithFrameEnd(m, o, s, t, g) /\ disk' = [disk EXCEPT !.frames = fr]
    BY DEF FrameCleared, WithFrameEnd
  <1>4. m \in Mem /\ SameRest(m, mem)
    BY <1>1, ListenOK DEF SameRest
  <1>5. l \in Nat /\ l # 0 /\ Depth = 1..l /\ l \in Depth /\ Top = mem.stack[l] /\ Top.u = None
    BY <1>1, <1>2, DepthOK, TopOK DEF FrameInv, Popping
  <1>6. d \in Nat /\ l <= d /\ \A i \in 1..l : disk.frames[d - l + i] = mem.stack[i].f
    BY <1>1, <1>5, FramesOK DEF FrameInv, OnDisk
  <1>7. /\ s \in Seq(Pair) /\ Len(s) = l - 1 /\ DOMAIN s = 1..(l - 1)
        /\ \A i \in 1..(l - 1) : s[i] = mem.stack[i]
    BY <1>2, <1>5 DEF Pop
  <1>8. /\ fr \in Seq(Frame) /\ Len(fr) = d - 1 /\ \A i \in 1..(d - 1) : fr[i] = disk.frames[i]
    <2>1. disk.frames \in Seq(Frame) /\ disk.frames # <<>>
      BY <1>1, <1>5, <1>6, FramesOK
    <2>2. QED
      BY <1>5, <1>6, <2>1 DEF Pop
  <1>9. /\ t \in Todo /\ t \in {None, "ManagerOp", "OtherEvent"} \cup FrameQuiet
        /\ t \in {"ManagerOp", "OtherEvent"} => s = <<>>
    <2> HIDE DEF s
    <2>1. QED
      BY NoneNoFrame DEF after, Todo, Frame, FrameQuiet
  <1>10. g \in Stage /\ (g = mem.stage \/ (g = "enable" /\ Top.f = "ManagerOp"))
    BY <1>2, <1>4 DEF Stage, SameRest
  <1>11. o \in OpRec /\ o.k = "none"
    BY NoOpOK
  <1> HIDE DEF s, m, o, t, g, fr
  <1>12. mem'.stack = s /\ mem'.todo = t /\ mem'.stage = g /\ mem'.op = o
    BY <1>3, <1>4, <1>7, <1>9, <1>10, <1>11, SetFrameEnd
  <1>13. disk'.unit = disk.unit /\ disk'.frames = fr
    BY <1>1, <1>3 DEF Disk
  <1>14. comp' = comp /\ intr' = intr /\ cut' = cut
    BY DEF FrameCleared
  <1> HIDE DEF l, d
  <1>15. Depth' = 1..(l - 1) /\ (1..(l - 1)) \subseteq 1..l
    BY <1>5, <1>7, <1>12 DEF Depth
  <1>16. Idle' /\ Queued' /\ Popping'
    <2>1. Top.f = "ManagerOp" => s = <<>>
      <3>1. Top.f = "ManagerOp" => l = 1
        BY <1>5 DEF FrameInv, Nested
      <3>2. QED
        BY <1>7, <3>1
    <2>2. QED
      BY <1>2, <1>9, <1>10, <1>11, <1>12, <2>1 DEF Idle, Queued, Popping
  <1>17. Nested'
    BY <1>5, <1>7, <1>12, <1>15 DEF FrameInv, Nested
  <1>18. OnDisk'
    <2>1. ASSUME NEW i \in 1..(l - 1) PROVE fr[(d - 1) - (l - 1) + i] = s[i].f
      <3>1. (d - 1) - (l - 1) + i = d - l + i /\ d - l + i \in 1..(d - 1) /\ i \in 1..l
        BY <1>5, <1>6
      <3>2. QED
        BY <1>6, <1>7, <1>8, <3>1
    <2>2. l - 1 <= d - 1
      BY <1>5, <1>6
    <2>3. QED
      BY <1>7, <1>8, <1>12, <1>13, <1>15, <2>1, <2>2 DEF OnDisk
  <1>19. Innermost'
    <2> SUFFICES ASSUME ~ cut, disk.unit # None
                 PROVE  \E i \in 1..(l - 1) : s[i].u = disk.unit /\ \A j \in 1..(l - 1) : i < j => s[j].u = None
      BY <1>12, <1>13, <1>14, <1>15 DEF Innermost
    <2>1. PICK i \in Depth : mem.stack[i].u = disk.unit /\ \A j \in Depth : i < j => mem.stack[j].u = None
      BY <1>2 DEF FrameInv, Innermost
    <2>2. i # l
      BY <1>5, <2>1
    <2>3. i \in 1..(l - 1) /\ s[i].u = disk.unit
      BY <1>5, <1>7, <2>1, <2>2
    <2>4. QED
      BY <1>5, <1>7, <1>15, <2>1, <2>3
  <1>20. Interrupted' /\ FirstBoot' /\ NoFalseTrigger'
    BY <1>2, <1>10, <1>12, <1>14 DEF FrameInv, Interrupted, FirstBoot, NoFalseTrigger, Recovery
  <1>21. QED
    BY <1>16, <1>17, <1>18, <1>19, <1>20 DEF FrameInv

LEMMA FramesInit == LInit => FrameInv
  <1> SUFFICES ASSUME LInit PROVE FrameInv
    OBVIOUS
  <1>1. mem.stack = <<>> /\ mem.todo = None /\ mem.stage = "start" /\ Depth = {}
    BY DEF LInit, NewMem, Depth
  <1>2. disk.frames = <<>> /\ disk.unit = None /\ comp = None /\ Len(mem.stack) = 0
    BY <1>1, BlankOK DEF LInit
  <1>3. Idle /\ Nested /\ Queued /\ OnDisk
    BY <1>1, <1>2, NoneNoFrame DEF Idle, Nested, Queued, OnDisk, Frame
  <1>4. Popping
    BY <1>1 DEF Popping, Top
  <1>5. Innermost /\ Interrupted /\ FirstBoot /\ NoFalseTrigger
    BY <1>2 DEF Innermost, Interrupted, FirstBoot, NoFalseTrigger
  <1>6. QED
    BY <1>3, <1>4, <1>5 DEF FrameInv

LEMMA FramesNext == RInv /\ FrameInv /\ [LNext]_lvars => FrameInv'
  <1> SUFFICES ASSUME RInv, FrameInv, [LNext]_lvars PROVE FrameInv'
    OBVIOUS
  <1>1. RInv'
    BY RInvNext
  <1>2. CASE UNCHANGED lvars
    BY <1>2, FrameStays DEF lvars, SameFrames, FrameInv, Popping
  <1>3. CASE LNext
    BY <1>1, <1>3, FramesStartup, FramesClearedStartup, FramesClearUnit, FramesUnitCleared, FramesClearFrame, FramesFrameCleared,
       FramesEnable, FramesRetain, FramesCrash, FramesCompensate, FramesDbMap, FramesCloseMarked,
       FramesClearMarked, FramesRecoverClear, FramesReload, FramesSetFrame, FramesSetUnit, FramesWork,
       FramesOpenClose DEF LNext
  <1>4. QED
    BY <1>2, <1>3

\* A recovery runs a unit again only when a handler of that very unit was interrupted by one
\* of the crashes since the last complete start, whatever frames nested handlers and earlier
\* recoveries left behind (set_last_frame, set_last_unit, their clear, db_compensate).
THEOREM OnlyInterruptedRetriggered == LSpec => []NoFalseTrigger
  <1>1. LInit => RInv /\ FrameInv
    BY RInvInit, FramesInit
  <1>2. RInv /\ FrameInv /\ [LNext]_lvars => (RInv /\ FrameInv)'
    BY RInvNext, FramesNext
  <1>3. FrameInv => NoFalseTrigger
    BY DEF FrameInv
  <1>4. QED
    BY <1>1, <1>2, <1>3, PTL DEF LSpec

===============================================================================
