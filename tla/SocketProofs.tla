---------------------------- MODULE SocketProofs ----------------------------
(***************************************************************************)
(* Proofs about Socket, for any ports and any unit files: the types, and   *)
(* that the descriptors and the sources of a unit follow its state.        *)
(*                                                                         *)
(* Every enter_* function ends in set_state, which lets go of what the new *)
(* state does not call for, so what it promises of its outcomes depends    *)
(* little on the state it was called in: a unit that goes to StartPost or  *)
(* Listening must have its ports open.                                     *)
(***************************************************************************)
EXTENDS Socket, TLAPS

\* Every port has a descriptor, though maybe one that is gone.
Held(s) == \A p \in Port : s.fd[p] # "none"
Opened == {"StartPost", "Listening"}
Down == {"Dead", "Failed", "StartPre", "StopPost"}

\* PortsFollowState of one unit, with what it needs of a unit that is about to listen.
Follows(s, stopping) ==
  ~ s.panic =>
    /\ s.state \in Opened => Held(s)
    /\ s.state = "Listening" /\ ~ stopping => \A p \in Port : s.fd[p] = "open" /\ s.source[p] = "on"
    /\ s.state # "Listening" /\ ~ s.cold => \A p \in Port : s.source[p] # "on"
    /\ s.state \in Down /\ ~ s.cold => \A p \in Port : s.fd[p] = "none"

Good(s) == s \in Unit /\ Follows(s, stop_job)

\* What the enter_* functions promise of their outcomes.
Enters(S) == \A o \in S : Good(o)

\* What a record has to keep of it.
RecOK(s) == s \in Unit /\ (s.state \in Opened => Held(s))

\* What the handlers take as given.
Context == conf \in Configs /\ waiting \subseteq Port

LEMMA ConfTyped ==
  ASSUME Context
  PROVE  \A k \in SocketCommand : conf.cmds[k] \in 0..2
  BY SocketAssumption DEF Context, Config

-----------------------------------------------------------------------------
(* Ports and their sources. *)

LEMMA Panic ==
  ASSUME NEW s \in Unit
  PROVE  panic(s) \in Unit /\ panic(s).panic /\ Good(panic(s))
  <1>1. panic(s) \in Unit /\ panic(s).panic
    BY DEF panic, Unit
  <1>2. QED
    BY <1>1 DEF Good, Follows

LEMMA WatchFds ==
  ASSUME NEW s \in Unit
  PROVE  LET w == watch_fds(s) IN
         /\ w \in Unit /\ (s.panic => w.panic) /\ w.state = s.state
         /\ ~ w.panic => /\ w.fd = s.fd
                         /\ \A p \in Port : s.fd[p] # "closed"
                                            /\ (s.fd[p] = "open" => w.source[p] = "on")
  <1> DEFINE w == watch_fds(s)
             src == [p \in Port |-> IF s.fd[p] = "open" THEN "on" ELSE s.source[p]]
  <1>1. CASE \E p \in Port : s.fd[p] = "closed" \/ (s.fd[p] = "open" /\ s.source[p] = "on")
    <2>1. w = panic(s)
      BY <1>1 DEF watch_fds
    <2>2. panic(s).state = s.state
      BY DEF panic, Unit
    <2> HIDE DEF w
    <2>3. w \in Unit /\ w.panic /\ w.state = s.state
      BY <2>1, <2>2, Panic
    <2>4. QED
      BY <2>3 DEF w
  <1>2. CASE ~ \E p \in Port : s.fd[p] = "closed" \/ (s.fd[p] = "open" /\ s.source[p] = "on")
    <2>1. w = [s EXCEPT !.source = src]
      BY <1>2 DEF watch_fds
    <2>2. src \in [Port -> {"none", "off", "on"}] /\ \A p \in Port : s.fd[p] = "open" => src[p] = "on"
      BY DEF Unit
    <2> HIDE DEF w, src
    <2>3. w \in Unit
      BY <2>1, <2>2 DEF Unit
    <2>4. w.state = s.state /\ w.fd = s.fd /\ w.source = src
      BY <2>1 DEF Unit
    <2>5. w.panic = s.panic
      BY <2>1 DEF Unit
    <2>6. QED
      BY <1>2, <2>2, <2>3, <2>4, <2>5 DEF w
  <1>3. QED
    BY <1>1, <1>2

LEMMA UnwatchFds ==
  ASSUME NEW s \in Unit
  PROVE  LET w == unwatch_fds(s) IN
         /\ w \in Unit /\ (s.panic => w.panic) /\ w.state = s.state
         /\ ~ w.panic => /\ w.fd = s.fd /\ ~ w.cold
                         /\ \A p \in Port : w.source[p] = "off"
  <1> DEFINE w == unwatch_fds(s)
             src == [p \in Port |-> "off"]
  <1>1. CASE gone(s)
    <2>1. w = panic(s) /\ panic(s).state = s.state
      BY <1>1 DEF unwatch_fds, panic, Unit
    <2> HIDE DEF w
    <2>2. w \in Unit /\ w.panic /\ w.state = s.state
      BY <2>1, Panic
    <2>3. QED
      BY <2>2 DEF w
  <1>2. CASE ~ gone(s)
    <2>1. w = [s EXCEPT !.source = src, !.cold = FALSE]
      BY <1>2 DEF unwatch_fds
    <2>2. src \in [Port -> {"none", "off", "on"}] /\ \A p \in Port : src[p] = "off"
      OBVIOUS
    <2> HIDE DEF w, src
    <2>3. w \in Unit
      BY <2>1, <2>2 DEF Unit
    <2>4. w.state = s.state /\ w.fd = s.fd /\ w.source = src /\ ~ w.cold
      BY <2>1 DEF Unit
    <2>5. w.panic = s.panic
      BY <2>1 DEF Unit
    <2>6. QED
      BY <2>2, <2>3, <2>4, <2>5 DEF w
  <1>3. QED
    BY <1>1, <1>2

LEMMA CloseFds ==
  ASSUME NEW s \in Unit
  PROVE  LET w == close_fds(s) IN
         /\ w \in Unit /\ (s.panic => w.panic) /\ w.state = s.state
         /\ ~ w.panic => /\ ~ w.cold
                         /\ \A p \in Port : w.fd[p] = "none" /\ w.source[p] = "none"
  <1> DEFINE w == close_fds(s)
             no == [p \in Port |-> "none"]
  <1>1. CASE gone(s)
    <2>1. w = panic(s) /\ panic(s).state = s.state
      BY <1>1 DEF close_fds, panic, Unit
    <2> HIDE DEF w
    <2>2. w \in Unit /\ w.panic /\ w.state = s.state
      BY <2>1, Panic
    <2>3. QED
      BY <2>2 DEF w
  <1>2. CASE ~ gone(s)
    <2>1. w = [s EXCEPT !.source = no, !.fd = no, !.cold = FALSE]
      BY <1>2 DEF close_fds
    <2>2. /\ no \in [Port -> {"none", "off", "on"}] /\ no \in [Port -> {"none", "open", "closed"}]
          /\ \A p \in Port : no[p] = "none"
      OBVIOUS
    <2> HIDE DEF w, no
    <2>3. w \in Unit
      BY <2>1, <2>2 DEF Unit
    <2>4. w.state = s.state /\ w.fd = no /\ w.source = no /\ ~ w.cold
      BY <2>1 DEF Unit
    <2>5. w.panic = s.panic
      BY <2>1 DEF Unit
    <2>6. QED
      BY <2>2, <2>3, <2>4, <2>5 DEF w
  <1>3. QED
    BY <1>1, <1>2

LEMMA OpenFds ==
  ASSUME NEW s \in Unit
  PROVE  open_fds(s) \in Unit /\ Held(open_fds(s))
  <1> DEFINE f == [p \in Port |-> open_port(s.fd[p])]
  <1>1. f \in [Port -> {"none", "open", "closed"}] /\ \A p \in Port : f[p] # "none"
    BY DEF Unit, open_port
  <1>2. open_fds(s) = [s EXCEPT !.fd = f]
    BY DEF open_fds
  <1> HIDE DEF f
  <1>3. open_fds(s) \in Unit /\ open_fds(s).fd = f
    BY <1>1, <1>2 DEF Unit
  <1>4. QED
    BY <1>1, <1>3 DEF Held

\* A flush closes descriptors that were open, and forgets none.
LEMMA FlushPorts ==
  ASSUME Context, NEW s \in Unit
  PROVE  /\ flush_ports(s) \in Unit /\ flush_ports(s).state = s.state
         /\ s.panic => flush_ports(s).panic
         /\ Held(s) => Held(flush_ports(s))
  <1> DEFINE f == [p \in Port |-> IF can_accept(p) THEN flush_accept(p, s.fd[p]) ELSE s.fd[p]]
             g == s.flushed \cup flush_fd(s)
  <1>1. f \in [Port -> {"none", "open", "closed"}] /\ \A p \in Port : s.fd[p] # "none" => f[p] # "none"
    BY DEF Unit, flush_accept
  <1>2. g \in SUBSET Port
    BY DEF Context, Unit, flush_fd
  <1>3. flush_ports(s) = [s EXCEPT !.fd = f, !.flushed = g]
    BY DEF flush_ports
  <1> HIDE DEF f, g
  <1>4. flush_ports(s) \in Unit
    BY <1>1, <1>2, <1>3 DEF Unit
  <1>5. flush_ports(s).fd = f /\ flush_ports(s).state = s.state
    BY <1>3 DEF Unit
  <1>6. flush_ports(s).panic = s.panic
    BY <1>3 DEF Unit
  <1>7. QED
    BY <1>1, <1>4, <1>5, <1>6 DEF Held

-----------------------------------------------------------------------------
(* Commands and states. *)

\* Functions that leave the ports alone.
SamePorts(s, o) == o.fd = s.fd /\ o.source = s.source /\ o.state = s.state
Calm(s, o) == o \in Unit /\ SamePorts(s, o) /\ o.panic = s.panic /\ o.cold = s.cold

LEMMA CalmGood ==
  ASSUME NEW s, NEW o, Calm(s, o)
  PROVE  (Good(s) => Good(o)) /\ (Held(s) => Held(o))
  BY DEF Calm, SamePorts, Good, Follows, Held

LEMMA CalmSteps ==
  ASSUME NEW s \in Unit
  PROVE  /\ Calm(s, unwatch_control(s)) /\ Calm(s, start_socket(s))
         /\ \A res \in SocketResult : Calm(s, set_result(s, res))
         /\ \A n \in 0..2 : Calm(s, [s EXCEPT !.control_command = n])
  <1>1. Calm(s, unwatch_control(s))
    <2> DEFINE o == [s EXCEPT !.control = FALSE]
    <2>1. o \in Unit /\ SamePorts(s, o)
      BY DEF Unit, SamePorts
    <2>2. o.panic = s.panic
      BY DEF Unit
    <2>3. o.cold = s.cold
      BY DEF Unit
    <2>4. QED
      BY <2>1, <2>2, <2>3 DEF Calm, unwatch_control
  <1>2. Calm(s, start_socket(s))
    <2> DEFINE n == IF s.control THEN s.stale + 1 ELSE s.stale
               o == [s EXCEPT !.control = TRUE, !.stale = n, !.stranded = FALSE]
    <2>1. n \in Nat
      BY DEF Unit
    <2>2. start_socket(s) = o
      BY DEF start_socket
    <2> HIDE DEF n
    <2>3. o \in Unit /\ SamePorts(s, o)
      BY <2>1 DEF Unit, SamePorts
    <2>4. o.panic = s.panic
      BY DEF Unit
    <2>5. o.cold = s.cold
      BY DEF Unit
    <2>6. QED
      BY <2>2, <2>3, <2>4, <2>5 DEF Calm
  <1>3. ASSUME NEW res \in SocketResult
        PROVE  Calm(s, set_result(s, res))
    <2> DEFINE o == [s EXCEPT !.result = res]
    <2>1. o \in Unit /\ SamePorts(s, o)
      BY DEF Unit, SamePorts
    <2>2. o.panic = s.panic
      BY DEF Unit
    <2>3. o.cold = s.cold
      BY DEF Unit
    <2>4. set_result(s, res) \in {s, o}
      BY DEF set_result
    <2> HIDE DEF o
    <2>5. QED
      BY <2>1, <2>2, <2>3, <2>4 DEF Calm, SamePorts
  <1>4. ASSUME NEW n \in 0..2
        PROVE  Calm(s, [s EXCEPT !.control_command = n])
    <2> DEFINE o == [s EXCEPT !.control_command = n]
    <2>1. o \in Unit /\ SamePorts(s, o)
      BY DEF Unit, SamePorts
    <2>2. o.panic = s.panic
      BY DEF Unit
    <2>3. o.cold = s.cold
      BY DEF Unit
    <2>4. QED
      BY <2>1, <2>2, <2>3 DEF Calm
  <1>5. QED
    BY <1>1, <1>2, <1>3, <1>4

\* set_state lets go of what the new state does not call for.
LEMMA SetState ==
  ASSUME NEW s \in Unit, NEW st \in SocketState
  PROVE  /\ set_state(s, st) \in Unit
         /\ st # "Listening" /\ (st = "StartPost" => Held(s)) => Good(set_state(s, st))
         /\ st = "Listening" => LET o == set_state(s, st) IN
                                o.state = st /\ o.fd = s.fd /\ o.source = s.source
  <1> DEFINE s1 == [s EXCEPT !.state = st]
             s2 == IF st \in Starting \cup Stopping THEN s1 ELSE unwatch_control(s1)
             s3 == IF st = "Listening" THEN s2 ELSE unwatch_fds(s2)
             o == IF s3.panic \/ st \in {"StartPost", "Listening", "Running", "StopPre"} THEN s3
                  ELSE close_fds(s3)
  <1>1. s1 \in Unit /\ s1.state = st /\ s1.fd = s.fd /\ s1.source = s.source
    BY DEF Unit
  <1> HIDE DEF s1
  <1>2. s2 \in Unit /\ s2.state = st /\ s2.fd = s.fd /\ s2.source = s.source
    BY <1>1, CalmSteps DEF Calm, SamePorts
  <1> HIDE DEF s2
  <1>3. set_state(s, st) = o
    BY DEF set_state, s1, s2
  <1>4. CASE st = "Listening"
    BY <1>2, <1>3, <1>4
  <1>5. CASE st # "Listening"
    <2>1. /\ s3 \in Unit /\ s3.state = st
          /\ ~ s3.panic => /\ s3.fd = s.fd /\ ~ s3.cold
                           /\ \A p \in Port : s3.source[p] = "off"
      BY <1>2, <1>5, UnwatchFds
    <2> HIDE DEF s3
    <2> DEFINE c == close_fds(s3)
    <2>2. /\ c \in Unit /\ c.state = st
          /\ ~ c.panic => \A p \in Port : c.fd[p] = "none" /\ c.source[p] = "none"
      BY <2>1, CloseFds
    <2> HIDE DEF c
    <2>3. CASE s3.panic
      <3>1. o = s3
        BY <2>3
      <3>2. QED
        BY <1>3, <1>5, <2>1, <2>3, <3>1 DEF Good, Follows
    <2>4. CASE ~ s3.panic /\ st \in {"StartPost", "Running", "StopPre"}
      <3>1. o = s3
        BY <2>4
      <3> HIDE DEF o
      <3>2. QED
        BY <1>3, <1>5, <2>1, <2>4, <3>1 DEF Good, Follows, Held, Opened, Down
    <2>5. CASE ~ s3.panic /\ st \notin {"StartPost", "Running", "StopPre"}
      <3>1. o = c
        BY <1>5, <2>5 DEF c
      <3> HIDE DEF o
      <3>2. QED
        BY <1>3, <1>5, <2>2, <2>5, <3>1 DEF Good, Follows, Opened, Down
    <2>6. QED
      BY <2>3, <2>4, <2>5
  <1>6. QED
    BY <1>4, <1>5

\* A command of kind k, if the queue has one.
LEMMA RunCommand ==
  ASSUME Context, NEW s \in Unit, NEW k \in SocketCommand, NEW none, NEW fail,
         k = "StartPost" => Held(s),
         filled(s, k) = 0 => Enters(none),
         popped(s, k) \in Unit => Enters(fail)
  PROVE  Enters(run_command(s, k, none, fail))
  <1>1. filled(s, k) \in 0..2
    BY ConfTyped DEF filled, Unit
  <1>2. CASE filled(s, k) = 0
    BY <1>2 DEF run_command
  <1>3. CASE filled(s, k) # 0
    <2> DEFINE q == popped(s, k)
               c == start_socket(q)
               r == set_state(c, k)
    <2>1. filled(s, k) - 1 \in 0..2
      BY <1>1, <1>3
    <2>2. Calm(s, q)
      BY <2>1, CalmSteps DEF popped
    <2> HIDE DEF q
    <2>3. Calm(q, c)
      BY <2>2, CalmSteps DEF Calm
    <2> HIDE DEF c
    <2>4. k \in SocketState /\ k # "Listening"
      BY DEF SocketCommand, SocketState
    <2>5. Good(r)
      BY <2>2, <2>3, <2>4, SetState, CalmGood DEF Calm
    <2> HIDE DEF r
    <2>6. Enters(fail)
      BY <2>2 DEF Calm, q
    <2>7. run_command(s, k, none, fail) = {r} \cup IF Faults THEN fail ELSE {}
      BY <1>3 DEF run_command, r, c, q
    <2>8. QED
      BY <2>5, <2>6, <2>7 DEF Enters
  <1>4. QED
    BY <1>2, <1>3

LEMMA EnterDead ==
  ASSUME NEW s \in Unit, NEW res \in SocketResult
  PROVE  Enters(enter_dead(s, res))
  <1> DEFINE s1 == set_result(s, res)
             st == IF s1.result = "Success" THEN "Dead" ELSE "Failed"
  <1>1. s1 \in Unit
    BY CalmSteps DEF Calm
  <1> HIDE DEF s1
  <1>2. st \in SocketState /\ st # "Listening" /\ st # "StartPost"
    BY DEF SocketState
  <1> HIDE DEF st
  <1>3. Good(set_state(s1, st))
    BY <1>1, <1>2, SetState
  <1>4. QED
    BY <1>3 DEF Enters, enter_dead, s1, st

LEMMA EnterSignalFinal ==
  ASSUME NEW s \in Unit, NEW res \in SocketResult
  PROVE  Enters(enter_signal_final(s, res))
  <1>1. set_result(s, res) \in Unit /\ "Success" \in SocketResult
    BY CalmSteps DEF Calm, SocketResult
  <1>2. QED
    BY <1>1, EnterDead DEF enter_signal_final

LEMMA EnterStopPost ==
  ASSUME Context, NEW s \in Unit, NEW res \in SocketResult
  PROVE  Enters(enter_stop_post(s, res))
  <1> DEFINE s1 == set_result(s, res)
  <1>1. s1 \in Unit /\ "Success" \in SocketResult /\ "FailureResources" \in SocketResult
    BY CalmSteps DEF Calm, SocketResult
  <1> HIDE DEF s1
  <1>2. "StopPost" \in SocketCommand
    BY DEF SocketCommand
  <1>3. Enters(enter_signal_final(s1, "Success"))
    BY <1>1, EnterSignalFinal
  <1>4. popped(s1, "StopPost") \in Unit
          => Enters(enter_signal_final(popped(s1, "StopPost"), "FailureResources"))
    BY <1>1, EnterSignalFinal
  <1>5. QED
    BY <1>1, <1>2, <1>3, <1>4, RunCommand DEF enter_stop_post, s1

LEMMA EnterSignal ==
  ASSUME Context, NEW s \in Unit, NEW res \in SocketResult
  PROVE  Enters(enter_signal(s, res))
  <1>1. set_result(s, res) \in Unit /\ "Success" \in SocketResult
    BY CalmSteps DEF Calm, SocketResult
  <1>2. QED
    BY <1>1, EnterStopPost DEF enter_signal

LEMMA EnterStopPre ==
  ASSUME Context, NEW s \in Unit, NEW res \in SocketResult
  PROVE  Enters(enter_stop_pre(s, res))
  <1> DEFINE s1 == unwatch_control(set_result(s, res))
  <1>1. s1 \in Unit /\ "Success" \in SocketResult /\ "FailureResources" \in SocketResult
    BY CalmSteps DEF Calm, SocketResult
  <1> HIDE DEF s1
  <1>2. "StopPre" \in SocketCommand
    BY DEF SocketCommand
  <1>3. Enters(enter_stop_post(s1, "Success"))
    BY <1>1, EnterStopPost
  <1>4. popped(s1, "StopPre") \in Unit
          => Enters(enter_stop_post(popped(s1, "StopPre"), "FailureResources"))
    BY <1>1, EnterStopPost
  <1>5. QED
    BY <1>1, <1>2, <1>3, <1>4, RunCommand DEF enter_stop_pre, s1

\* A unit that listens hears every port, or the manager has aborted.
LEMMA EnterListening ==
  ASSUME Context, NEW s \in Unit, Held(s)
  PROVE  Enters(enter_listening(s))
  <1> DEFINE f == IF conf.accept THEN s ELSE flush_ports(s)
             s1 == watch_fds(f)
             o == set_state(s1, "Listening")
  <1>1. f \in Unit /\ Held(f)
    BY FlushPorts
  <1> HIDE DEF f
  <1>2. /\ s1 \in Unit
        /\ ~ s1.panic => /\ s1.fd = f.fd
                         /\ \A p \in Port : f.fd[p] # "closed"
                                            /\ (f.fd[p] = "open" => s1.source[p] = "on")
    BY <1>1, WatchFds
  <1> HIDE DEF s1
  <1>3. ~ s1.panic => \A p \in Port : s1.fd[p] = "open" /\ s1.source[p] = "on"
    BY <1>1, <1>2 DEF Unit, Held
  <1>4. o \in Unit /\ o.state = "Listening" /\ o.fd = s1.fd /\ o.source = s1.source
    BY <1>2, SetState DEF SocketState
  <1> HIDE DEF o
  <1>5. ~ s1.panic => Good(o)
    BY <1>3, <1>4 DEF Good, Follows, Held, Opened, Down
  <1>6. s1.panic => Good(s1)
    BY <1>2 DEF Good, Follows
  <1>7. enter_listening(s) = {IF s1.panic THEN s1 ELSE o}
    BY DEF enter_listening, o, s1, f
  <1>8. QED
    BY <1>5, <1>6, <1>7 DEF Enters

LEMMA EnterStartPost ==
  ASSUME Context, NEW s \in Unit, Held(s)
  PROVE  Enters(enter_start_post(s))
  <1> DEFINE s1 == unwatch_control(s)
  <1>1. s1 \in Unit /\ Held(s1)
    BY CalmSteps, CalmGood DEF Calm
  <1> HIDE DEF s1
  <1>2. "StartPost" \in SocketCommand /\ "FailureResources" \in SocketResult
    BY DEF SocketCommand, SocketResult
  <1>3. Enters(enter_listening(s1))
    BY <1>1, EnterListening
  <1>4. popped(s1, "StartPost") \in Unit
          => Enters(enter_stop_pre(popped(s1, "StartPost"), "FailureResources"))
    BY <1>2, EnterStopPre
  <1>5. QED
    BY <1>1, <1>2, <1>3, <1>4, RunCommand DEF enter_start_post, s1

LEMMA EnterStartChown ==
  ASSUME Context, NEW s \in Unit
  PROVE  Enters(enter_start_chown(s))
  <1>1. Enters(enter_start_post(open_fds(s)))
    BY OpenFds, EnterStartPost
  <1>2. close_fds(s) \in Unit /\ "FailureResources" \in SocketResult
    BY CloseFds DEF SocketResult
  <1>3. Enters(enter_stop_pre(close_fds(s), "FailureResources"))
    BY <1>2, EnterStopPre
  <1>4. QED
    BY <1>1, <1>3 DEF Enters, enter_start_chown

LEMMA EnterStartPre ==
  ASSUME Context, NEW s \in Unit
  PROVE  Enters(enter_start_pre(s))
  <1> DEFINE s1 == unwatch_control(s)
  <1>1. s1 \in Unit
    BY CalmSteps DEF Calm
  <1> HIDE DEF s1
  <1>2. "StartPre" \in SocketCommand /\ "FailureResources" \in SocketResult
    BY DEF SocketCommand, SocketResult
  <1>3. Enters(enter_start_chown(s1))
    BY <1>1, EnterStartChown
  <1>4. popped(s1, "StartPre") \in Unit
          => Enters(enter_dead(popped(s1, "StartPre"), "FailureResources"))
    BY <1>2, EnterDead
  <1>5. QED
    BY <1>1, <1>2, <1>3, <1>4, RunCommand DEF enter_start_pre, s1

\* A client of a listening unit; one that is to be stopped flushes its ports.
LEMMA EnterRunning ==
  ASSUME Context, NEW s, Good(s), s.state = "Listening"
  PROVE  Enters(enter_running(s))
  <1>1. s \in Unit /\ "FailureResources" \in SocketResult
    BY DEF Good, SocketResult
  <1>2. "Running" \in SocketState /\ "Running" # "Listening" /\ "Running" # "StartPost"
    BY DEF SocketState
  <1>3. Good(set_state(s, "Running")) /\ Enters(enter_stop_pre(s, "FailureResources"))
    BY <1>1, <1>2, SetState, EnterStopPre
  <1>4. CASE stop_job
    <2> DEFINE f == flush_ports(s)
    <2>1. f \in Unit /\ f.state = "Listening" /\ (s.panic => f.panic) /\ (Held(s) => Held(f))
      BY <1>1, FlushPorts
    <2>2. s.panic \/ Held(s)
      BY DEF Good, Follows, Opened
    <2> HIDE DEF f
    <2>3. Good(f)
      BY <1>4, <2>1, <2>2 DEF Good, Follows, Down
    <2>4. enter_running(s) = {f}
      BY <1>4 DEF enter_running, f
    <2>5. QED
      BY <2>3, <2>4 DEF Enters
  <1>5. CASE ~ stop_job
    BY <1>3, <1>5 DEF Enters, enter_running
  <1>6. QED
    BY <1>4, <1>5

-----------------------------------------------------------------------------
(* Handlers. *)

LEMMA MoreCalmSteps ==
  ASSUME NEW s \in Unit
  PROVE  /\ \A S \in SUBSET Port : Calm(s, [s EXCEPT !.flushed = S])
         /\ s.stale > 0 => Calm(s, [s EXCEPT !.stale = s.stale - 1])
         /\ Calm(s, [s EXCEPT !.stranded = TRUE])
  <1>1. ASSUME NEW S \in SUBSET Port
        PROVE  Calm(s, [s EXCEPT !.flushed = S])
    <2> DEFINE o == [s EXCEPT !.flushed = S]
    <2>1. o \in Unit /\ SamePorts(s, o)
      BY DEF Unit, SamePorts
    <2>2. o.panic = s.panic
      BY DEF Unit
    <2>3. o.cold = s.cold
      BY DEF Unit
    <2>4. QED
      BY <2>1, <2>2, <2>3 DEF Calm
  <1>2. ASSUME s.stale > 0
        PROVE  Calm(s, [s EXCEPT !.stale = s.stale - 1])
    <2> DEFINE o == [s EXCEPT !.stale = s.stale - 1]
    <2>1. s.stale - 1 \in Nat
      BY <1>2 DEF Unit
    <2>2. o \in Unit /\ SamePorts(s, o)
      BY <2>1 DEF Unit, SamePorts
    <2>3. o.panic = s.panic
      BY DEF Unit
    <2>4. o.cold = s.cold
      BY DEF Unit
    <2>5. QED
      BY <2>2, <2>3, <2>4 DEF Calm
  <1>3. Calm(s, [s EXCEPT !.stranded = TRUE])
    <2> DEFINE o == [s EXCEPT !.stranded = TRUE]
    <2>1. o \in Unit /\ SamePorts(s, o)
      BY DEF Unit, SamePorts
    <2>2. o.panic = s.panic
      BY DEF Unit
    <2>3. o.cold = s.cold
      BY DEF Unit
    <2>4. QED
      BY <2>1, <2>2, <2>3 DEF Calm
  <1>4. QED
    BY <1>1, <1>2, <1>3

LEMMA RunNext ==
  ASSUME NEW s, Good(s), s.control_command > 0
  PROVE  Enters(run_next(s))
  <1> DEFINE s1 == [s EXCEPT !.control_command = s.control_command - 1]
  <1>1. s \in Unit /\ s.control_command - 1 \in 0..2
    BY DEF Good, Unit
  <1>2. Calm(s, s1)
    BY <1>1, CalmSteps
  <1> DEFINE s2 == [s1 EXCEPT !.stranded = TRUE]
  <1>3. run_next(s) = {start_socket(s1)} \cup IF Faults THEN {s2} ELSE {}
    BY DEF run_next
  <1> HIDE DEF s1
  <1>4. Good(s1) /\ s1 \in Unit
    BY <1>2, CalmGood DEF Calm
  <1>5. Calm(s1, s2) /\ Calm(s1, start_socket(s1))
    BY <1>4, CalmSteps, MoreCalmSteps
  <1> HIDE DEF s2
  <1>6. Good(s2) /\ Good(start_socket(s1))
    BY <1>4, <1>5, CalmGood
  <1>7. QED
    BY <1>3, <1>6 DEF Enters

\* The exit of a process.
LEMMA SigchldEvent ==
  ASSUME Context, NEW s, Good(s), ~ s.panic, NEW res \in {"Success", "FailureExitCode"}
  PROVE  Enters(sigchld_event(s, res))
  <1>1. s \in Unit /\ res \in SocketResult
    BY DEF Good, SocketResult
  <1>2. s.state = "StartPost" => Held(s)
    BY DEF Good, Follows, Opened
  <1>3. CASE s.control_command > 0 /\ res = "Success"
    BY <1>3, RunNext DEF sigchld_event
  <1>4. CASE ~ (s.control_command > 0 /\ res = "Success")
    <2>1. Enters(enter_start_chown(s)) /\ Enters(enter_signal_final(s, res))
      BY <1>1, EnterStartChown, EnterSignalFinal
    <2>2. s.state = "StartPost" => Enters(enter_listening(s))
      BY <1>1, <1>2, EnterListening
    <2>3. Enters(enter_stop_pre(s, res)) /\ Enters(enter_stop_post(s, res))
      BY <1>1, EnterStopPre, EnterStopPost
    <2>4. Enters(enter_dead(s, res)) /\ Enters({panic(s)})
      BY <1>1, EnterDead, Panic DEF Enters
    <2> DEFINE E == CASE s.state = "StartPre"  -> IF res = "Success" THEN enter_start_chown(s)
                                                  ELSE enter_signal_final(s, res)
                      [] s.state = "StartPost" -> IF res = "Success" THEN enter_listening(s)
                                                  ELSE enter_stop_pre(s, res)
                      [] s.state = "StopPre"   -> enter_stop_post(s, res)
                      [] s.state = "StopPost"  -> enter_dead(s, res)
                      [] OTHER -> {panic(s)}
    <2>5. sigchld_event(s, res) = E
      BY <1>4 DEF sigchld_event
    <2>6. CASE s.state = "StartPre"
      <3>1. E \in {enter_start_chown(s), enter_signal_final(s, res)}
        BY <2>6
      <3> HIDE DEF E
      <3>2. QED
        BY <2>1, <2>5, <3>1
    <2>7. CASE s.state = "StartPost"
      <3>1. E \in {enter_listening(s), enter_stop_pre(s, res)}
        BY <2>7
      <3> HIDE DEF E
      <3>2. QED
        BY <2>2, <2>3, <2>5, <2>7, <3>1
    <2>8. CASE s.state \notin {"StartPre", "StartPost"}
      <3>1. E \in {enter_stop_post(s, res), enter_dead(s, res), {panic(s)}}
        BY <2>8
      <3> HIDE DEF E
      <3>2. QED
        BY <2>3, <2>4, <2>5, <3>1
    <2>9. QED
      BY <2>6, <2>7, <2>8
  <1>5. QED
    BY <1>3, <1>4

-----------------------------------------------------------------------------
(* The inductive invariant. *)

KInv == KTypeOK /\ Follows(u, stop_job) /\ RecOK(rec)

\* What an outcome leaves of the unit, its record and its clients.
Settled == u' \in Unit /\ Follows(u', stop_job) /\ RecOK(rec') /\ waiting' \subseteq Port

\* What db_update stores of a unit.
LEMMA Stored ==
  ASSUME NEW o, Good(o), ~ o.panic
  PROVE  RecOK(db_insert(o))
  <1> DEFINE src == NewUnit.source
             d == db_insert(o)
  <1>1. o \in Unit /\ (o.state \in Opened => Held(o))
    BY DEF Good, Follows
  <1>2. src \in [Port -> {"none", "off", "on"}]
    BY DEF NewUnit
  <1>3. d = [o EXCEPT !.source = src, !.cold = FALSE, !.panic = FALSE]
    BY DEF db_insert
  <1> HIDE DEF src, d
  <1>4. d \in Unit
    BY <1>1, <1>2, <1>3 DEF Unit
  <1>5. d.state = o.state /\ d.fd = o.fd
    BY <1>1, <1>3 DEF Unit
  <1>6. RecOK(d)
    BY <1>1, <1>4, <1>5 DEF RecOK, Held
  <1>7. QED
    BY <1>6 DEF d

LEMMA OutcomeStep ==
  ASSUME Context, RecOK(rec), NEW S, Enters(S), NEW saved, Outcome(S, saved)
  PROVE  Settled
  <1>1. PICK s \in S : /\ u' = [s EXCEPT !.flushed = {}]
                       /\ waiting' = heard(s)
                       /\ rec' = IF saved /\ ~ s.panic THEN db_insert([s EXCEPT !.flushed = {}])
                                 ELSE rec
    BY DEF Outcome
  <1>2. Good(s) /\ s \in Unit
    BY DEF Enters, Good
  <1> DEFINE o == [s EXCEPT !.flushed = {}]
             d == db_insert(o)
  <1>3. Calm(s, o)
    BY <1>2, MoreCalmSteps
  <1> HIDE DEF o
  <1>4. Good(o) /\ o \in Unit
    BY <1>2, <1>3, CalmGood DEF Good
  <1>5. ~ o.panic => RecOK(d)
    BY <1>4, Stored
  <1>6. rec' = IF saved /\ ~ s.panic THEN d ELSE rec
    BY <1>1 DEF o
  <1> HIDE DEF d
  <1>7. o.panic = s.panic
    BY <1>3 DEF Calm
  <1>8. RecOK(rec')
    BY <1>5, <1>6, <1>7
  <1>9. waiting' \subseteq Port
    BY <1>1 DEF heard, Context
  <1>10. u' = o
    BY <1>1 DEF o
  <1>11. QED
    BY <1>4, <1>8, <1>9, <1>10 DEF Settled, Good

LEMMA InvParts ==
  ASSUME KInv
  PROVE  /\ Context /\ RecOK(rec) /\ Good(u) /\ u \in Unit
         /\ \A res \in {"Success", "FailureResources", "FailureExitCode", "FailureStartLimitHit"} :
              res \in SocketResult
  BY DEF KInv, KTypeOK, Context, Good, SocketResult

LEMMA StartStep ==
  ASSUME KInv, Start
  PROVE  KInv'
  <1>1. Enters(enter_start_pre(u)) /\ Enters(enter_dead(u, "FailureStartLimitHit"))
    BY InvParts, EnterStartPre, EnterDead
  <1>2. Settled
    BY <1>1, InvParts, OutcomeStep DEF Start
  <1>3. starts' \in 0..MaxStarts
    BY SocketAssumption DEF Start, KInv, KTypeOK
  <1>4. QED
    BY <1>2, <1>3 DEF Start, Settled, KInv, KTypeOK, RecOK

LEMMA StopStep ==
  ASSUME KInv, Stop
  PROVE  KInv'
  <1>1. Enters(enter_signal(u, "Success")) /\ Enters(enter_stop_pre(u, "Success"))
    BY InvParts, EnterSignal, EnterStopPre
  <1>2. Settled
    BY <1>1, InvParts, OutcomeStep DEF Stop
  <1>3. QED
    BY <1>2 DEF Stop, Settled, KInv, KTypeOK, RecOK

LEMMA StopJobStep ==
  ASSUME KInv, StopJob
  PROVE  KInv'
  <1>1. /\ UNCHANGED <<conf, load, u, rec, waiting, pending, service, starts, reexecs>>
        /\ stop_job' = ~ stop_job /\ (stop_job => u.state \in {"Dead", "Failed"})
    BY DEF StopJob
  <1>2. u.state # "Listening" \/ stop_job'
    BY <1>1
  <1>3. Follows(u', stop_job')
    BY <1>1, <1>2 DEF KInv, Follows
  <1>4. KTypeOK' /\ RecOK(rec')
    BY <1>1 DEF KInv, KTypeOK
  <1>5. QED
    BY <1>3, <1>4 DEF KInv

LEMMA SigchldStep ==
  ASSUME KInv, SigchldControl \/ SigchldStale
  PROVE  KInv'
  <1>1. ~ u.panic /\ UNCHANGED <<conf, load, pending, service, stop_job, starts, reexecs>>
    BY DEF SigchldControl, SigchldStale
  <1>2. \E s : /\ Calm(u, s)
               /\ \E res \in {"Success", "FailureExitCode"} : Outcome(sigchld_event(s, res), TRUE)
    <2>1. CASE SigchldControl
      <3>1. Calm(u, [u EXCEPT !.control = FALSE])
        BY InvParts, CalmSteps DEF unwatch_control
      <3>2. QED
        BY <2>1, <3>1 DEF SigchldControl
    <2>2. CASE SigchldStale
      <3>1. Calm(u, [u EXCEPT !.stale = u.stale - 1])
        BY <2>2, InvParts, MoreCalmSteps DEF SigchldStale
      <3>2. QED
        BY <2>2, <3>1 DEF SigchldStale
    <2>3. QED
      BY <2>1, <2>2
  <1>3. PICK s : Calm(u, s) /\ \E res \in {"Success", "FailureExitCode"} : Outcome(sigchld_event(s, res), TRUE)
    BY <1>2
  <1> PICK res \in {"Success", "FailureExitCode"} : Outcome(sigchld_event(s, res), TRUE)
    BY <1>3
  <1>4. Good(s) /\ ~ s.panic
    BY <1>1, <1>3, InvParts, CalmGood DEF Calm
  <1>5. Enters(sigchld_event(s, res))
    BY <1>4, InvParts, SigchldEvent
  <1>6. Settled
    BY <1>3, <1>5, InvParts, OutcomeStep
  <1>7. QED
    BY <1>1, <1>6 DEF Settled, KInv, KTypeOK, RecOK

LEMMA DispatchStep ==
  ASSUME KInv, NEW p \in Port, Dispatch(p)
  PROVE  KInv'
  <1>1. /\ ~ u.panic /\ pending' = pending \ {p}
        /\ UNCHANGED <<conf, load, stop_job, starts, reexecs>>
    BY DEF Dispatch
  <1>2. CASE UNCHANGED <<u, rec, waiting, service>>
    BY <1>1, <1>2 DEF KInv, KTypeOK
  <1>3. CASE u' = panic(u) /\ UNCHANGED <<rec, waiting, service>>
    <2>1. u' \in Unit /\ Follows(u', stop_job)
      BY <1>3, InvParts, Panic DEF Good
    <2>2. QED
      BY <1>1, <1>3, <2>1 DEF KInv, KTypeOK
  <1>4. CASE /\ u.state = "Listening"
             /\ Outcome(enter_running([u EXCEPT !.flushed = IF conf.accept THEN {p} \cap Stream
                                                            ELSE {}]), TRUE)
             /\ service' = IF u'.state = "Running" /\ service = "inactive" THEN "starting"
                           ELSE service
    <2> DEFINE S == IF conf.accept THEN {p} \cap Stream ELSE {}
               s == [u EXCEPT !.flushed = S]
    <2>1. S \in SUBSET Port
      OBVIOUS
    <2>2. Outcome(enter_running(s), TRUE)
      BY <1>4
    <2> HIDE DEF S
    <2>3. Calm(u, s)
      BY <2>1, InvParts, MoreCalmSteps
    <2> HIDE DEF s
    <2>4. Good(s) /\ s.state = "Listening"
      BY <1>4, <2>3, InvParts, CalmGood DEF Calm, SamePorts
    <2>5. Settled
      BY <2>2, <2>4, InvParts, EnterRunning, OutcomeStep
    <2>6. service' \in {"inactive", "starting", "active"}
      BY <1>4 DEF KInv, KTypeOK
    <2>7. QED
      BY <1>1, <2>5, <2>6 DEF Settled, KInv, KTypeOK, RecOK
  <1>5. u.source[p] \in {"on", "off", "none"}
    BY InvParts DEF Unit
  <1>6. QED
    BY <1>2, <1>3, <1>4, <1>5 DEF Dispatch, dispatch_io

\* entry_coldplug: a listening unit is watched again, or the manager aborts.
LEMMA Coldplug ==
  ASSUME NEW s \in Unit, ~ s.panic /\ s.state \in Opened => Held(s)
  PROVE  Good(entry_coldplug(s))
  <1> DEFINE w == watch_fds(s)
             cold == s.state # "Listening"
             o == [w EXCEPT !.cold = cold]
  <1>1. CASE s.panic
    <2>1. entry_coldplug(s) = s
      BY <1>1 DEF entry_coldplug
    <2>2. QED
      BY <1>1, <2>1 DEF Good, Follows
  <1>2. CASE ~ s.panic
    <2>1. entry_coldplug(s) = o
      BY <1>2 DEF entry_coldplug
    <2>2. /\ w \in Unit /\ w.state = s.state
          /\ ~ w.panic => /\ w.fd = s.fd
                          /\ \A p \in Port : s.fd[p] # "closed"
                                             /\ (s.fd[p] = "open" => w.source[p] = "on")
      BY WatchFds
    <2>3. cold \in BOOLEAN /\ (cold <=> s.state # "Listening")
      OBVIOUS
    <2> HIDE DEF w, cold
    <2>4. o \in Unit
      BY <2>2, <2>3 DEF Unit
    <2>5. o.state = w.state /\ o.fd = w.fd /\ o.source = w.source
      BY <2>2 DEF Unit
    <2>6. o.panic = w.panic
      BY <2>2 DEF Unit
    <2>7. o.cold = cold
      BY <2>2 DEF Unit
    <2> HIDE DEF o
    <2>8. Follows(o, stop_job)
      <3>1. CASE o.panic
        BY <3>1 DEF Follows
      <3>2. CASE ~ o.panic
        <4>1. \A p \in Port : o.fd[p] = s.fd[p] /\ s.fd[p] \in {"none", "open"}
                              /\ (s.fd[p] = "open" => o.source[p] = "on")
          BY <2>2, <2>5, <2>6, <3>2 DEF Unit
        <4>2. o.state = s.state /\ (o.cold <=> o.state # "Listening")
          BY <2>2, <2>3, <2>5, <2>7
        <4>3. o.state \in Opened => \A p \in Port : o.fd[p] = "open" /\ o.source[p] = "on"
          BY <1>2, <4>1, <4>2 DEF Held
        <4>4. CASE o.state = "Listening"
          BY <4>3, <4>4 DEF Follows, Held, Opened, Down
        <4>5. CASE o.state # "Listening"
          <5>1. o.cold
            BY <4>2, <4>5
          <5>2. o.state \in Opened => Held(o)
            BY <4>3 DEF Held
          <5>3. QED
            BY <4>5, <5>1, <5>2 DEF Follows
        <4>6. QED
          BY <4>4, <4>5
      <3>3. QED
        BY <3>1, <3>2
    <2>9. QED
      BY <2>1, <2>4, <2>8 DEF Good
  <1>3. QED
    BY <1>1, <1>2

\* The unit db_map makes of its record.
LEMMA Mapped ==
  ASSUME KInv
  PROVE  LET m == db_map(u) IN m \in Unit /\ (~ m.panic /\ m.state \in Opened => Held(m))
  <1> DEFINE f == [p \in Port |-> IF rec.fd[p] = "open" /\ u.fd[p] # "open" THEN "closed"
                                  ELSE rec.fd[p]]
             s1 == [rec EXCEPT !.control = u.control, !.stale = u.stale, !.fd = f]
  <1>1. u \in Unit /\ rec \in Unit /\ (rec.state \in Opened => Held(rec))
    BY InvParts DEF RecOK
  <1>2. f \in [Port -> {"none", "open", "closed"}] /\ \A p \in Port : f[p] = "none" => rec.fd[p] = "none"
    BY <1>1 DEF Unit
  <1>3. db_map(u) = IF rec.control_command > 0 THEN panic(s1) ELSE s1
    BY DEF db_map
  <1> HIDE DEF f
  <1>4. s1 \in Unit
    BY <1>1, <1>2 DEF Unit
  <1>5. s1.state = rec.state /\ s1.fd = f
    BY <1>1 DEF Unit
  <1> HIDE DEF s1
  <1>6. s1.state \in Opened => Held(s1)
    BY <1>1, <1>2, <1>5 DEF Held
  <1>7. CASE rec.control_command > 0
    BY <1>3, <1>4, <1>7, Panic
  <1>8. CASE ~ (rec.control_command > 0)
    BY <1>3, <1>4, <1>6, <1>8
  <1>9. QED
    BY <1>7, <1>8

LEMMA ReexecStep ==
  ASSUME KInv, Reexec
  PROVE  KInv'
  <1> DEFINE m == db_map(u)
  <1>1. m \in Unit /\ (~ m.panic /\ m.state \in Opened => Held(m))
    BY Mapped
  <1>2. /\ UNCHANGED <<conf, load, service, stop_job, starts>>
        /\ waiting' \subseteq waiting /\ pending' = {} /\ reexecs' = reexecs + 1
        /\ reexecs < MaxReexecs
        /\ \/ u' = entry_coldplug(m) /\ rec' = rec
           \/ \E s \in make_consistent(m) :
                u' = entry_coldplug(s) /\ rec' = IF s.panic THEN rec ELSE db_insert(s)
    BY DEF Reexec
  <1> HIDE DEF m
  <1>3. u' \in Unit /\ Follows(u', stop_job) /\ RecOK(rec')
    <2>1. CASE u' = entry_coldplug(m) /\ rec' = rec
      <3>1. Good(entry_coldplug(m))
        BY <1>1, Coldplug
      <3>2. QED
        BY <2>1, <3>1, InvParts DEF Good
    <2>2. ASSUME NEW s \in make_consistent(m),
                 u' = entry_coldplug(s), rec' = IF s.panic THEN rec ELSE db_insert(s)
          PROVE  u' \in Unit /\ Follows(u', stop_job) /\ RecOK(rec')
      <3>1. s \in enter_stop_pre(m, "Success") /\ "Success" \in SocketResult
        BY <2>2, InvParts DEF make_consistent
      <3>2. Good(s)
        BY <1>1, <3>1, InvParts, EnterStopPre DEF Enters
      <3>3. s \in Unit /\ (~ s.panic /\ s.state \in Opened => Held(s))
        BY <3>2 DEF Good, Follows
      <3>4. Good(entry_coldplug(s))
        BY <3>3, Coldplug
      <3>5. RecOK(rec')
        BY <2>2, <3>2, InvParts, Stored
      <3>6. QED
        BY <2>2, <3>4, <3>5 DEF Good
    <2>3. QED
      BY <1>2, <2>1, <2>2
  <1>4. reexecs' \in 0..MaxReexecs
    BY <1>2, SocketAssumption DEF KInv, KTypeOK
  <1>5. QED
    BY <1>2, <1>3, <1>4 DEF KInv, KTypeOK, RecOK

\* Loading, clients, the service and the event loop leave the unit alone.
LEMMA OutsideStep ==
  ASSUME KInv, \/ Load \/ Poll \/ Connect \/ ServiceStarted \/ ServiceEnds \/ UNCHANGED kvars
               \/ \E p \in Port : DispatchRefused(p)
  PROVE  KInv'
  <1>1. u' = u /\ rec' = rec /\ stop_job' = stop_job
    BY DEF Load, Poll, Connect, ServiceStarted, ServiceEnds, DispatchRefused, kvars
  <1>2. Follows(u', stop_job') /\ RecOK(rec')
    BY <1>1 DEF KInv
  <1>3. CASE Load
    <2>1. socket_add_extras \subseteq {"found", "none", "failed"}
      BY DEF socket_add_extras, add_default_dependencies, load_related_unit
    <2>2. config_load \subseteq {"parsed", "failed"}
      BY DEF config_load
    <2>3. load' \in {"no", "found", "none", "failed"}
      BY <1>3, <2>1, <2>2 DEF Load
    <2>4. QED
      BY <1>2, <1>3, <2>3 DEF Load, KInv, KTypeOK
  <1>4. CASE Poll
    BY <1>2, <1>4 DEF Poll, KInv, KTypeOK
  <1>5. CASE Connect
    BY <1>2, <1>5 DEF Connect, KInv, KTypeOK
  <1>6. CASE ServiceStarted \/ ServiceEnds
    BY <1>2, <1>6 DEF ServiceStarted, ServiceEnds, KInv, KTypeOK
  <1>7. CASE UNCHANGED kvars
    BY <1>2, <1>7 DEF kvars, KInv, KTypeOK
  <1>8. CASE \E p \in Port : DispatchRefused(p)
    BY <1>2, <1>8 DEF DispatchRefused, KInv, KTypeOK
  <1>9. QED
    BY <1>3, <1>4, <1>5, <1>6, <1>7, <1>8

LEMMA InvStep ==
  ASSUME KInv, [KNext]_kvars
  PROVE  KInv'
  BY StartStep, StopStep, StopJobStep, SigchldStep, DispatchStep, ReexecStep, OutsideStep
     DEF KNext, Aborted

LEMMA InvInit ==
  ASSUME KInit
  PROVE  KInv
  <1>1. NewUnit \in Unit
    BY DEF NewUnit, Unit, SocketState, SocketResult
  <1>2. NewUnit.state = "StateMax" /\ \A p \in Port : NewUnit.source[p] = "none"
    BY DEF NewUnit
  <1>3. Follows(NewUnit, FALSE) /\ RecOK(NewUnit)
    BY <1>1, <1>2 DEF Follows, RecOK, Opened, Down
  <1>4. u = NewUnit /\ rec = NewUnit /\ stop_job = FALSE
    BY DEF KInit
  <1>5. KTypeOK
    <2>1. conf \in Configs /\ load \in {"no", "found", "none", "failed"} /\ waiting \subseteq Port /\ pending \subseteq Port
      BY DEF KInit
    <2>2. service \in {"inactive", "starting", "active"} /\ stop_job \in BOOLEAN
      BY DEF KInit
    <2>3. starts \in 0..MaxStarts /\ reexecs \in 0..MaxReexecs
      BY SocketAssumption DEF KInit
    <2>4. QED
      BY <1>1, <1>4, <2>1, <2>2, <2>3 DEF KTypeOK
  <1>6. Follows(u, stop_job) /\ RecOK(rec)
    BY <1>3, <1>4
  <1>7. QED
    BY <1>5, <1>6 DEF KInv

-----------------------------------------------------------------------------
(* The theorems. *)

\* The unit, its record and what is around it keep their types through every order of
\* calls, exits, clients, failures and re-executions.
THEOREM SocketTyped == KSpec => []KTypeOK
  <1>1. KInit => KInv
    BY InvInit
  <1>2. KInv /\ [KNext]_kvars => KInv'
    BY InvStep
  <1>3. KInv => KTypeOK
    BY DEF KInv
  <1>4. QED
    BY <1>1, <1>2, <1>3, PTL DEF KSpec

\* For any ports, unit files and failures: a listening unit hears every port, and no
\* state keeps a descriptor or a source that set_state had to let go of (set_state,
\* watch_fds, unwatch_fds, close_fds, db_map).
THEOREM PortsFit == KSpec => []PortsFollowState
  <1>1. KInit => KInv
    BY InvInit
  <1>2. KInv /\ [KNext]_kvars => KInv'
    BY InvStep
  <1>3. KInv => PortsFollowState
    BY DEF KInv, Follows, PortsFollowState, Down
  <1>4. QED
    BY <1>1, <1>2, <1>3, PTL DEF KSpec
=============================================================================
