---------------------------- MODULE ProcessProofs -----------------------------
(***************************************************************************)
(* Proofs about Lifecycle, for any number of incarnations, ticks and       *)
(* attempts to accept: while process 1 recovers the manager, the           *)
(* connection it listens to is that of the manager that runs now, and no   *)
(* signal of reexec_manager is fatal to the manager.                       *)
(*                                                                         *)
(* The state alone does not say whether init still recovers the manager: a *)
(* batch that was taken before the unrecoverable mode was entered is       *)
(* handled by the old loop, and may bring init back.  The invariant speaks *)
(* of Recovering, which includes that.                                     *)
(*                                                                         *)
(* Proofs about Children, for any units and pids and any number of forks,  *)
(* crashes and messages.                                                   *)
(*                                                                         *)
(* Types and zombies: what a handler has in hand at each of its steps      *)
(* (without it the type is not kept), and ZombieNoticed, which is          *)
(* inductive: a zombie appears only with SIGCHLD, the signal is taken only *)
(* by turning the source on, and the source is turned off only after a     *)
(* look that found no zombie, or with a signal that came after the look;   *)
(* a restart turns it on, or marks the zombies it forgets.                 *)
(*                                                                         *)
(* Exits (ToldInv): a process with a committed watch is watched, in memory *)
(* and in the records, until its unit was told.                            *)
(*                                                                         *)
(* Main processes (OwnInv): a table owns processes that exist, each for    *)
(* one unit, in that unit's cgroup; said of memory and of the records, it  *)
(* outlives a crash.                                                       *)
(***************************************************************************)
EXTENDS Lifecycle, Children, FiniteSetTheorems, TLAPS

SysRec == [proc : Proc, inc : Inc, rt : BOOLEAN]
BatchRec == [f : InitState, todo : SUBSET {"in", "hup", "time", "sig"}]

Core ==
  /\ init \in InitRec /\ sys \in SysRec /\ batch \in BatchRec
  /\ backlog \in Seq(Inc) /\ buf \in [Inc -> Buffer] /\ open \subseteq Inc
  /\ sigs \subseteq {"chld", "restart", "unrecover"} /\ tick \in BOOLEAN /\ rebooted \in BOOLEAN

Recovering ==
  /\ ~ init.frozen
  /\ init.state # "RunUnRecover" \/ (batch.todo # {} /\ batch.f # "RunUnRecover")

\* The manager has not connected yet.
Early == {"boot", "starting"}

\* The loop of the unrecoverable mode is never left.
GivenUp == batch.f = "RunUnRecover" => init.state = "RunUnRecover"

\* init waits for the manager it told to execute itself anew, and for nobody else.
Blocked ==
  Recovering /\ init.wait # "no" =>
    /\ batch.todo = {}
    /\ backlog = <<>> \/ (backlog = <<sys.inc>> /\ ~ sys.rt /\ sys.proc \notin Early)

\* init listens to the manager that runs.
Served ==
  Recovering /\ init.wait = "no" =>
    init.conn = sys.inc /\ ~ sys.rt /\ backlog = <<>> /\ sys.proc \notin Early

\* A connection that is made or will be made by the manager without being told again.
Coming == IF sys.rt \/ sys.proc \in Early THEN 1 ELSE 0
Queue == Len(backlog) + Coming <= (IF init.wait = "no" THEN 1 ELSE 2)

FInv == Core /\ GivenUp /\ Blocked /\ Served /\ NotKilledInBoot /\ Queue

-----------------------------------------------------------------------------
\* Facts about the sets.
LEMMA IncOK ==
  /\ NoConn \notin Inc /\ 0 \in Inc
  /\ \A i \in Inc : (i + 1) % MaxInc \in Inc
  /\ MaxInc \in Nat /\ MaxInc >= 2
  BY LifecycleAssumption DEF NoConn, Inc

LEMMA SysFields ==
  ASSUME NEW s \in SysRec
  PROVE  /\ \A p \in Proc : [s EXCEPT !.proc = p] \in SysRec
         /\ [s EXCEPT !.proc = "zombie", !.rt = FALSE] \in SysRec
         /\ [s EXCEPT !.rt = @ \/ s.proc # "zombie"] \in SysRec
         /\ [proc |-> "boot", inc |-> (s.inc + 1) % MaxInc, rt |-> FALSE] \in SysRec
  BY IncOK DEF SysRec, Proc, Stuck

-----------------------------------------------------------------------------
\* init takes the oldest connection.
LEMMA AcceptInv == FInv /\ Accept => FInv'
  <1> SUFFICES ASSUME FInv, Accept PROVE FInv'
    OBVIOUS
  <1>0. Core /\ GivenUp /\ Blocked /\ Served /\ NotKilledInBoot /\ Queue
    BY DEF FInv
  <1>1. Head(backlog) \in Inc /\ Tail(backlog) \in Seq(Inc) /\ Len(Tail(backlog)) = Len(backlog) - 1
        /\ Len(backlog) \in Nat
    BY <1>0 DEF Core, Accept
  <1>2. /\ init' \in InitRec /\ init'.conn = Head(backlog) /\ init'.wait = "no" /\ init'.state = init.state
        /\ init'.frozen = init.frozen
    <2>1. init \in InitRec /\ init' = [init EXCEPT !.conn = Head(backlog), !.wait = "no", !.tries = 0]
      BY <1>0 DEF Core, Accept
    <2>0. 0 \in 0..AcceptCount /\ Head(backlog) \in Inc \cup {NoConn}
      BY <1>1, LifecycleAssumption
    <2>2. init' \in InitRec
      BY <2>0, <2>1 DEF InitRec
    <2>3. init'.conn = Head(backlog) /\ init'.wait = "no" /\ init'.state = init.state
      BY <2>1 DEF InitRec
    <2>4. init'.frozen = init.frozen
      BY <2>1 DEF InitRec
    <2>5. QED
      BY <2>2, <2>3, <2>4
  <1>3. Core'
    BY <1>0, <1>1, <1>2 DEF Core, Accept
  <1>4. Recovering' => Recovering
    BY <1>2 DEF Recovering, Accept
  <1>5. Served'
    BY <1>0, <1>2, <1>4 DEF Served, Blocked, Accept
  <1>6. GivenUp' /\ Blocked' /\ NotKilledInBoot'
    BY <1>0, <1>2 DEF GivenUp, Blocked, NotKilledInBoot, Accept
  <1>7. Queue'
    BY <1>0, <1>1, <1>2 DEF Queue, Coming, Accept
  <1>8. QED
    BY <1>3, <1>5, <1>6, <1>7 DEF FInv

\* Nobody has connected: init goes on waiting, gives the manager up, or stops.
LEMMA AcceptTimeoutInv == FInv /\ AcceptTimeout => FInv'
  <1> SUFFICES ASSUME FInv, AcceptTimeout PROVE FInv'
    OBVIOUS
  <1>0. Core /\ GivenUp /\ Blocked /\ Served /\ NotKilledInBoot /\ Queue
    BY DEF FInv
  <1>1. /\ init \in InitRec /\ ~ init.frozen /\ init.wait # "no" /\ backlog = <<>>
        /\ UNCHANGED <<batch, sys, backlog, buf, open, sigs, tick, rebooted>>
    BY <1>0 DEF Core, AcceptTimeout
  <1>2. Core /\ init' \in InitRec => Core'
    BY <1>1 DEF Core
  <1>3. CASE init' = [init EXCEPT !.tries = @ + 1] /\ init.tries + 1 < AcceptCount
    <2>0. init.tries + 1 \in 0..AcceptCount
      BY <1>1, <1>3, LifecycleAssumption DEF InitRec
    <2>1. init' \in InitRec
      BY <1>1, <1>3, <2>0 DEF InitRec
    <2>2. init'.conn = init.conn /\ init'.wait = init.wait /\ init'.state = init.state
      BY <1>1, <1>3 DEF InitRec
    <2>3. init'.frozen = init.frozen
      BY <1>1, <1>3 DEF InitRec
    <2>4. QED
      BY <1>0, <1>1, <1>2, <2>1, <2>2, <2>3
      DEF FInv, GivenUp, Blocked, Served, NotKilledInBoot, Queue, Coming, Recovering
  <1>4. CASE init' = [init EXCEPT !.wait = "no", !.tries = 0, !.state = "RunUnRecover"]
    <2>0. 0 \in 0..AcceptCount
      BY LifecycleAssumption
    <2>1. init' \in InitRec
      BY <1>1, <1>4, <2>0 DEF InitRec, InitState
    <2>2. init'.wait = "no" /\ init'.state = "RunUnRecover"
      BY <1>1, <1>4 DEF InitRec
    <2>3. ~ Recovering'
      BY <1>0, <1>1, <2>2 DEF Blocked, Recovering
    <2>4. Queue'
      BY <1>1, <2>2 DEF Queue, Coming
    <2>5. QED
      BY <1>0, <1>1, <1>2, <2>1, <2>2, <2>3, <2>4 DEF FInv, GivenUp, Blocked, Served, NotKilledInBoot
  <1>5. CASE init' = [init EXCEPT !.frozen = TRUE]
    <2>1. init' \in InitRec
      BY <1>1, <1>5 DEF InitRec
    <2>2. init'.wait = init.wait /\ init'.state = init.state
      BY <1>1, <1>5 DEF InitRec
    <2>3. init'.frozen
      BY <1>1, <1>5 DEF InitRec
    <2>4. QED
      BY <1>0, <1>1, <1>2, <2>1, <2>2, <2>3
      DEF FInv, GivenUp, Blocked, Served, NotKilledInBoot, Queue, Coming, Recovering
  <1>6. QED
    BY <1>3, <1>4, <1>5 DEF AcceptTimeout, connect_failed

\* The manager is told to execute itself anew, or is gone.
LEMMA ReexecInv == FInv /\ Reexec => FInv'
  <1> SUFFICES ASSUME FInv, Reexec PROVE FInv'
    OBVIOUS
  <1> DEFINE i == [init EXCEPT !.need_reexec = FALSE, !.mcount = 0, !.acount = 0, !.conn = NoConn]
  <1>0. Core /\ GivenUp /\ Blocked /\ Served /\ NotKilledInBoot /\ Queue
    BY DEF FInv
  <1>1. /\ init \in InitRec /\ ~ init.frozen /\ init.wait = "no" /\ batch.todo = {} /\ init.state = "Reexec"
        /\ UNCHANGED <<batch, backlog, buf, open, sigs, tick, rebooted>> /\ sys \in SysRec
    BY <1>0 DEF Core, Reexec, Working
  <1>2. Recovering /\ ~ sys.rt /\ backlog = <<>> /\ sys.proc \notin Early
    BY <1>0, <1>1 DEF Recovering, Served
  <1>3. i \in InitRec
    <2>1. 0 \in 0..TimeOut
      BY LifecycleAssumption
    <2>2. QED
      BY <1>1, <2>1 DEF InitRec
  <1>4. i.state = "Reexec" /\ i.wait = "no"
    BY <1>1 DEF InitRec
  <1>5. ~ i.frozen
    BY <1>1 DEF InitRec
  <1>6. /\ sys.proc = "gone" => init' = [i EXCEPT !.state = "RunUnRecover"] /\ sys' = sys
        /\ sys.proc # "gone" => /\ init' = [i EXCEPT !.wait = "reexec"]
                                 /\ sys' = [sys EXCEPT !.rt = @ \/ sys.proc # "zombie"]
    BY DEF Reexec, reexec_manager
  <1> HIDE DEF i
  <1>7. CASE sys.proc = "gone"
    <2>1. init' \in InitRec
      BY <1>3, <1>6, <1>7 DEF InitRec, InitState
    <2>2. init'.state = "RunUnRecover" /\ init'.wait = "no"
      BY <1>3, <1>4, <1>6, <1>7 DEF InitRec
    <2>3. ~ Recovering'
      BY <1>1, <2>2 DEF Recovering
    <2>4. Core'
      BY <1>0, <1>1, <1>6, <1>7, <2>1 DEF Core
    <2>5. QED
      BY <1>0, <1>1, <1>2, <1>6, <1>7, <2>2, <2>3, <2>4
      DEF FInv, GivenUp, Blocked, Served, NotKilledInBoot, Queue, Coming
  <1>8. CASE sys.proc # "gone"
    <2>1. init' \in InitRec
      BY <1>3, <1>6, <1>8 DEF InitRec
    <2>2. init'.state = "Reexec" /\ init'.wait = "reexec"
      BY <1>3, <1>4, <1>6, <1>8 DEF InitRec
    <2>3. sys' \in SysRec
      BY <1>1, <1>6, <1>8, SysFields
    <2>4. sys'.proc = sys.proc /\ sys'.inc = sys.inc
      BY <1>1, <1>6, <1>8 DEF SysRec
    <2>5. Core'
      BY <1>0, <1>1, <2>1, <2>3 DEF Core
    <2>6. Blocked' /\ Served' /\ GivenUp'
      BY <1>0, <1>1, <1>2, <2>2 DEF Blocked, Served, GivenUp
    <2>7. NotKilledInBoot'
      BY <1>2, <2>4 DEF NotKilledInBoot, Early
    <2>8. Queue'
      BY <1>1, <1>2, <2>2 DEF Queue, Coming
    <2>9. QED
      BY <2>5, <2>6, <2>7, <2>8 DEF FInv
  <1>9. QED
    BY <1>7, <1>8

\* epoll_wait: a new batch belongs to the loop of the state.
LEMMA WaitInv == FInv /\ Wait => FInv'
  <1> SUFFICES ASSUME FInv, Wait PROVE FInv'
    OBVIOUS
  <1>0. Core /\ GivenUp /\ Blocked /\ Served /\ NotKilledInBoot /\ Queue
    BY DEF FInv
  <1>1. /\ ~ init.frozen /\ init.wait = "no" /\ batch.todo = {} /\ batch' = [f |-> init.state, todo |-> ready]
        /\ UNCHANGED <<init, sys, backlog, buf, open, sigs, tick, rebooted>>
    BY DEF Wait, Working
  <1>2. ready \in SUBSET {"in", "hup", "time", "sig"}
    BY DEF ready
  <1>3. Core'
    BY <1>0, <1>1, <1>2 DEF Core, BatchRec, InitRec
  <1>4. batch'.f = init.state
    BY <1>1
  <1>5. Recovering' => Recovering
    BY <1>1, <1>4 DEF Recovering
  <1>6. QED
    BY <1>0, <1>1, <1>3, <1>4, <1>5 DEF FInv, GivenUp, Blocked, Served, NotKilledInBoot, Queue, Coming

\* The connection is gone, and so is the recovery.
LEMMA HupInv == FInv /\ Hup => FInv'
  <1> SUFFICES ASSUME FInv, Hup PROVE FInv'
    OBVIOUS
  <1>0. Core /\ GivenUp /\ Blocked /\ Served /\ NotKilledInBoot /\ Queue
    BY DEF FInv
  <1>1. /\ ~ init.frozen /\ init.wait = "no" /\ init \in InitRec /\ batch \in BatchRec
        /\ UNCHANGED <<sys, backlog, buf, open, sigs, tick, rebooted>>
    BY <1>0 DEF Core, Hup, Take, Working
  <1>2. CASE init.conn = NoConn
    <2>1. init' = [init EXCEPT !.frozen = TRUE] /\ batch' = [batch EXCEPT !.todo = @ \ {"hup"}]
      BY <1>2 DEF Hup, Freeze
    <2>2. init' \in InitRec
      BY <1>1, <2>1 DEF InitRec
    <2>3. init'.wait = init.wait /\ init'.state = init.state
      BY <1>1, <2>1 DEF InitRec
    <2>4. init'.frozen
      BY <1>1, <2>1 DEF InitRec
    <2>5. batch' \in BatchRec /\ batch'.f = batch.f
      BY <1>1, <2>1 DEF BatchRec
    <2>6. Core'
      BY <1>0, <1>1, <2>2, <2>5 DEF Core
    <2>7. QED
      BY <1>0, <1>1, <2>3, <2>4, <2>5, <2>6
      DEF FInv, GivenUp, Blocked, Served, NotKilledInBoot, Queue, Coming, Recovering
  <1>3. CASE init.conn # NoConn
    <2>1. init' = [init EXCEPT !.conn = NoConn, !.state = "RunUnRecover"] /\ batch' = [batch EXCEPT !.todo = {}]
      BY <1>3 DEF Hup
    <2>2. init' \in InitRec
      BY <1>1, <2>1 DEF InitRec, InitState
    <2>3. init'.wait = init.wait /\ init'.state = "RunUnRecover"
      BY <1>1, <2>1 DEF InitRec
    <2>4. batch' \in BatchRec /\ batch'.todo = {}
      BY <1>1, <2>1 DEF BatchRec
    <2>5. Core'
      BY <1>0, <1>1, <2>2, <2>4 DEF Core
    <2>6. QED
      BY <1>0, <1>1, <2>3, <2>4, <2>5
      DEF FInv, GivenUp, Blocked, Served, NotKilledInBoot, Queue, Coming, Recovering
  <1>4. QED
    BY <1>2, <1>3

-----------------------------------------------------------------------------
\* An event of a batch that leaves the connection, the queue and the manager alone: the loop
\* of the unrecoverable mode keeps the state, the others belong to a recovery.
LEMMA TakeInv ==
  ASSUME FInv, Working, batch.todo # {}, Core', batch'.f = batch.f,
         batch.f = "RunUnRecover" => init'.state = init.state,
         init'.wait = init.wait, init'.conn = init.conn, backlog' = backlog,
         sys'.inc = sys.inc, sys'.rt = sys.rt, sys'.proc = sys.proc \/ sys'.proc \notin Early
  PROVE  FInv'
  <1>0. GivenUp /\ Blocked /\ Served /\ NotKilledInBoot /\ Queue /\ Core
    BY DEF FInv
  <1>1. ~ init.frozen /\ init.wait = "no"
    BY DEF Working
  <1>2. GivenUp'
    BY <1>0 DEF GivenUp
  <1>3. Recovering' => Recovering
    BY <1>0, <1>1, <1>2 DEF GivenUp, Recovering
  <1>4. Blocked' /\ Served'
    BY <1>0, <1>1, <1>3 DEF Blocked, Served
  <1>5. NotKilledInBoot'
    BY <1>0 DEF NotKilledInBoot, Early
  <1>6. Queue'
    <2>1. Coming' <= Coming /\ Coming \in Nat /\ Coming' \in Nat /\ Len(backlog) \in Nat
      BY <1>0 DEF Coming, Core
    <2>2. QED
      BY <1>0, <2>1 DEF Queue
  <1>7. QED
    BY <1>2, <1>4, <1>5, <1>6 DEF FInv

\* What a message or a tick leaves alone.
LEMMA OnMessage ==
  ASSUME NEW i \in InitRec, NEW f \in InitState, NEW b
  PROVE  /\ on_message(i, f, b) \in InitRec
         /\ on_message(i, f, b).wait = i.wait /\ on_message(i, f, b).conn = i.conn
         /\ f = "RunUnRecover" => on_message(i, f, b).state = i.state
  <1>0. 0 \in 0..TimeOut
    BY LifecycleAssumption
  <1> DEFINE P(r) == /\ r \in InitRec /\ r.wait = i.wait /\ r.conn = i.conn
                     /\ f = "RunUnRecover" => r.state = i.state
  <1>1. P(i)
    OBVIOUS
  <1>2. CASE f = "Reexec" /\ b = "UNMANAGEABLE"
    <2>1. on_message(i, f, b) = [i EXCEPT !.need_reexec = TRUE]
      BY <1>2 DEF on_message
    <2>2. P([i EXCEPT !.need_reexec = TRUE])
      BY <1>2 DEF InitRec
    <2>3. QED
      BY <2>1, <2>2
  <1>3. CASE f = "Reexec" /\ b = "MANAGEABLE" /\ ~ i.need_reexec
    <2>1. on_message(i, f, b) = [i EXCEPT !.state = "RunRecover", !.mcount = 0, !.acount = 0]
      BY <1>3 DEF on_message
    <2>2. P([i EXCEPT !.state = "RunRecover", !.mcount = 0, !.acount = 0])
      BY <1>0, <1>3 DEF InitRec, InitState
    <2>3. QED
      BY <2>1, <2>2
  <1>4. CASE f = "RunRecover" /\ b = "UNMANAGEABLE"
    <2>1. on_message(i, f, b) = [i EXCEPT !.mcount = 0, !.state = "Reexec", !.need_reexec = TRUE]
      BY <1>4 DEF on_message
    <2>2. P([i EXCEPT !.mcount = 0, !.state = "Reexec", !.need_reexec = TRUE])
      BY <1>0, <1>4 DEF InitRec, InitState
    <2>3. QED
      BY <2>1, <2>2
  <1>5. CASE f = "RunRecover" /\ b = "ALIVE"
    <2>1. on_message(i, f, b) = [i EXCEPT !.acount = 0]
      BY <1>5 DEF on_message
    <2>2. P([i EXCEPT !.acount = 0])
      BY <1>0 DEF InitRec
    <2>3. QED
      BY <2>1, <2>2
  <1>6. CASE f = "RunUnRecover" /\ b = "ALIVE"
    <2>1. on_message(i, f, b) = [i EXCEPT !.mcount = 0, !.acount = 0]
      BY <1>6 DEF on_message
    <2>2. P([i EXCEPT !.mcount = 0, !.acount = 0])
      BY <1>0 DEF InitRec
    <2>3. QED
      BY <2>1, <2>2
  <1>7. CASE /\ ~ (f = "Reexec" /\ b = "UNMANAGEABLE")
             /\ ~ (f = "Reexec" /\ b = "MANAGEABLE" /\ ~ i.need_reexec)
             /\ ~ (f = "RunRecover" /\ b = "UNMANAGEABLE")
             /\ ~ (f = "RunRecover" /\ b = "ALIVE")
             /\ ~ (f = "RunUnRecover" /\ b = "ALIVE")
    <2>1. on_message(i, f, b) = i
      BY <1>7 DEF on_message
    <2>2. QED
      BY <1>1, <2>1
  <1>8. QED
    BY <1>2, <1>3, <1>4, <1>5, <1>6, <1>7

LEMMA OnTime ==
  ASSUME NEW i \in InitRec, NEW f \in InitState
  PROVE  /\ on_time(i, f) \in InitRec
         /\ on_time(i, f).wait = i.wait /\ on_time(i, f).conn = i.conn
         /\ f = "RunUnRecover" => on_time(i, f).state = i.state
  <1>0. /\ 0 \in 0..TimeOut /\ TimeOut \in 0..TimeOut
        /\ i.mcount + 1 < TimeOut => i.mcount + 1 \in 0..TimeOut
        /\ i.acount + 1 < TimeOut => i.acount + 1 \in 0..TimeOut
        /\ i.mcount + 1 < TimeOut <=> ~ (i.mcount + 1 >= TimeOut)
        /\ i.acount + 1 < TimeOut <=> ~ (i.acount + 1 >= TimeOut)
    BY LifecycleAssumption DEF InitRec
  <1> DEFINE P(r) == /\ r \in InitRec /\ r.wait = i.wait /\ r.conn = i.conn
                     /\ f = "RunUnRecover" => r.state = i.state
  <1>1. ASSUME NEW t \in 0..TimeOut
        PROVE  /\ P([i EXCEPT !.mcount = t])
               /\ P([i EXCEPT !.acount = t])
    BY <1>1 DEF InitRec
  <1>2. CASE f = "Reexec"
    <2>1. P([i EXCEPT !.mcount = TimeOut, !.need_reexec = TRUE])
      BY <1>0, <1>2 DEF InitRec
    <2>2. \/ on_time(i, f) = [i EXCEPT !.mcount = TimeOut, !.need_reexec = TRUE]
          \/ i.mcount + 1 \in 0..TimeOut /\ on_time(i, f) = [i EXCEPT !.mcount = i.mcount + 1]
      BY <1>0, <1>2 DEF on_time
    <2>3. QED
      BY <1>1, <2>1, <2>2
  <1>3. CASE f = "RunRecover"
    <2>1. P([i EXCEPT !.acount = TimeOut, !.state = "Reexec", !.need_reexec = TRUE])
      BY <1>0, <1>3 DEF InitRec, InitState
    <2>2. \/ on_time(i, f) = [i EXCEPT !.acount = TimeOut, !.state = "Reexec", !.need_reexec = TRUE]
          \/ i.acount + 1 \in 0..TimeOut /\ on_time(i, f) = [i EXCEPT !.acount = i.acount + 1]
      BY <1>0, <1>3 DEF on_time
    <2>3. QED
      BY <1>1, <2>1, <2>2
  <1>4. CASE f = "RunUnRecover"
    <2>1. PICK t \in 0..TimeOut : on_time(i, f) = [i EXCEPT !.acount = t]
      BY <1>0, <1>4 DEF on_time
    <2>2. P([i EXCEPT !.acount = t])
      BY <1>1
    <2>3. QED
      BY <2>1, <2>2
  <1>5. QED
    BY <1>2, <1>3, <1>4 DEF InitState

\* An event leaves the batch.
LEMMA Handled ==
  ASSUME Core, NEW e, batch' = [batch EXCEPT !.todo = @ \ {e}]
  PROVE  batch' \in BatchRec /\ batch'.f = batch.f /\ batch.f \in InitState
  BY DEF Core, BatchRec

LEMMA RecvInv == FInv /\ Recv => FInv'
  <1> SUFFICES ASSUME FInv, Recv PROVE FInv'
    OBVIOUS
  <1>0. Core
    BY DEF FInv
  <1>1. /\ Working /\ batch.todo # {} /\ batch' = [batch EXCEPT !.todo = @ \ {"in"}] /\ init \in InitRec
        /\ UNCHANGED <<sys, backlog, open, sigs, tick, rebooted>>
    BY <1>0 DEF Core, Recv, Take
  <1>2. batch' \in BatchRec /\ batch'.f = batch.f /\ batch.f \in InitState
    BY <1>0, <1>1, Handled
  <1>3. CASE init.conn = NoConn \/ buf[init.conn] = "empty"
    <2>1. (init' = init \/ init' = [init EXCEPT !.frozen = TRUE]) /\ buf' = buf
      BY <1>3 DEF Recv, Freeze
    <2>2. init' \in InitRec /\ init'.wait = init.wait /\ init'.conn = init.conn /\ init'.state = init.state
      <3>1. CASE init' = init
        BY <1>1, <3>1
      <3>2. CASE init' = [init EXCEPT !.frozen = TRUE]
        BY <1>1, <3>2 DEF InitRec
      <3>3. QED
        BY <2>1, <3>1, <3>2
    <2>3. Core'
      BY <1>0, <1>1, <1>2, <2>1, <2>2 DEF Core
    <2>4. QED
      BY <1>1, <1>2, <2>2, <2>3, TakeInv
  <1>4. CASE ~ (init.conn = NoConn \/ buf[init.conn] = "empty")
    <2>1. /\ init' = on_message(init, batch.f, buf[init.conn])
          /\ buf' = [buf EXCEPT ![init.conn] = "empty"]
      BY <1>4 DEF Recv
    <2>2. /\ init' \in InitRec /\ init'.wait = init.wait /\ init'.conn = init.conn
          /\ batch.f = "RunUnRecover" => init'.state = init.state
      BY <1>1, <1>2, <2>1, OnMessage
    <2>3. Core'
      BY <1>0, <1>1, <1>2, <2>1, <2>2 DEF Core, Buffer
    <2>4. QED
      BY <1>1, <1>2, <2>2, <2>3, TakeInv
  <1>5. QED
    BY <1>3, <1>4

LEMMA TimeInv == FInv /\ Time => FInv'
  <1> SUFFICES ASSUME FInv, Time PROVE FInv'
    OBVIOUS
  <1>0. Core
    BY DEF FInv
  <1>1. /\ Working /\ batch.todo # {} /\ batch' = [batch EXCEPT !.todo = @ \ {"time"}] /\ init \in InitRec
        /\ tick' = FALSE /\ init' = on_time(init, batch.f)
        /\ UNCHANGED <<sys, backlog, buf, open, sigs, rebooted>>
    BY <1>0 DEF Core, Time, Take
  <1>2. batch' \in BatchRec /\ batch'.f = batch.f /\ batch.f \in InitState
    BY <1>0, <1>1, Handled
  <1>3. /\ init' \in InitRec /\ init'.wait = init.wait /\ init'.conn = init.conn
        /\ batch.f = "RunUnRecover" => init'.state = init.state
    BY <1>1, <1>2, OnTime
  <1>4. Core'
    BY <1>0, <1>1, <1>2, <1>3 DEF Core
  <1>5. QED
    BY <1>1, <1>2, <1>3, <1>4, TakeInv

LEMMA SignalInv ==
  ASSUME FInv, NEW s \in {"chld", "restart", "unrecover"}, Signal(s)
  PROVE  FInv'
  <1>0. Core /\ GivenUp /\ Blocked /\ Served /\ NotKilledInBoot /\ Queue
    BY DEF FInv
  <1>1. /\ Working /\ batch.todo # {} /\ batch' = [batch EXCEPT !.todo = @ \ {"sig"}] /\ init \in InitRec
        /\ sys \in SysRec /\ sigs' \subseteq sigs /\ UNCHANGED <<backlog, tick, rebooted>>
    BY <1>0 DEF Core, Signal, Take
  <1>2. batch' \in BatchRec /\ batch'.f = batch.f /\ batch.f \in InitState
    BY <1>0, <1>1, Handled
  <1>3. CASE s = "chld"
    <2>1. (sys' = sys \/ sys' = [sys EXCEPT !.proc = "gone"]) /\ UNCHANGED <<init, open, buf>>
      BY <1>3 DEF Signal, recycle_zombie
    <2>2. /\ sys' \in SysRec /\ sys'.inc = sys.inc
          /\ sys'.proc = sys.proc \/ sys'.proc \notin Early
      <3>1. CASE sys' = sys
        BY <1>1, <3>1
      <3>2. CASE sys' = [sys EXCEPT !.proc = "gone"]
        BY <1>1, <3>2 DEF SysRec, Proc, Early
      <3>3. QED
        BY <2>1, <3>1, <3>2
    <2>3. sys'.rt = sys.rt
      BY <1>1, <2>1 DEF SysRec
    <2>4. Core'
      BY <1>0, <1>1, <1>2, <2>1, <2>2 DEF Core
    <2>5. QED
      BY <1>1, <1>2, <2>1, <2>2, <2>3, <2>4, TakeInv
  <1>4. CASE s = "restart" /\ batch.f # "RunUnRecover"
    <2>1. init' = [init EXCEPT !.state = "Reexec", !.need_reexec = TRUE] /\ UNCHANGED <<sys, open, buf>>
      BY <1>4 DEF Signal
    <2>2. init' \in InitRec /\ init'.wait = init.wait /\ init'.conn = init.conn
      BY <1>1, <2>1 DEF InitRec, InitState
    <2>3. Core'
      BY <1>0, <1>1, <1>2, <2>1, <2>2 DEF Core
    <2>4. QED
      BY <1>1, <1>2, <1>4, <2>1, <2>2, <2>3, TakeInv
  <1>5. CASE s = "restart" /\ batch.f = "RunUnRecover"
    <2> DEFINE next == (sys.inc + 1) % MaxInc
    <2>1. create_sysmaster
      BY <1>5 DEF Signal
    <2>2. next \in Inc
      BY <1>1, IncOK DEF SysRec
    <2>3. /\ sys' = [proc |-> "boot", inc |-> next, rt |-> FALSE] /\ open' = {}
          /\ buf' = [buf EXCEPT ![next] = "empty"]
          /\ init' = [init EXCEPT !.conn = NoConn, !.wait = "create"]
      BY <2>1 DEF create_sysmaster
    <2> HIDE DEF next
    <2>4. sys' \in SysRec /\ sys'.proc = "boot"
      BY <2>2, <2>3 DEF SysRec, Proc
    <2>5. ~ sys'.rt
      BY <2>3
    <2>6. init' \in InitRec /\ init'.state = init.state /\ init'.wait = "create"
      BY <1>1, <2>3 DEF InitRec
    <2>7. Core'
      BY <1>0, <1>1, <1>2, <2>2, <2>3, <2>4, <2>6 DEF Core, Buffer
    <2>8. GivenUp' /\ ~ Recovering'
      BY <1>0, <1>2, <1>5, <2>6 DEF GivenUp, Recovering
    <2>9. Queue'
      BY <1>0, <1>1, <2>6 DEF Queue, Coming, Core, Working
    <2>10. QED
      BY <2>5, <2>7, <2>8, <2>9 DEF FInv, Blocked, Served, NotKilledInBoot
  <1>6. CASE s = "unrecover"
    <2>1. /\ init' = IF batch.f # "RunUnRecover" THEN [init EXCEPT !.state = "RunUnRecover"] ELSE init
          /\ UNCHANGED <<sys, open, buf>>
      BY <1>6 DEF Signal
    <2>2. /\ init' \in InitRec /\ init'.wait = init.wait /\ init'.conn = init.conn
          /\ batch.f = "RunUnRecover" => init'.state = init.state
      <3>1. CASE batch.f = "RunUnRecover"
        BY <1>1, <2>1, <3>1
      <3>2. CASE batch.f # "RunUnRecover"
        BY <1>1, <2>1, <3>2 DEF InitRec, InitState
      <3>3. QED
        BY <3>1, <3>2
    <2>3. Core'
      BY <1>0, <1>1, <1>2, <2>1, <2>2 DEF Core
    <2>4. QED
      BY <1>1, <1>2, <2>1, <2>2, <2>3, TakeInv
  <1>7. QED
    BY <1>3, <1>4, <1>5, <1>6

-----------------------------------------------------------------------------
\* A step of the manager in which it neither connects nor becomes another one.
LEMMA SameManager ==
  ASSUME FInv, Core', UNCHANGED <<init, batch, backlog>>, sys'.inc = sys.inc,
         sys'.rt => sys.rt /\ sys'.proc = sys.proc, sys'.proc \in Early => sys.proc \in Early
  PROVE  FInv'
  <1>0. GivenUp /\ Blocked /\ Served /\ NotKilledInBoot /\ Queue /\ Core
    BY DEF FInv
  <1>1. Recovering' <=> Recovering
    BY DEF Recovering
  <1>2. GivenUp' /\ Blocked' /\ Served'
    BY <1>0, <1>1 DEF GivenUp, Blocked, Served
  <1>3. NotKilledInBoot'
    BY <1>0 DEF NotKilledInBoot
  <1>4. Queue'
    <2>1. Coming' <= Coming /\ Coming \in Nat /\ Coming' \in Nat /\ Len(backlog) \in Nat
      BY <1>0 DEF Coming, Core
    <2>2. QED
      BY <1>0, <2>1 DEF Queue
  <1>5. QED
    BY <1>2, <1>3, <1>4 DEF FInv

\* The same when only its progress changes, or nothing of it.
LEMMA ProcInv ==
  ASSUME FInv, NEW p \in Proc, ~ sys.rt, sys' = [sys EXCEPT !.proc = p],
         p \in Early => sys.proc \in Early, buf' \in [Inc -> Buffer],
         UNCHANGED <<init, batch, backlog, open, sigs, tick, rebooted>>
  PROVE  FInv'
  <1>0. Core
    BY DEF FInv
  <1>1. sys \in SysRec
    BY <1>0 DEF Core
  <1>2. sys' \in SysRec
    BY <1>1, SysFields
  <1>3. sys'.proc = p /\ sys'.inc = sys.inc
    BY <1>1 DEF SysRec
  <1>4. ~ sys'.rt
    BY <1>1 DEF SysRec
  <1>5. Core'
    BY <1>0, <1>2 DEF Core
  <1>6. QED
    BY <1>3, <1>4, <1>5, SameManager

LEMMA DiesInv ==
  ASSUME FInv, dies, rebooted' \in BOOLEAN, UNCHANGED <<init, batch, backlog, buf, tick>>
  PROVE  FInv'
  <1>0. Core
    BY DEF FInv
  <1>1. sys \in SysRec /\ sys' = [sys EXCEPT !.proc = "zombie", !.rt = FALSE] /\ open' = {}
        /\ sigs' = sigs \cup {"chld"}
    BY <1>0 DEF Core, dies
  <1>2. sys' \in SysRec
    BY <1>1, SysFields
  <1>3. sys'.proc = "zombie" /\ sys'.inc = sys.inc
    BY <1>1 DEF SysRec
  <1>4. ~ sys'.rt
    BY <1>1 DEF SysRec
  <1>5. Core'
    BY <1>0, <1>1, <1>2 DEF Core
  <1>6. QED
    BY <1>3, <1>4, <1>5, SameManager DEF Early

\* Sending a message keeps the buffers' type.
LEMMA SendOK ==
  ASSUME Core, NEW msg \in Buffer, send(msg)
  PROVE  buf' \in [Inc -> Buffer]
  <1>1. buf \in [Inc -> Buffer] /\ sys.inc \in Inc
    BY DEF Core, SysRec
  <1>2. QED
    BY <1>1 DEF send, Buffer

\* The manager executes itself anew.
LEMMA DeliverInv == FInv /\ Deliver => FInv'
  <1> SUFFICES ASSUME FInv, Deliver PROVE FInv'
    OBVIOUS
  <1> DEFINE next == (sys.inc + 1) % MaxInc
  <1>0. Core /\ GivenUp /\ Blocked /\ Served /\ NotKilledInBoot /\ Queue
    BY DEF FInv
  <1>1. sys.rt /\ UNCHANGED <<init, batch, backlog, tick, rebooted>> /\ sys \in SysRec
    BY <1>0 DEF Deliver, Core
  <1>2. sys.proc # "boot"
    BY <1>0, <1>1 DEF NotKilledInBoot
  <1>3. next \in Inc
    BY <1>1, IncOK DEF SysRec
  <1>4. /\ sys' = [proc |-> "boot", inc |-> next, rt |-> FALSE] /\ open' = open \ {next}
        /\ buf' = [buf EXCEPT ![next] = "empty"] /\ sigs' = sigs
    BY <1>2 DEF Deliver
  <1> HIDE DEF next
  <1>5. sys' \in SysRec /\ sys'.proc = "boot"
    BY <1>3, <1>4 DEF SysRec, Proc
  <1>6. ~ sys'.rt
    BY <1>4
  <1>7. Core'
    BY <1>0, <1>1, <1>3, <1>4, <1>5 DEF Core, Buffer
  <1>8. Recovering' <=> Recovering
    BY <1>1 DEF Recovering
  <1>9. GivenUp' /\ Blocked' /\ Served'
    BY <1>0, <1>1, <1>8 DEF GivenUp, Blocked, Served
  <1>10. NotKilledInBoot' /\ Queue'
    BY <1>0, <1>1, <1>6 DEF NotKilledInBoot, Queue, Coming
  <1>11. QED
    BY <1>7, <1>9, <1>10 DEF FInv

\* The manager connects.
LEMMA ConnectInv == FInv /\ Connect => FInv'
  <1> SUFFICES ASSUME FInv, Connect PROVE FInv'
    OBVIOUS
  <1>0. Core /\ GivenUp /\ Blocked /\ Served /\ NotKilledInBoot /\ Queue
    BY DEF FInv
  <1>1. sys.proc = "starting" /\ ~ sys.rt /\ UNCHANGED <<init, batch, tick, rebooted>> /\ sys \in SysRec
    BY <1>0 DEF Connect, Core
  <1>2. CASE init.frozen
    <2>1. dies /\ UNCHANGED <<backlog, buf>> /\ rebooted' \in BOOLEAN
      BY <1>0, <1>1, <1>2 DEF Connect, Core
    <2>2. QED
      BY <1>1, <2>1, DiesInv
  <1>3. CASE ~ init.frozen
    <2>1. /\ sys' = [sys EXCEPT !.proc = "running"] /\ backlog' = Append(backlog, sys.inc)
          /\ open' = open \cup {sys.inc} /\ buf' = [buf EXCEPT ![sys.inc] = "MANAGEABLE"] /\ sigs' = sigs
      BY <1>3 DEF Connect
    <2>2. sys' \in SysRec
      BY <1>1, <2>1, SysFields DEF Proc
    <2>3. sys'.proc = "running" /\ sys'.inc = sys.inc /\ sys.inc \in Inc
      BY <1>1, <2>1 DEF SysRec
    <2>4. ~ sys'.rt
      BY <1>1, <2>1 DEF SysRec
    <2>5. backlog' \in Seq(Inc) /\ Len(backlog') = Len(backlog) + 1 /\ Len(backlog) \in Nat
      BY <1>0, <2>1, <2>3 DEF Core
    <2>6. Core'
      BY <1>0, <1>1, <2>1, <2>2, <2>3, <2>5 DEF Core, Buffer, Message
    <2>7. Recovering' <=> Recovering
      BY <1>1 DEF Recovering
    <2>8. backlog = <<>> => backlog' = <<sys.inc>>
      BY <2>1
    <2>9. Blocked' /\ Served'
      BY <1>0, <1>1, <2>3, <2>4, <2>7, <2>8 DEF Blocked, Served, Early
    <2>10. GivenUp' /\ NotKilledInBoot'
      BY <1>0, <1>1, <2>4 DEF GivenUp, NotKilledInBoot
    <2>11. Queue'
      <3>1. Coming = 1 /\ Coming' = 0
        BY <1>1, <2>3, <2>4 DEF Coming, Early
      <3>2. QED
        BY <1>0, <1>1, <2>5, <3>1 DEF Queue
    <2>12. QED
      BY <2>6, <2>9, <2>10, <2>11 DEF FInv
  <1>4. QED
    BY <1>2, <1>3

\* Faults, commands, and what the manager tells init.
LEMMA RunInv ==
  ASSUME FInv, Register \/ KeepAlive \/ Fault \/ CrashHandler \/ Reload \/ Reboot
                 \/ \E c \in Command : Execute(c)
  PROVE  FInv'
  <1>0. Core
    BY DEF FInv
  <1>1. buf \in [Inc -> Buffer] /\ sys \in SysRec
    BY <1>0 DEF Core
  <1>2. ASSUME UNCHANGED <<init, batch, sys, backlog, open, sigs, tick, rebooted>>, buf' \in [Inc -> Buffer]
        PROVE  FInv'
    <2>1. Core'
      BY <1>0, <1>2 DEF Core
    <2>2. QED
      BY <1>2, <2>1, SameManager
  <1>3. CASE Register
    <2>1. /\ ~ sys.rt /\ sys.proc \in Early /\ sys' = [sys EXCEPT !.proc = "starting"] /\ "starting" \in Proc
          /\ UNCHANGED <<init, batch, backlog, buf, open, sigs, tick, rebooted>>
      BY <1>3 DEF Register, Early, Proc
    <2>2. QED
      BY <1>1, <2>1, ProcInv
  <1>4. CASE KeepAlive
    <2>1. buf' \in [Inc -> Buffer]
      BY <1>0, <1>4, SendOK DEF KeepAlive, Buffer, Message
    <2>2. QED
      BY <1>2, <1>4, <2>1 DEF KeepAlive
  <1>5. CASE CrashHandler
    <2>1. buf' \in [Inc -> Buffer]
      BY <1>0, <1>5, SendOK DEF CrashHandler, Buffer, Message
    <2>2. QED
      BY <1>2, <1>5, <2>1 DEF CrashHandler
  <1>6. CASE Fault
    <2>1. /\ ~ sys.rt /\ UNCHANGED <<init, batch, backlog, buf, tick, rebooted>> /\ rebooted' \in BOOLEAN
          /\ "hung" \in Proc /\ "crashing" \in Proc /\ "hung" \notin Early /\ "crashing" \notin Early
      BY <1>0, <1>6 DEF Fault, Core, Proc, Stuck, Early
    <2>2. CASE dies
      BY <2>1, <2>2, DiesInv
    <2>3. CASE sys' = [sys EXCEPT !.proc = "hung"] /\ UNCHANGED <<open, sigs>>
      BY <1>1, <2>1, <2>3, ProcInv
    <2>4. CASE sys' = [sys EXCEPT !.proc = "crashing"] /\ UNCHANGED <<open, sigs>>
      BY <1>1, <2>1, <2>4, ProcInv
    <2>5. QED
      BY <1>6, <2>2, <2>3, <2>4 DEF Fault
  <1>7. CASE Reload
    <2>1. /\ ~ sys.rt /\ sys' = [sys EXCEPT !.proc = "running"] /\ "running" \in Proc /\ "running" \notin Early
          /\ UNCHANGED <<init, batch, backlog, buf, open, sigs, tick, rebooted>>
      BY <1>7 DEF Reload, Early, Proc
    <2>2. QED
      BY <1>1, <2>1, ProcInv
  <1>8. CASE Reboot
    <2>1. dies /\ rebooted' \in BOOLEAN /\ UNCHANGED <<init, batch, backlog, buf, tick>>
      BY <1>8 DEF Reboot, kill_all_pids
    <2>2. QED
      BY <2>1, DiesInv
  <1>9. ASSUME NEW c \in Command, Execute(c) PROVE FInv'
    <2>1. ~ sys.rt /\ UNCHANGED <<init, batch, backlog, open, sigs, tick, rebooted>>
      BY <1>9 DEF Execute
    <2>2. PICK p \in {"reloading", "paused", "rebooting"} :
            sys' = [sys EXCEPT !.proc = p] /\ (buf' = buf \/ send("UNMANAGEABLE"))
      BY <1>9 DEF Execute
    <2>3. buf' \in [Inc -> Buffer]
      BY <1>0, <1>1, <2>2, SendOK DEF Buffer, Message
    <2>4. p \in Proc /\ p \notin Early
      BY DEF Proc, Stuck, Early
    <2>5. QED
      BY <2>1, <2>2, <2>3, <2>4, ProcInv
  <1>10. QED
    BY <1>3, <1>4, <1>5, <1>6, <1>7, <1>8, <1>9

-----------------------------------------------------------------------------
LEMMA FInitInv == FInit => FInv
  <1> SUFFICES ASSUME FInit PROVE FInv
    OBVIOUS
  <1>0. <<>> \in Seq(Inc) /\ 0 \in 0..TimeOut /\ 0 \in 0..AcceptCount
    BY LifecycleAssumption
  <1>1. init \in InitRec
    BY <1>0 DEF FInit, InitRec, InitState
  <1>2. sys \in SysRec /\ batch \in BatchRec
    BY IncOK DEF FInit, SysRec, BatchRec, Proc, InitState
  <1>3. Core
    BY <1>0, <1>1, <1>2 DEF FInit, Core, Buffer
  <1>4. QED
    BY <1>3 DEF FInit, FInv, GivenUp, Blocked, Served, NotKilledInBoot, Queue, Coming, Early

LEMMA FNextInv == FInv /\ [FNext]_fvars => FInv'
  <1> SUFFICES ASSUME FInv, [FNext]_fvars PROVE FInv'
    OBVIOUS
  <1>1. CASE Tick \/ Administrator \/ UNCHANGED fvars
    <2>1. UNCHANGED <<init, batch, sys, backlog, buf, open, rebooted>>
      BY <1>1 DEF Tick, Administrator, fvars
    <2>2. tick' \in BOOLEAN /\ sigs' \subseteq {"chld", "restart", "unrecover"}
      BY <1>1 DEF Tick, Administrator, fvars, FInv, Core
    <2>3. Core'
      BY <2>1, <2>2 DEF FInv, Core
    <2>4. QED
      BY <2>1, <2>3, SameManager
  <1>2. QED
    BY <1>1, AcceptInv, AcceptTimeoutInv, ReexecInv, WaitInv, HupInv, RecvInv, TimeInv, SignalInv,
       DeliverInv, ConnectInv, RunInv DEF FNext

LEMMA FInvHolds == FSpec => []FInv
  BY FInitInv, FNextInv, PTL DEF FSpec

\* Every variable of process 1 and of the manager has its type, and the listening socket never
\* holds more connections than incarnations are told apart.
THEOREM LifecycleTyped == FSpec => []FTypeOK
  <1>1. ASSUME FInv PROVE FTypeOK
    <2>1. Core /\ Queue
      BY <1>1 DEF FInv
    <2>2. Len(backlog) <= MaxInc
      BY <2>1, IncOK DEF Queue, Coming, Core
    <2>3. QED
      BY <2>1, <2>2 DEF Core, FTypeOK, SysRec, BatchRec
  <1>2. QED
    BY <1>1, FInvHolds, PTL

\* Whatever crashes, hangs, re-executions, signals and merged messages there are: as long as
\* init recovers the manager, wait_alive has accepted the connection of the manager that runs.
THEOREM CurrentConnection == FSpec => []ConnectionIsCurrent
  <1>1. FInv => ConnectionIsCurrent
    BY DEF FInv, ConnectionIsCurrent, Served, Recovering
  <1>2. QED
    BY <1>1, FInvHolds, PTL

\* reexec_manager signals no manager that has not registered the handler of the signal yet.
THEOREM BootSurvives == FSpec => []NotKilledInBoot
  <1>1. FInv => NotKilledInBoot
    BY DEF FInv
  <1>2. QED
    BY <1>1, FInvHolds, PTL

-------------------------------------------------------------------------------
\* What a handler has in hand.
Placed ==
  /\ pc.at \in {"exit", "unwatch", "popped", "attach", "kill"} => pc.u \in Unit
  /\ pc.at \in {"exit", "unwatch", "popped", "reap"} \/ pc.back => pc.p \in Pid
  /\ pc.at = "attach" => pc.new \in Pid

Typed == CTypeOK /\ Placed

\* The zombies that no start has forgotten; those after a step were there before it, or the
\* signal is up.
Fresh == {p \in Zombies : ~ proc[p].old}
Noted == Fresh' \subseteq Fresh \/ sig'

-----------------------------------------------------------------------------
\* Processes that end keep their type; those that wait for the manager are reported.
LEMMA EndsOK ==
  ASSUME proc \in [Pid -> Process], NEW S \in SUBSET Pid
  PROVE  /\ ends(proc, S) \in [Pid -> Process]
         /\ \A p \in Pid : ends(proc, S)[p].st = "zombie"
                             => proc[p].st = "zombie" \/ (p \in S /\ proc[p].parent = None)
  BY DEF ends, Process, Free

LEMMA EndsOld ==
  ASSUME proc \in [Pid -> Process], NEW S \in SUBSET Pid, NEW p \in Pid
  PROVE  ends(proc, S)[p].st = "zombie" => ends(proc, S)[p].old = proc[p].old
  <1> DEFINE q == ends(proc, S)[p]
  <1>1. proc[p] \in Process
    OBVIOUS
  <1>2. \/ q = [proc[p] EXCEPT !.st = "zombie"] \/ q = Free
        \/ q = [proc[p] EXCEPT !.parent = None] \/ q = proc[p]
    BY DEF ends
  <1> HIDE DEF q
  <1>3. q = [proc[p] EXCEPT !.st = "zombie"] => q.old = proc[p].old
    BY <1>1 DEF Process
  <1>4. q = [proc[p] EXCEPT !.parent = None] => q.old = proc[p].old
    BY <1>1 DEF Process
  <1>5. q = Free => q.st # "zombie"
    BY DEF Free
  <1>6. QED
    BY <1>2, <1>3, <1>4, <1>5 DEF q

LEMMA EndsNoted ==
  ASSUME proc \in [Pid -> Process], NEW S \in SUBSET Pid,
         proc' = ends(proc, S), Reported(S)
  PROVE  Noted
  BY EndsOK, EndsOld DEF Noted, Fresh, Zombies, Reported

LEMMA ReportedOK ==
  ASSUME NEW S, sig \in BOOLEAN, Reported(S)
  PROVE  sig' \in BOOLEAN /\ (sig => sig')
  BY DEF Reported

\* fork gives a free pid to a process that runs.
LEMMA ForkOK ==
  ASSUME CTypeOK, NEW q \in Pid, NEW cg \in Unit \cup {None}, NEW parent \in Pid \cup {None},
         fork(q, cg, parent)
  PROVE  /\ proc' \in [Pid -> Process] /\ Fresh' \subseteq Fresh
         /\ bound' \in [forks : 0..MaxForks, crashes : 0..MaxCrashes, sent : 0..MaxSent]
         /\ hist' \in [popped : SUBSET Pid, leaked : SUBSET Pid]
  <1>1. proc' \in [Pid -> Process] /\ Fresh' \subseteq Fresh
    BY DEF fork, CTypeOK, Process, Free, Fresh, Zombies
  <1>2. bound' \in [forks : 0..MaxForks, crashes : 0..MaxCrashes, sent : 0..MaxSent]
    <2>1. MaxForks \in Nat
      BY ChildrenAssumption
    <2>2. bound.forks \in 0..MaxForks /\ bound.forks < MaxForks
      BY DEF fork, CTypeOK
    <2>3. bound.forks + 1 \in 0..MaxForks
      BY <2>1, <2>2
    <2>4. QED
      BY <2>3 DEF fork, CTypeOK
  <1>3. hist' \in [popped : SUBSET Pid, leaked : SUBSET Pid]
    BY DEF fork, CTypeOK
  <1>4. QED
    BY <1>1, <1>2, <1>3

\* The operations on the table of watched processes keep its type.
LEMMA WatchOK ==
  ASSUME NEW h \in Held, NEW u \in Unit, NEW p \in Pid \cup {None}
  PROVE  /\ p \in Pid => add_watch_pid(h, u, p) \in Held
         /\ unwatch_pid(h, u, p) \in Held
         /\ child_watch_all_pids(h, u) \in Held
  BY DEF Held, add_watch_pid, unwatch_pid, child_watch_all_pids, InCgroup

\* commit writes a table and marks what is watched.
LEMMA CommitOK ==
  ASSUME NEW P \in [Pid -> Process], NEW h \in Held, commit(P, h)
  PROVE  /\ disk' \in Held /\ proc' \in [Pid -> Process]
         /\ \A p \in Pid : proc'[p].st = P[p].st /\ proc'[p].old = P[p].old
  BY DEF commit, Process

\* The pids of a cgroup, in any order.
LEMMA TodoOK ==
  ASSUME NEW S \in SUBSET Pid, NEW s \in SetToSeqs(S)
  PROVE  s \in Seq(Pid)
  <1>1. IsFiniteSet(S)
    BY ChildrenAssumption, FS_Subset
  <1>2. Cardinality(S) \in Nat
    BY <1>1, FS_CardinalityType
  <1>3. s \in [1..Cardinality(S) -> Pid]
    BY DEF SetToSeqs
  <1>4. QED
    BY <1>2, <1>3

LEMMA LeaksOK ==
  ASSUME CTypeOK, NEW S \in SUBSET Pid, Leaks(S)
  PROVE  hist' \in [popped : SUBSET Pid, leaked : SUBSET Pid]
  BY DEF CTypeOK, Leaks

-----------------------------------------------------------------------------
(* One lemma for each action. *)

\* A step keeps the type, and a zombie noticed.
StepOK == Typed' /\ (ZombieNoticed => ZombieNoticed')

\* A step that leaves the source alone and the handler out of "off".
LEMMA Kept ==
  ASSUME Noted, sig => sig', on' = on, pc'.at = "off" => pc.at = "off", ZombieNoticed
  PROVE  ZombieNoticed'
  BY DEF Noted, ZombieNoticed, Fresh

LEMMA ProcForkStep ==
  ASSUME Typed, UNCHANGED switch, ProcFork
  PROVE  StepOK
  <1>1. PICK p \in Pid, q \in Pid : Running(p) /\ fork(q, proc[p].cg, p)
    BY DEF ProcFork
  <1>2. proc[p].cg \in Unit \cup {None}
    BY DEF Typed, CTypeOK, Process
  <1>3. UNCHANGED <<sig, on, queue, mem, disk, pc>>
    BY DEF ProcFork
  <1>4. Typed'
    BY <1>1, <1>2, <1>3, ForkOK DEF Typed, CTypeOK, Placed
  <1>5. QED
    BY <1>1, <1>2, <1>3, <1>4, ForkOK, Kept DEF StepOK, Noted, Typed

LEMMA ProcExitStep ==
  ASSUME Typed, UNCHANGED switch, ProcExit
  PROVE  StepOK
  <1>1. PICK p \in Pid :
          /\ proc' = ends(proc, {p}) /\ Reported({p})
          /\ IF proc[p].parent # None THEN Leaks({p}) ELSE UNCHANGED hist
    BY DEF ProcExit
  <1>2. UNCHANGED <<on, queue, mem, disk, pc, bound>>
    BY DEF ProcExit
  <1>3. proc' \in [Pid -> Process]
    BY <1>1, EndsOK DEF Typed, CTypeOK
  <1>4. sig' \in BOOLEAN /\ (sig => sig')
    BY <1>1, ReportedOK DEF Typed, CTypeOK
  <1>5. hist' \in [popped : SUBSET Pid, leaked : SUBSET Pid]
    BY <1>1, LeaksOK DEF Typed, CTypeOK
  <1>6. Typed'
    BY <1>2, <1>3, <1>4, <1>5 DEF Typed, CTypeOK, Placed
  <1>7. Noted
    BY <1>1, EndsNoted DEF Typed, CTypeOK
  <1>8. QED
    BY <1>2, <1>4, <1>6, <1>7, Kept DEF StepOK

LEMMA ProcNotifyStep ==
  ASSUME Typed, UNCHANGED switch, ProcNotify
  PROVE  StepOK
  <1>1. PICK p \in Pid : proc' = [proc EXCEPT ![p].sent = TRUE] /\ queue' = Append(queue, p)
    BY DEF ProcNotify
  <1>2. UNCHANGED <<sig, on, mem, disk, pc, hist>>
    BY DEF ProcNotify
  <1>3. proc' \in [Pid -> Process] /\ Fresh' \subseteq Fresh
    <2>1. /\ [proc[p] EXCEPT !.sent = TRUE] \in Process
          /\ [proc[p] EXCEPT !.sent = TRUE].st = proc[p].st
          /\ [proc[p] EXCEPT !.sent = TRUE].old = proc[p].old
      <3>1. proc[p] \in Process
        BY DEF Typed, CTypeOK
      <3>2. [proc[p] EXCEPT !.sent = TRUE] \in Process
        BY <3>1 DEF Process
      <3>3. [proc[p] EXCEPT !.sent = TRUE].st = proc[p].st
        BY <3>1 DEF Process
      <3>4. [proc[p] EXCEPT !.sent = TRUE].old = proc[p].old
        BY <3>1 DEF Process
      <3>5. QED
        BY <3>2, <3>3, <3>4
    <2>2. proc' = [proc EXCEPT ![p] = [proc[p] EXCEPT !.sent = TRUE]]
      BY <1>1
    <2>3. QED
      BY <2>1, <2>2 DEF Typed, CTypeOK, Fresh, Zombies
  <1>4. queue' \in Seq(Pid)
    BY <1>1 DEF Typed, CTypeOK
  <1>5. bound' \in [forks : 0..MaxForks, crashes : 0..MaxCrashes, sent : 0..MaxSent]
    <2>1. MaxSent \in Nat
      BY ChildrenAssumption
    <2>2. bound.sent \in 0..MaxSent /\ bound.sent < MaxSent
      BY DEF ProcNotify, Typed, CTypeOK
    <2>3. bound.sent + 1 \in 0..MaxSent
      BY <2>1, <2>2
    <2>4. QED
      BY <2>3 DEF ProcNotify, Typed, CTypeOK
  <1>6. Typed'
    BY <1>2, <1>3, <1>4, <1>5 DEF Typed, CTypeOK, Placed
  <1>7. QED
    BY <1>2, <1>3, <1>6, Kept DEF StepOK, Noted

LEMMA SpawnStep ==
  ASSUME Typed, UNCHANGED switch, NEW u \in Unit, NEW at \in Handler, at.back => at.p \in Pid, Spawn(u, at)
  PROVE  StepOK
  <1>1. PICK q \in Pid : /\ fork(q, None, None)
                         /\ pc' = [at EXCEPT !.at = "attach", !.u = u, !.new = q]
    BY DEF Spawn
  <1>2. UNCHANGED <<sig, on, queue, mem, disk>>
    BY DEF Spawn
  <1>3. pc' \in Handler /\ Placed' /\ pc'.at = "attach"
    BY <1>1 DEF Handler, Placed
  <1>4. Typed'
    BY <1>1, <1>2, <1>3, ForkOK DEF Typed, CTypeOK
  <1>5. QED
    BY <1>1, <1>2, <1>3, <1>4, ForkOK, Kept DEF StepOK, Noted, Typed

LEMMA RestOK == Rest \in Handler /\ ~ Rest.back /\ Rest.at = "idle"
  BY DEF Rest, Handler

LEMMA StartCallStep ==
  ASSUME Typed, UNCHANGED switch, StartCall
  PROVE  StepOK
  BY RestOK, SpawnStep DEF StartCall

LEMMA NextCommandStep ==
  ASSUME Typed, UNCHANGED switch, NextCommand
  PROVE  StepOK
  <1> DEFINE at == [pc EXCEPT !.back = TRUE]
  <1>1. at \in Handler /\ at.p \in Pid /\ pc.u \in Unit
    BY DEF NextCommand, Typed, CTypeOK, Placed, Handler
  <1>2. Spawn(pc.u, at)
    BY DEF NextCommand
  <1>3. QED
    BY <1>1, <1>2, SpawnStep

\* The end of a handler, or the return to the handler of an exit.
LEMMA ResumeOK ==
  ASSUME Typed, UNCHANGED switch, NEW h \in Held, pc.at = "attach", Resume(h)
  PROVE  pc' \in Handler /\ Placed' /\ pc'.at # "off" /\ disk' \in Held
  <1>1. CASE pc.back
    <2>1. pc' = [pc EXCEPT !.at = "unwatch", !.new = None, !.todo = <<>>] /\ disk' = disk
      BY <1>1 DEF Resume
    <2>2. pc \in Handler /\ <<>> \in Seq(Pid) /\ pc.u \in Unit /\ pc.p \in Pid /\ disk \in Held
      BY <1>1 DEF Typed, CTypeOK, Placed
    <2>3. pc' \in Handler /\ pc'.at = "unwatch" /\ pc'.u = pc.u /\ pc'.p = pc.p
      BY <2>1, <2>2 DEF Handler
    <2>4. QED
      BY <2>1, <2>2, <2>3 DEF Placed
  <1>2. CASE ~ pc.back
    BY <1>2, RestOK DEF Resume, Placed
  <1>3. QED
    BY <1>1, <1>2

LEMMA AttachedStep ==
  ASSUME Typed, UNCHANGED switch, Attached
  PROVE  StepOK
  <1> DEFINE h == [add_watch_pid(mem, pc.u, pc.new) EXCEPT !.main[pc.u] = pc.new,
                                                           !.ready = @ \ {pc.u}]
  <1>1. pc.u \in Unit /\ pc.new \in Pid /\ pc.at = "attach"
    BY DEF Attached, Typed, Placed
  <1>2. h \in Held
    <2>1. add_watch_pid(mem, pc.u, pc.new) \in Held
      BY <1>1, WatchOK DEF Typed, CTypeOK
    <2>2. QED
      BY <1>1, <2>1 DEF Held
  <1>3. mem' = h /\ Resume(h) /\ UNCHANGED <<sig, on, queue, bound, hist>>
    BY DEF Attached
  <1>4. proc' = [proc EXCEPT ![pc.new].cg = IF Running(pc.new) THEN pc.u ELSE @,
                             ![pc.new].kept = ~ pc.back]
    BY DEF Attached
  <1>5. proc' \in [Pid -> Process] /\ Fresh' \subseteq Fresh
    BY <1>1, <1>4 DEF Typed, CTypeOK, Process, Handler, Fresh, Zombies
  <1>6. pc' \in Handler /\ Placed' /\ pc'.at # "off" /\ disk' \in Held
    BY <1>1, <1>2, <1>3, ResumeOK
  <1> HIDE DEF h
  <1>7. Typed'
    BY <1>2, <1>3, <1>5, <1>6 DEF Typed, CTypeOK
  <1>8. QED
    BY <1>3, <1>5, <1>6, <1>7, Kept DEF StepOK, Noted

LEMMA AttachFailsStep ==
  ASSUME Typed, UNCHANGED switch, AttachFails
  PROVE  StepOK
  <1>1. UNCHANGED <<proc, sig, on, queue, mem, bound, hist>> /\ pc.at = "attach" /\ Resume(mem)
    BY DEF AttachFails
  <1>2. pc' \in Handler /\ Placed' /\ pc'.at # "off" /\ disk' \in Held
    BY <1>1, ResumeOK DEF Typed, CTypeOK
  <1>3. Typed'
    BY <1>1, <1>2 DEF Typed, CTypeOK
  <1>4. Noted
    BY <1>1 DEF Noted, Fresh, Zombies
  <1>5. QED
    BY <1>1, <1>2, <1>3, <1>4, Kept DEF StepOK

\* A handler that starts with unit u and pid p in hand.
LEMMA FromRest ==
  ASSUME NEW at \in {"exit", "reap", "popped"}, NEW u \in Unit \cup {None}, NEW p \in Pid,
         at # "reap" => u \in Unit,
         pc' = [Rest EXCEPT !.at = at, !.u = u, !.p = p]
  PROVE  pc' \in Handler /\ Placed' /\ pc'.at # "off"
  <1>1. pc' \in Handler /\ pc'.at = at /\ pc'.u = u /\ pc'.p = p
    BY RestOK DEF Handler
  <1>2. QED
    BY <1>1 DEF Placed

LEMMA SignalDispatchStep ==
  ASSUME Typed, UNCHANGED switch, SignalDispatch
  PROVE  StepOK
  <1>1. /\ UNCHANGED <<proc, queue, mem, disk, pc, bound, hist>>
        /\ sig' = FALSE /\ on' = TRUE /\ pc.at = "idle"
    BY DEF SignalDispatch
  <1>2. Typed'
    BY <1>1 DEF Typed, CTypeOK, Placed
  <1>3. QED
    BY <1>1, <1>2 DEF StepOK, ZombieNoticed

LEMMA PeekStep ==
  ASSUME Typed, UNCHANGED switch, Peek
  PROVE  StepOK
  <1>1. UNCHANGED <<proc, sig, on, queue, mem, disk, bound, hist>> /\ on /\ pc.at = "idle"
    BY DEF Peek
  <1>2. Fresh' = Fresh /\ Fresh \subseteq Zombies
    BY <1>1 DEF Fresh, Zombies
  <1>3. CASE Zombies = {} /\ pc' = [Rest EXCEPT !.at = "off"]
    <2>1. pc' \in Handler /\ Placed'
      <3>1. pc' \in Handler /\ pc'.at = "off" /\ pc'.back = Rest.back
        BY <1>3, RestOK DEF Handler
      <3>2. QED
        BY <3>1, RestOK DEF Placed
    <2>2. Typed'
      BY <1>1, <2>1 DEF Typed, CTypeOK
    <2>3. QED
      BY <1>2, <1>3, <2>2 DEF StepOK, ZombieNoticed, Fresh
  <1>4. ASSUME NEW p \in Zombies,
               pc' = [Rest EXCEPT !.at = IF mem.watch[p] = None THEN "reap" ELSE "exit",
                                  !.u = mem.watch[p], !.p = p]
        PROVE  StepOK
    <2>1. p \in Pid /\ mem.watch[p] \in Unit \cup {None}
      BY DEF Zombies, Typed, CTypeOK, Held
    <2>2. pc' \in Handler /\ Placed' /\ pc'.at # "off"
      BY <1>4, <2>1, FromRest
    <2>3. Typed'
      BY <1>1, <2>2 DEF Typed, CTypeOK
    <2>4. QED
      BY <1>1, <1>2, <2>2, <2>3, Kept DEF StepOK, Noted
  <1>5. QED
    BY <1>3, <1>4 DEF Peek

LEMMA TurnOffStep ==
  ASSUME Typed, UNCHANGED switch, TurnOff
  PROVE  StepOK
  <1>1. /\ UNCHANGED <<proc, sig, queue, mem, disk, bound, hist>>
        /\ on' = FALSE /\ pc' = Rest /\ pc.at = "off"
    BY DEF TurnOff
  <1>2. Typed'
    BY <1>1, RestOK DEF Typed, CTypeOK, Placed
  <1>3. Fresh' = Fresh
    BY <1>1 DEF Fresh, Zombies
  <1>4. QED
    BY <1>1, <1>2, <1>3 DEF StepOK, ZombieNoticed, Fresh

LEMMA SigchldEventsStep ==
  ASSUME Typed, UNCHANGED switch, SigchldEvents
  PROVE  StepOK
  <1>1. UNCHANGED <<proc, sig, on, queue, disk, bound, hist>> /\ pc.at = "exit"
    BY DEF SigchldEvents
  <1>2. mem' \in Held
    BY <1>1 DEF SigchldEvents, Typed, CTypeOK, Placed, Held
  <1>3. pc' \in Handler /\ Placed' /\ pc'.at # "off"
    BY <1>1 DEF SigchldEvents, Typed, CTypeOK, Placed, Handler
  <1>4. Typed'
    BY <1>1, <1>2, <1>3 DEF Typed, CTypeOK
  <1>5. Noted
    BY <1>1 DEF Noted, Fresh, Zombies
  <1>6. QED
    BY <1>1, <1>3, <1>4, <1>5, Kept DEF StepOK

LEMMA UnwatchStep ==
  ASSUME Typed, UNCHANGED switch, Unwatch
  PROVE  StepOK
  <1> DEFINE h == unwatch_pid(mem, pc.u, pc.p)
  <1>1. /\ UNCHANGED <<sig, on, queue, bound, hist>> /\ pc.at = "unwatch"
        /\ mem' = h /\ commit(proc, h) /\ pc' = [Rest EXCEPT !.at = "reap", !.p = pc.p]
    BY DEF Unwatch
  <1>2. h \in Held
    BY <1>1, WatchOK DEF Typed, CTypeOK, Placed
  <1> HIDE DEF h
  <1>3. disk' \in Held /\ proc' \in [Pid -> Process] /\ Noted
    BY <1>1, <1>2, CommitOK DEF Typed, CTypeOK, Noted, Fresh, Zombies
  <1>4. pc' \in Handler /\ Placed' /\ pc'.at # "off"
    <2>1. pc.p \in Pid /\ Rest.u = None /\ Rest \in Handler
      BY <1>1, RestOK DEF Typed, Placed, Rest
    <2>2. pc' = [Rest EXCEPT !.at = "reap", !.u = None, !.p = pc.p]
      BY <1>1, <2>1 DEF Handler
    <2>3. QED
      BY <2>1, <2>2, FromRest
  <1>5. Typed'
    BY <1>1, <1>2, <1>3, <1>4 DEF Typed, CTypeOK
  <1>6. QED
    BY <1>1, <1>3, <1>4, <1>5, Kept DEF StepOK

LEMMA ReapStep ==
  ASSUME Typed, UNCHANGED switch, Reap
  PROVE  StepOK
  <1>1. UNCHANGED <<sig, on, queue, bound, hist>> /\ pc' = Rest
    BY DEF Reap
  <1>2. proc' \in [Pid -> Process] /\ Noted
    BY DEF Reap, Typed, CTypeOK, Process, Free, Noted, Fresh, Zombies
  <1>3. mem' \in Held /\ disk' \in Held
    BY DEF Reap, Typed, CTypeOK, Held
  <1>4. Typed'
    BY <1>1, <1>2, <1>3, RestOK DEF Typed, CTypeOK, Placed
  <1>5. QED
    BY <1>1, <1>2, <1>4, RestOK, Kept DEF StepOK

LEMMA NotifyPopStep ==
  ASSUME Typed, UNCHANGED switch, NotifyPop
  PROVE  StepOK
  <1>1. UNCHANGED <<proc, sig, on, mem, disk, bound, hist>> /\ pc.at = "idle"
    BY DEF NotifyPop
  <1>2. Head(queue) \in Pid /\ queue' \in Seq(Pid)
    BY DEF NotifyPop, Typed, CTypeOK
  <1>3. mem.watch[Head(queue)] \in Unit \cup {None}
    BY <1>2 DEF Typed, CTypeOK, Held
  <1>4. pc' \in Handler /\ Placed' /\ pc'.at # "off"
    <2>1. CASE mem.watch[Head(queue)] = None
      BY <1>1, <2>1 DEF NotifyPop, notify_peek_pid, Typed, CTypeOK, Placed
    <2>2. CASE mem.watch[Head(queue)] # None
      <3>1. pc' = [Rest EXCEPT !.at = "popped", !.u = mem.watch[Head(queue)], !.p = Head(queue)]
        BY <2>2 DEF NotifyPop, notify_peek_pid
      <3>2. QED
        BY <1>2, <1>3, <2>2, <3>1, FromRest
    <2>3. QED
      BY <2>1, <2>2
  <1>5. Typed'
    BY <1>1, <1>2, <1>4 DEF Typed, CTypeOK
  <1>6. Noted
    BY <1>1 DEF Noted, Fresh, Zombies
  <1>7. QED
    BY <1>1, <1>4, <1>5, <1>6, Kept DEF StepOK

LEMMA NotifyMessageStep ==
  ASSUME Typed, UNCHANGED switch, NotifyMessage
  PROVE  StepOK
  <1>1. UNCHANGED <<sig, on, queue, bound, hist>> /\ pc' = Rest /\ pc.at = "popped" /\ commit(proc, mem')
    BY DEF NotifyMessage
  <1>2. mem' \in Held
    BY <1>1 DEF NotifyMessage, Typed, CTypeOK, Placed, Held
  <1>3. disk' \in Held /\ proc' \in [Pid -> Process] /\ Noted
    BY <1>1, <1>2, CommitOK DEF Typed, CTypeOK, Noted, Fresh, Zombies
  <1>4. Typed'
    BY <1>1, <1>2, <1>3, RestOK DEF Typed, CTypeOK, Placed
  <1>5. QED
    BY <1>1, <1>3, <1>4, RestOK, Kept DEF StepOK

LEMMA KillContextStep ==
  ASSUME Typed, UNCHANGED switch, NEW u \in Unit, NEW at \in Handler, at.back => at.p \in Pid, kill_context(u, at)
  PROVE  StepOK
  <1> DEFINE m == mem.main[u]
             dead == IF m # None /\ Running(m) THEN {m} ELSE {}
  <1>1. m \in Pid \cup {None} /\ dead \in SUBSET Pid
    BY DEF Typed, CTypeOK, Held
  <1>2. /\ mem' = child_watch_all_pids(mem, u) /\ proc' = ends(proc, dead) /\ Reported(dead)
        /\ \E s \in SetToSeqs(InCgroup(u) \ {m}) : pc' = [at EXCEPT !.at = "kill", !.u = u, !.todo = s]
        /\ UNCHANGED <<on, queue, disk, bound, hist>>
    BY DEF kill_context
  <1> HIDE DEF m, dead
  <1>3. PICK s \in SetToSeqs(InCgroup(u) \ {m}) : pc' = [at EXCEPT !.at = "kill", !.u = u, !.todo = s]
    BY <1>2
  <1>4. s \in Seq(Pid)
    BY TodoOK DEF InCgroup
  <1>5. pc' \in Handler /\ Placed' /\ pc'.at # "off"
    BY <1>3, <1>4 DEF Handler, Placed
  <1>6. mem' \in Held
    BY <1>2, WatchOK DEF Typed, CTypeOK
  <1>7. proc' \in [Pid -> Process] /\ Noted
    BY <1>1, <1>2, EndsOK, EndsNoted DEF Typed, CTypeOK
  <1>8. sig' \in BOOLEAN /\ (sig => sig')
    BY <1>2, ReportedOK DEF Typed, CTypeOK
  <1>9. Typed'
    BY <1>2, <1>5, <1>6, <1>7, <1>8 DEF Typed, CTypeOK
  <1>10. QED
    BY <1>2, <1>5, <1>7, <1>8, <1>9, Kept DEF StepOK

LEMMA StopCallStep ==
  ASSUME Typed, UNCHANGED switch, StopCall
  PROVE  StepOK
  BY RestOK, KillContextStep DEF StopCall

LEMMA StopOnExitStep ==
  ASSUME Typed, UNCHANGED switch, StopOnExit
  PROVE  StepOK
  <1> DEFINE at == [pc EXCEPT !.back = TRUE]
  <1>1. at \in Handler /\ at.p \in Pid /\ pc.u \in Unit
    BY DEF StopOnExit, Typed, CTypeOK, Placed, Handler
  <1>2. kill_context(pc.u, at)
    BY DEF StopOnExit
  <1>3. QED
    BY <1>1, <1>2, KillContextStep

LEMMA KillOneStep ==
  ASSUME Typed, UNCHANGED switch, KillOne
  PROVE  StepOK
  <1> DEFINE p == Head(pc.todo)
             dead == IF Running(p) THEN {p} ELSE {}
  <1>1. pc.at = "kill" /\ pc.todo # <<>> /\ UNCHANGED <<on, queue, mem, disk, bound>>
    BY DEF KillOne
  <1>2. pc \in Handler /\ pc.todo \in Seq(Pid)
    BY DEF Typed, CTypeOK, Handler
  <1>3. p \in Pid /\ Tail(pc.todo) \in Seq(Pid) /\ <<>> \in Seq(Pid)
    BY <1>1, <1>2
  <1>4. CASE proc[p].st = "free"
    <2>1. pc' = [pc EXCEPT !.todo = <<>>] /\ UNCHANGED <<proc, sig, hist>>
      BY <1>4 DEF KillOne
    <2>2. pc' \in Handler /\ Placed' /\ pc'.at # "off"
      BY <1>1, <1>2, <1>3, <2>1 DEF Typed, Handler, Placed
    <2>3. Typed'
      BY <1>1, <2>1, <2>2 DEF Typed, CTypeOK
    <2>4. Noted
      BY <2>1 DEF Noted, Fresh, Zombies
    <2>5. QED
      BY <1>1, <2>1, <2>2, <2>3, <2>4, Kept DEF StepOK
  <1>5. CASE proc[p].st # "free"
    <2>1. /\ pc' = [pc EXCEPT !.todo = Tail(@)] /\ proc' = ends(proc, dead) /\ Reported(dead)
          /\ IF dead # {} /\ proc[p].parent # None THEN Leaks(dead) ELSE UNCHANGED hist
      BY <1>5 DEF KillOne
    <2>2. dead \in SUBSET Pid
      BY <1>3
    <2> HIDE DEF p, dead
    <2>3. pc' \in Handler /\ Placed' /\ pc'.at # "off"
      BY <1>1, <1>2, <1>3, <2>1 DEF Typed, Handler, Placed
    <2>4. proc' \in [Pid -> Process] /\ Noted
      BY <2>1, <2>2, EndsOK, EndsNoted DEF Typed, CTypeOK
    <2>5. sig' \in BOOLEAN /\ (sig => sig')
      BY <2>1, ReportedOK DEF Typed, CTypeOK
    <2>6. hist' \in [popped : SUBSET Pid, leaked : SUBSET Pid]
      BY <2>1, <2>2, LeaksOK DEF Typed, CTypeOK
    <2>7. Typed'
      BY <1>1, <2>3, <2>4, <2>5, <2>6 DEF Typed, CTypeOK
    <2>8. QED
      BY <1>1, <2>3, <2>4, <2>5, <2>7, Kept DEF StepOK
  <1>6. QED
    BY <1>4, <1>5

LEMMA KillDoneStep ==
  ASSUME Typed, UNCHANGED switch, KillDone
  PROVE  StepOK
  <1> DEFINE m == mem.main[pc.u]
             h == IF m = None THEN mem
                  ELSE [unwatch_pid(mem, pc.u, m) EXCEPT !.main[pc.u] = None, !.ready = @ \ {pc.u}]
             given == IF m = None THEN proc ELSE [proc EXCEPT ![m].kept = FALSE]
  <1>1. UNCHANGED <<sig, on, queue, bound, hist>> /\ pc.at = "kill" /\ mem' = h
    BY DEF KillDone
  <1>2. pc.u \in Unit /\ mem \in Held
    BY <1>1 DEF Typed, CTypeOK, Placed
  <1>3. m \in Pid \cup {None}
    BY <1>2 DEF Held
  <1>4. h \in Held
    <2>1. unwatch_pid(mem, pc.u, m) \in Held
      BY <1>2, <1>3, WatchOK
    <2>2. QED
      BY <1>2, <2>1 DEF Held
  <1>5. given \in [Pid -> Process] /\ \A p \in Pid : given[p].st = proc[p].st /\ given[p].old = proc[p].old
    <2>1. proc \in [Pid -> Process]
      BY DEF Typed, CTypeOK
    <2>2. CASE m # None
      <3>1. /\ [proc[m] EXCEPT !.kept = FALSE] \in Process
            /\ [proc[m] EXCEPT !.kept = FALSE].st = proc[m].st
            /\ [proc[m] EXCEPT !.kept = FALSE].old = proc[m].old
        <4>1. proc[m] \in Process
          BY <1>3, <2>1, <2>2
        <4> HIDE DEF m
        <4>2. [proc[m] EXCEPT !.kept = FALSE] \in Process
          BY <4>1 DEF Process
        <4>3. [proc[m] EXCEPT !.kept = FALSE].st = proc[m].st
          BY <4>1 DEF Process
        <4>4. [proc[m] EXCEPT !.kept = FALSE].old = proc[m].old
          BY <4>1 DEF Process
        <4>5. QED
          BY <4>2, <4>3, <4>4
      <3>2. given = [proc EXCEPT ![m] = [proc[m] EXCEPT !.kept = FALSE]]
        BY <2>2
      <3>3. QED
        BY <1>3, <2>1, <2>2, <3>1, <3>2
    <2>3. QED
      BY <2>1, <2>2
  <1>6. IF pc.back THEN pc' = [pc EXCEPT !.at = "unwatch"] /\ proc' = given /\ UNCHANGED disk
                   ELSE pc' = Rest /\ commit(given, h)
    BY DEF KillDone
  <1> HIDE DEF m, h, given
  <1>7. CASE pc.back
    <2>1. pc' \in Handler /\ Placed' /\ pc'.at # "off"
      BY <1>2, <1>6, <1>7 DEF Typed, CTypeOK, Handler, Placed
    <2>2. Typed'
      BY <1>1, <1>4, <1>5, <1>6, <1>7, <2>1 DEF Typed, CTypeOK
    <2>3. Noted
      BY <1>5, <1>6, <1>7 DEF Noted, Fresh, Zombies
    <2>4. QED
      BY <1>1, <2>1, <2>2, <2>3, Kept DEF StepOK
  <1>8. CASE ~ pc.back
    <2>1. disk' \in Held /\ proc' \in [Pid -> Process] /\ Noted
      BY <1>4, <1>5, <1>6, <1>8, CommitOK DEF Noted, Fresh, Zombies
    <2>2. Typed'
      BY <1>1, <1>4, <1>6, <1>8, <2>1, RestOK DEF Typed, CTypeOK, Placed
    <2>3. QED
      BY <1>1, <1>6, <1>8, <2>1, <2>2, RestOK, Kept DEF StepOK
  <1>9. QED
    BY <1>7, <1>8

\* What setup_cgroup kills runs in the manager's own cgroup.
Strays == {p \in Pid : Running(p) /\ proc[p].cg = None}

LEMMA ClearedOK ==
  ASSUME NEW P \in [Pid -> Process],
         proc' = [p \in Pid |-> [P[p] EXCEPT !.kept = FALSE, !.old = (P[p].st = "zombie")]]
  PROVE  /\ proc' \in [Pid -> Process]
         /\ \A p \in Pid : /\ proc'[p].st = P[p].st /\ ~ proc'[p].kept
                           /\ proc'[p].st = "zombie" => proc'[p].old
  <1>1. ASSUME NEW p \in Pid
        PROVE  /\ proc'[p] \in Process /\ proc'[p].st = P[p].st /\ ~ proc'[p].kept
               /\ proc'[p].st = "zombie" => proc'[p].old
    <2>1. P[p] \in Process /\ proc'[p] = [P[p] EXCEPT !.kept = FALSE, !.old = (P[p].st = "zombie")]
      OBVIOUS
    <2>2. (P[p].st = "zombie") \in BOOLEAN
      OBVIOUS
    <2>3. QED
      BY <2>1, <2>2 DEF Process
  <1>2. QED
    BY <1>1

LEMMA CrashStep ==
  ASSUME Typed, UNCHANGED switch, Crash
  PROVE  StepOK
  <1>1. pc' = Rest /\ sig' \in BOOLEAN /\ (Recover \/ ClearedStart)
    BY DEF Crash, Typed, CTypeOK
  <1>2. setup_cgroup \in [Pid -> Process]
    BY EndsOK DEF setup_cgroup, Typed, CTypeOK
  <1>3. bound' \in [forks : 0..MaxForks, crashes : 0..MaxCrashes, sent : 0..MaxSent]
    <2>1. MaxCrashes \in Nat
      BY ChildrenAssumption
    <2>2. bound.crashes \in 0..MaxCrashes /\ bound.crashes < MaxCrashes
      BY DEF Crash, Typed, CTypeOK
    <2>3. bound.crashes + 1 \in 0..MaxCrashes
      BY <2>1, <2>2
    <2>4. QED
      BY <2>3 DEF Crash, Typed, CTypeOK
  <1>4. hist' \in [popped : SUBSET Pid, leaked : SUBSET Pid]
    BY DEF Crash, Typed, CTypeOK, Placed
  <1>5. CASE Recover
    <2>1. PICK w \in db_map(disk) : mem' = [disk EXCEPT !.watch = w]
      BY <1>5 DEF Recover
    <2>2. UNCHANGED <<queue, disk>> /\ on' = TRUE /\ proc' \in [Pid -> Process]
      BY <1>2, <1>5 DEF Recover, input_rebuild
    <2>3. mem' \in Held
      BY <2>1 DEF db_map, Typed, CTypeOK, Held
    <2>4. Typed'
      BY <1>1, <1>3, <1>4, <2>2, <2>3, RestOK DEF Typed, CTypeOK, Placed
    <2>5. QED
      BY <1>1, <2>2, <2>4, RestOK DEF StepOK, ZombieNoticed
  <1>6. CASE ClearedStart
    <2>1. mem' = Nothing /\ disk' = Nothing /\ on' = FALSE /\ queue' = <<>>
      BY <1>6 DEF ClearedStart
    <2>2. proc' \in [Pid -> Process] /\ \A p \in Pid : proc'[p].st = "zombie" => proc'[p].old
      BY <1>2, <1>6, ClearedOK DEF ClearedStart
    <2>3. Nothing \in Held /\ <<>> \in Seq(Pid)
      BY DEF Nothing, Held
    <2>4. Typed'
      BY <1>1, <1>3, <1>4, <2>1, <2>2, <2>3, RestOK DEF Typed, CTypeOK, Placed
    <2>5. QED
      BY <2>2, <2>4 DEF StepOK, ZombieNoticed, Fresh, Zombies
  <1>7. QED
    BY <1>1, <1>5, <1>6

-----------------------------------------------------------------------------
\* The invariant holds at the start, and every step keeps it.
LEMMA ChildrenInit ==
  ASSUME CInit
  PROVE  Typed /\ ZombieNoticed
  <1>1. Nothing \in Held
    BY DEF Nothing, Held
  <1>2. Free \in Process
    BY DEF Free, Process
  <1>3. bound \in [forks : 0..MaxForks, crashes : 0..MaxCrashes, sent : 0..MaxSent]
    <2>1. MaxForks \in Nat /\ MaxCrashes \in Nat /\ MaxSent \in Nat
      BY ChildrenAssumption
    <2>2. QED
      BY <2>1 DEF CInit
  <1>4. Typed
    <2>1. proc \in [Pid -> Process] /\ mem \in Held /\ disk \in Held /\ pc = Rest
      BY <1>1, <1>2 DEF CInit
    <2>2. sig \in BOOLEAN /\ on \in BOOLEAN /\ queue \in Seq(Pid)
      <3>1. sig = FALSE /\ on = FALSE /\ queue = <<>>
        BY DEF CInit
      <3>2. <<>> \in Seq(Pid)
        OBVIOUS
      <3>3. QED
        BY <3>1, <3>2
    <2>3. hist \in [popped : SUBSET Pid, leaked : SUBSET Pid]
      BY DEF CInit
    <2>4. QED
      BY <1>3, <2>1, <2>2, <2>3, RestOK DEF Typed, CTypeOK, Placed, CInit
  <1>5. Zombies = {}
    BY DEF CInit, Zombies, Free
  <1>6. QED
    BY <1>4, <1>5 DEF ZombieNoticed

LEMMA ChildrenNext ==
  ASSUME Typed, [CNext]_vars
  PROVE  StepOK
  <1>0. UNCHANGED switch
    BY DEF CNext, vars
  <1>1. CASE Environment
    BY <1>0, <1>1, ProcForkStep, ProcExitStep, ProcNotifyStep, StartCallStep, StopCallStep, CrashStep
       DEF Environment
  <1>2. CASE Handle
    BY <1>0, <1>2, AttachedStep, AttachFailsStep, TurnOffStep, SigchldEventsStep, NextCommandStep,
       UnwatchStep, ReapStep, NotifyMessageStep, StopOnExitStep, KillOneStep, KillDoneStep DEF Handle
  <1>3. CASE SignalDispatch \/ Peek \/ NotifyPop
    BY <1>0, <1>3, SignalDispatchStep, PeekStep, NotifyPopStep
  <1>4. CASE UNCHANGED vars
    BY <1>4 DEF vars, StepOK, Typed, CTypeOK, Placed, ZombieNoticed, Fresh, Zombies
  <1>5. QED
    BY <1>1, <1>2, <1>3, <1>4 DEF CNext

\* Every variable of the child handling keeps its type.
THEOREM ChildrenTyped == CSpec => []CTypeOK
  <1>1. CInit => Typed
    BY ChildrenInit
  <1>2. Typed /\ [CNext]_vars => Typed'
    BY ChildrenNext DEF StepOK
  <1>3. Typed => CTypeOK
    BY DEF Typed
  <1>4. QED
    BY <1>1, <1>2, <1>3, PTL DEF CSpec

\* No zombie goes unnoticed: whatever handler is under way, and across the restarts that
\* recover, SIGCHLD is pending or the source of sigchld_dispatch will look again; a start
\* that clears the records forgets the zombies it finds, and no others.
THEOREM ZombiesAreNoticed == CSpec => []ZombieNoticed
  <1>1. CInit => Typed /\ ZombieNoticed
    BY ChildrenInit
  <1>2. Typed /\ ZombieNoticed /\ [CNext]_vars => (Typed /\ ZombieNoticed)'
    BY ChildrenNext DEF StepOK
  <1>3. QED
    BY <1>1, <1>2, PTL DEF CSpec

-----------------------------------------------------------------------------
(* No exit is lost.  A process with a committed watch is still watched, or *)
(* its unit was told and that is committed too; the records say the same,  *)
(* so that it is true again after a crash.                                 *)

\* A watched process is in the record of its unit.
InRecord == \A p \in Pid : mem.watch[p] # None => p \in mem.pids[mem.watch[p]]
\* What was committed is not forgotten, and the unit is told before its watch is given up.
ToldKept == disk.told \subseteq mem.told
ToldFirst == pc.at = "unwatch" \/ pc.back => pc.p \in mem.told
\* In memory, in the records, and in the hands of the handler that reaps.
KeptWatched == \A p \in Pid : proc[p].kept => mem.watch[p] # None \/ p \in disk.told
KeptRecorded == \A p \in Pid : proc[p].kept => p \in disk.told \/ \E u \in Unit : p \in disk.pids[u]
ReapedTold == pc.at = "reap" /\ proc[pc.p].kept => pc.p \in disk.told

ToldInv == InRecord /\ ToldKept /\ ToldFirst /\ KeptWatched /\ KeptRecorded /\ ReapedTold

\* The step of ExitTold.
ToldStep == \A p \in Pid : proc[p].st = "zombie" /\ proc'[p].st = "free" /\ proc[p].kept => p \in disk.told

\* No process gets a committed watch, and none that waits is reaped.
Quiet ==
  /\ \A p \in Pid : proc'[p].kept => proc[p].kept
  /\ \A p \in Pid : proc[p].st = "zombie" => proc'[p].st # "free"

LEMMA EndsQuiet ==
  ASSUME proc \in [Pid -> Process], NEW S \in SUBSET Pid, \A p \in S : Running(p), proc' = ends(proc, S)
  PROVE  Quiet
  <1> SUFFICES ASSUME NEW p \in Pid
               PROVE  /\ proc'[p].kept => proc[p].kept
                      /\ proc[p].st = "zombie" => proc'[p].st # "free"
    BY DEF Quiet
  <1>1. proc[p] \in Process
    OBVIOUS
  <1>2. \/ proc'[p] = [proc[p] EXCEPT !.st = "zombie"]
        \/ proc'[p] = Free /\ p \in S
        \/ proc'[p] = [proc[p] EXCEPT !.parent = None]
        \/ proc'[p] = proc[p]
    BY DEF ends
  <1>3. CASE proc'[p] = [proc[p] EXCEPT !.st = "zombie"]
    <2>1. proc'[p].st = "zombie"
      BY <1>1, <1>3 DEF Process
    <2>2. proc'[p].kept = proc[p].kept
      BY <1>1, <1>3 DEF Process
    <2>3. QED
      BY <2>1, <2>2
  <1>4. CASE proc'[p] = Free /\ p \in S
    BY <1>4 DEF Free, Running
  <1>5. CASE proc'[p] = [proc[p] EXCEPT !.parent = None]
    <2>1. proc'[p].st = proc[p].st
      BY <1>1, <1>5 DEF Process
    <2>2. proc'[p].kept = proc[p].kept
      BY <1>1, <1>5 DEF Process
    <2>3. QED
      BY <2>1, <2>2
  <1>6. CASE proc'[p] = proc[p]
    BY <1>6
  <1>7. QED
    BY <1>2, <1>3, <1>4, <1>5, <1>6

LEMMA ForkQuiet ==
  ASSUME CTypeOK, NEW q \in Pid, NEW cg, NEW parent, fork(q, cg, parent)
  PROVE  Quiet
  <1> DEFINE new == [Free EXCEPT !.st = "run", !.cg = cg, !.parent = parent]
  <1>1. ~ new.kept
    BY DEF Free
  <1>2. proc' = [proc EXCEPT ![q] = new] /\ proc[q].st = "free" /\ proc \in [Pid -> Process]
    BY DEF fork, CTypeOK
  <1> HIDE DEF new
  <1>3. proc'[q] = new /\ \A p \in Pid : p # q => proc'[p] = proc[p]
    BY <1>2
  <1>4. QED
    BY <1>1, <1>2, <1>3 DEF Quiet

\* A step that leaves the tables alone.
LEMMA QuietStep ==
  ASSUME Typed, ToldInv, Quiet, UNCHANGED <<mem, disk>>,
         pc'.at = "reap" => \/ pc.at = "reap" /\ pc'.p = pc.p /\ pc.p \in Pid
                            \/ pc'.p \in Pid /\ mem.watch[pc'.p] = None,
         pc'.at = "unwatch" \/ pc'.back => pc'.p \in mem.told
  PROVE  ToldInv' /\ ToldStep
  <1>0. InRecord /\ ToldKept /\ ToldFirst /\ KeptWatched /\ KeptRecorded /\ ReapedTold
    BY DEF ToldInv
  <1>1. InRecord' /\ ToldKept' /\ ToldFirst'
    BY <1>0 DEF InRecord, ToldKept, ToldFirst
  <1>2. KeptWatched' /\ KeptRecorded'
    BY <1>0 DEF KeptWatched, KeptRecorded, Quiet
  <1>3. ReapedTold'
    BY <1>0 DEF ReapedTold, KeptWatched, Quiet
  <1>4. QED
    BY <1>1, <1>2, <1>3 DEF ToldInv, ToldStep, Quiet

LEMMA ToldOfProcesses ==
  ASSUME Typed, ToldInv, ProcFork \/ ProcExit \/ ProcNotify
  PROVE  ToldInv' /\ ToldStep
  <1>0. ToldFirst /\ proc \in [Pid -> Process] /\ (pc.at = "reap" => pc.p \in Pid)
    BY DEF ToldInv, Typed, CTypeOK, Placed
  <1>1. UNCHANGED <<mem, disk, pc>>
    BY DEF ProcFork, ProcExit, ProcNotify
  <1>2. Quiet
    <2>1. CASE ProcFork
      BY <2>1, ForkQuiet DEF ProcFork, Typed
    <2>2. CASE ProcExit
      <3>1. PICK p \in Pid : Running(p) /\ proc' = ends(proc, {p})
        BY <2>2 DEF ProcExit
      <3>2. QED
        BY <1>0, <3>1, EndsQuiet
    <2>3. CASE ProcNotify
      <3>1. PICK p \in Pid : proc' = [proc EXCEPT ![p].sent = TRUE]
        BY <2>3 DEF ProcNotify
      <3>2. [proc[p] EXCEPT !.sent = TRUE].st = proc[p].st
        BY <1>0 DEF Process
      <3>3. [proc[p] EXCEPT !.sent = TRUE].kept = proc[p].kept
        BY <1>0 DEF Process
      <3>4. proc' = [proc EXCEPT ![p] = [proc[p] EXCEPT !.sent = TRUE]]
        BY <3>1
      <3>5. QED
        BY <1>0, <3>2, <3>3, <3>4 DEF Quiet
    <2>4. QED
      BY <2>1, <2>2, <2>3
  <1>3. QED
    BY <1>0, <1>1, <1>2, QuietStep DEF ToldFirst

\* A handler that starts with a fork.
LEMMA ToldOfSpawn ==
  ASSUME Typed, ToldInv, NEW u \in Unit, NEW at \in Handler, at.back => at.p \in mem.told, Spawn(u, at)
  PROVE  ToldInv' /\ ToldStep
  <1>1. PICK q \in Pid : fork(q, None, None) /\ pc' = [at EXCEPT !.at = "attach", !.u = u, !.new = q]
    BY DEF Spawn
  <1>2. UNCHANGED <<mem, disk>>
    BY DEF Spawn
  <1>3. Quiet
    BY <1>1, ForkQuiet DEF Typed
  <1>4. pc'.at = "attach" /\ pc'.p = at.p
    BY <1>1 DEF Handler
  <1>5. pc'.back = at.back
    BY <1>1 DEF Handler
  <1>6. QED
    BY <1>2, <1>3, <1>4, <1>5, QuietStep

LEMMA ToldOfCommands ==
  ASSUME Typed, ToldInv, StartCall \/ NextCommand
  PROVE  ToldInv' /\ ToldStep
  <1>1. CASE StartCall
    BY <1>1, RestOK, ToldOfSpawn DEF StartCall
  <1>2. CASE NextCommand
    <2> DEFINE at == [pc EXCEPT !.back = TRUE]
    <2>1. at \in Handler /\ at.p = pc.p /\ pc.u \in Unit /\ pc.at = "unwatch"
      BY <1>2 DEF NextCommand, Typed, CTypeOK, Placed, Handler
    <2>2. Spawn(pc.u, at) /\ pc.p \in mem.told
      BY <1>2, <2>1 DEF NextCommand, ToldInv, ToldFirst
    <2> HIDE DEF at
    <2>3. QED
      BY <2>1, <2>2, ToldOfSpawn
  <1>3. QED
    BY <1>1, <1>2

\* The steps that only look, and the kill of one process.
LEMMA ToldOfLooks ==
  ASSUME Typed, ToldInv, SignalDispatch \/ Peek \/ TurnOff \/ NotifyPop
  PROVE  ToldInv' /\ ToldStep
  <1>1. UNCHANGED <<proc, mem, disk>>
    BY DEF SignalDispatch, Peek, TurnOff, NotifyPop
  <1>2. Quiet
    BY <1>1 DEF Quiet
  <1>3. pc.at \in {"idle", "off"} /\ (pc.back => pc.p \in mem.told)
    BY DEF SignalDispatch, Peek, TurnOff, NotifyPop, ToldInv, ToldFirst
  <1>4. CASE pc' = pc
    BY <1>1, <1>2, <1>3, <1>4, QuietStep
  <1>5. ASSUME NEW at \in {"exit", "popped", "reap"}, NEW u \in Unit \cup {None}, NEW p \in Pid,
               at = "reap" => mem.watch[p] = None, pc' = [Rest EXCEPT !.at = at, !.u = u, !.p = p]
        PROVE  ToldInv' /\ ToldStep
    <2>1. pc'.at = at /\ pc'.p = p
      BY <1>5, RestOK DEF Handler
    <2>2. ~ pc'.back
      BY <1>5, RestOK DEF Handler
    <2>3. QED
      BY <1>1, <1>2, <1>5, <2>1, <2>2, QuietStep
  <1>6. ASSUME NEW at \in {"idle", "off"}, pc' = [Rest EXCEPT !.at = at]
        PROVE  ToldInv' /\ ToldStep
    <2>1. pc'.at = at
      BY <1>6, RestOK DEF Handler
    <2>2. ~ pc'.back
      BY <1>6, RestOK DEF Handler
    <2>3. QED
      BY <1>1, <1>2, <2>1, <2>2, QuietStep
  <1>7. CASE SignalDispatch
    BY <1>4, <1>7 DEF SignalDispatch
  <1>8. CASE TurnOff
    <2>1. pc' = [Rest EXCEPT !.at = "idle"]
      BY <1>8, RestOK DEF TurnOff, Handler
    <2>2. QED
      BY <1>6, <2>1
  <1>9. CASE Peek
    <2>1. CASE pc' = [Rest EXCEPT !.at = "off"]
      BY <1>6, <2>1
    <2>2. ASSUME NEW p \in Zombies,
                 pc' = [Rest EXCEPT !.at = IF mem.watch[p] = None THEN "reap" ELSE "exit",
                                    !.u = mem.watch[p], !.p = p]
          PROVE  ToldInv' /\ ToldStep
      <3>1. p \in Pid /\ mem.watch[p] \in Unit \cup {None}
        BY DEF Zombies, Typed, CTypeOK, Held
      <3>2. QED
        BY <1>5, <2>2, <3>1
    <2>3. QED
      BY <1>9, <2>1, <2>2 DEF Peek
  <1>10. CASE NotifyPop
    <2>1. Head(queue) \in Pid
      BY <1>10 DEF NotifyPop, Typed, CTypeOK
    <2>2. mem.watch[Head(queue)] \in Unit \cup {None}
      BY <2>1 DEF Typed, CTypeOK, Held
    <2>3. pc' = pc \/ pc' = [Rest EXCEPT !.at = "popped", !.u = mem.watch[Head(queue)], !.p = Head(queue)]
      BY <1>10 DEF NotifyPop, notify_peek_pid
    <2>4. QED
      BY <1>4, <1>5, <2>1, <2>2, <2>3
  <1>11. QED
    BY <1>7, <1>8, <1>9, <1>10

LEMMA ToldOfKillOne ==
  ASSUME Typed, ToldInv, KillOne
  PROVE  ToldInv' /\ ToldStep
  <1> DEFINE p == Head(pc.todo)
  <1>1. pc.at = "kill" /\ pc.todo # <<>> /\ UNCHANGED <<mem, disk>>
    BY DEF KillOne
  <1>2. pc \in Handler /\ pc.todo \in Seq(Pid) /\ (pc.back => pc.p \in mem.told) /\ proc \in [Pid -> Process]
    BY DEF Typed, CTypeOK, Handler, ToldInv, ToldFirst
  <1>3. p \in Pid
    BY <1>1, <1>2
  <1>4. \/ pc' = [pc EXCEPT !.todo = <<>>] /\ proc' = proc
        \/ /\ pc' = [pc EXCEPT !.todo = Tail(@)]
           /\ proc' = ends(proc, IF Running(p) THEN {p} ELSE {})
    BY DEF KillOne
  <1> HIDE DEF p
  <1>5. Quiet
    <2>1. CASE proc' = proc
      BY <2>1 DEF Quiet
    <2>2. CASE proc' = ends(proc, IF Running(p) THEN {p} ELSE {})
      BY <1>2, <1>3, <2>2, EndsQuiet
    <2>3. QED
      BY <1>4, <2>1, <2>2
  <1>6. pc'.at = "kill" /\ pc'.p = pc.p
    BY <1>1, <1>2, <1>4 DEF Handler
  <1>7. pc'.back = pc.back
    BY <1>2, <1>4 DEF Handler
  <1>8. QED
    BY <1>1, <1>2, <1>5, <1>6, <1>7, QuietStep

-----------------------------------------------------------------------------
\* A step in memory: no watch of a kept process is given up.
LEMMA InMemory ==
  ASSUME ToldInv, disk' = disk, InRecord', ToldFirst', disk.told \subseteq mem'.told, pc'.at # "reap",
         \A p \in Pid : proc[p].st = "zombie" => proc'[p].st # "free",
         \A p \in Pid : proc'[p].kept => proc[p].kept /\ (mem.watch[p] # None => mem'.watch[p] # None)
  PROVE  ToldInv' /\ ToldStep
  BY DEF ToldInv, ToldKept, KeptWatched, KeptRecorded, ReapedTold, ToldStep

\* A step that commits.
LEMMA Committed ==
  ASSUME mem' = disk', InRecord', ~ pc'.back, pc'.at # "unwatch", mem' \in Held,
         pc'.at = "reap" => pc'.p \in mem'.told,
         \A p \in Pid : proc[p].st = "zombie" => proc'[p].st # "free",
         \A p \in Pid : proc'[p].kept => mem'.watch[p] # None \/ p \in mem'.told
  PROVE  ToldInv' /\ ToldStep
  <1>1. \A p \in Pid : mem'.watch[p] \in Unit \cup {None}
    BY DEF Held
  <1>2. ToldKept' /\ ToldFirst' /\ KeptWatched' /\ ReapedTold' /\ ToldStep
    BY DEF ToldKept, ToldFirst, KeptWatched, ReapedTold, ToldStep
  <1>3. KeptRecorded'
    BY <1>1 DEF KeptRecorded, InRecord
  <1>4. QED
    BY <1>2, <1>3 DEF ToldInv

\* commit marks the watched processes only.
LEMMA CommitKeeps ==
  ASSUME NEW P \in [Pid -> Process], NEW h, commit(P, h)
  PROVE  /\ disk' = h
         /\ \A p \in Pid : proc'[p].st = P[p].st /\ (proc'[p].kept => P[p].kept \/ h.watch[p] # None)
  <1>1. disk' = h
    BY DEF commit
  <1>2. ASSUME NEW p \in Pid
        PROVE  proc'[p].st = P[p].st /\ (proc'[p].kept => P[p].kept \/ h.watch[p] # None)
    <2> DEFINE k == P[p].kept \/ (P[p].st # "free" /\ h.watch[p] # None)
    <2>1. proc'[p] = [P[p] EXCEPT !.kept = k] /\ P[p] \in Process
      BY DEF commit
    <2>2. proc'[p].kept = k
      BY <2>1 DEF Process
    <2>3. proc'[p].st = P[p].st
      BY <2>1 DEF Process
    <2>4. QED
      BY <2>2, <2>3
  <1>3. QED
    BY <1>1, <1>2

\* What the operations on the table make of the watches.
LEMMA WatchTold ==
  ASSUME NEW h \in Held, NEW u \in Unit, NEW p \in Pid,
         \A q \in Pid : h.watch[q] # None => q \in h.pids[h.watch[q]]
  PROVE  /\ LET a == add_watch_pid(h, u, p)
            IN  /\ \A q \in Pid : a.watch[q] # None => q \in a.pids[a.watch[q]]
                /\ \A q \in Pid : q # p => a.watch[q] = h.watch[q]
                /\ a.watch[p] = u /\ a.told = h.told
         /\ LET a == unwatch_pid(h, u, p)
            IN  /\ \A q \in Pid : a.watch[q] # None => q \in a.pids[a.watch[q]]
                /\ \A q \in Pid : q # p => a.watch[q] = h.watch[q]
                /\ a.told = h.told
  <1>1. h.watch \in [Pid -> Unit \cup {None}] /\ h.pids \in [Unit -> SUBSET Pid] /\ None \notin Unit
    BY ChildrenAssumption DEF Held
  <1>2. /\ add_watch_pid(h, u, p).watch = [h.watch EXCEPT ![p] = u]
        /\ add_watch_pid(h, u, p).pids = [h.pids EXCEPT ![u] = @ \cup {p}]
        /\ add_watch_pid(h, u, p).told = h.told
    BY DEF add_watch_pid, Held
  <1>3. /\ unwatch_pid(h, u, p).watch = [h.watch EXCEPT ![p] = None]
        /\ unwatch_pid(h, u, p).pids = [h.pids EXCEPT ![u] = @ \ {p}]
        /\ unwatch_pid(h, u, p).told = h.told
    BY DEF unwatch_pid, Held
  <1> DEFINE a == add_watch_pid(h, u, p)
             b == unwatch_pid(h, u, p)
  <1>4. a.watch = [h.watch EXCEPT ![p] = u] /\ a.pids = [h.pids EXCEPT ![u] = @ \cup {p}] /\ a.told = h.told
    BY <1>2
  <1>5. b.watch = [h.watch EXCEPT ![p] = None] /\ b.pids = [h.pids EXCEPT ![u] = @ \ {p}] /\ b.told = h.told
    BY <1>3
  <1> HIDE DEF a, b
  <1>6. /\ \A q \in Pid : a.watch[q] # None => q \in a.pids[a.watch[q]]
        /\ \A q \in Pid : q # p => a.watch[q] = h.watch[q]
        /\ a.watch[p] = u
    BY <1>1, <1>4
  <1>7. /\ \A q \in Pid : b.watch[q] # None => q \in b.pids[b.watch[q]]
        /\ \A q \in Pid : q # p => b.watch[q] = h.watch[q]
    BY <1>1, <1>5
  <1>8. QED
    BY <1>4, <1>5, <1>6, <1>7 DEF a, b

LEMMA ToldOfExit ==
  ASSUME Typed, ToldInv, SigchldEvents
  PROVE  ToldInv' /\ ToldStep
  <1>1. /\ pc.at = "exit" /\ UNCHANGED <<proc, disk>> /\ pc' = [pc EXCEPT !.at = "unwatch"]
        /\ mem \in Held /\ pc \in Handler /\ InRecord /\ ToldKept
    BY DEF SigchldEvents, Typed, CTypeOK, ToldInv
  <1>2. mem'.told = mem.told \cup {pc.p} /\ mem'.watch = mem.watch /\ mem'.pids = mem.pids
    BY <1>1 DEF SigchldEvents, Held
  <1>3. pc'.at = "unwatch" /\ pc'.p = pc.p
    BY <1>1 DEF Handler
  <1>4. InRecord' /\ ToldFirst' /\ disk.told \subseteq mem'.told
    BY <1>1, <1>2, <1>3 DEF InRecord, ToldFirst, ToldKept
  <1>5. QED
    BY <1>1, <1>2, <1>3, <1>4, InMemory

LEMMA ToldOfKill ==
  ASSUME Typed, ToldInv, NEW u \in Unit, NEW at \in Handler, at.back => at.p \in mem.told, kill_context(u, at)
  PROVE  ToldInv' /\ ToldStep
  <1> DEFINE m == mem.main[u]
             dead == IF m # None /\ Running(m) THEN {m} ELSE {}
  <1>0. mem \in Held /\ proc \in [Pid -> Process] /\ InRecord /\ ToldKept
    BY DEF Typed, CTypeOK, ToldInv
  <1>1. dead \in SUBSET Pid /\ \A q \in dead : Running(q)
    BY <1>0 DEF Held
  <1>2. /\ mem' = child_watch_all_pids(mem, u) /\ proc' = ends(proc, dead) /\ disk' = disk
        /\ \E s \in SetToSeqs(InCgroup(u) \ {m}) : pc' = [at EXCEPT !.at = "kill", !.u = u, !.todo = s]
    BY DEF kill_context
  <1> HIDE DEF m, dead
  <1>3. Quiet
    BY <1>0, <1>1, <1>2, EndsQuiet
  <1>4. PICK s \in SetToSeqs(InCgroup(u) \ {m}) : pc' = [at EXCEPT !.at = "kill", !.u = u, !.todo = s]
    BY <1>2
  <1>5. pc'.at = "kill" /\ pc'.p = at.p
    BY <1>4 DEF Handler
  <1>6. pc'.back = at.back
    BY <1>4 DEF Handler
  <1>7. /\ mem'.watch = [p \in Pid |-> IF p \in InCgroup(u) THEN u ELSE mem.watch[p]]
        /\ mem'.pids = [mem.pids EXCEPT ![u] = @ \cup InCgroup(u)]
        /\ mem'.told = mem.told
    BY <1>0, <1>2 DEF child_watch_all_pids, Held
  <1>8. InRecord'
    <2>1. mem.watch \in [Pid -> Unit \cup {None}] /\ mem.pids \in [Unit -> SUBSET Pid] /\ None \notin Unit
      BY <1>0, ChildrenAssumption DEF Held
    <2>2. QED
      BY <1>0, <1>7, <2>1 DEF InRecord
  <1>9. \A p \in Pid : mem.watch[p] # None => mem'.watch[p] # None
    BY <1>7, ChildrenAssumption
  <1>10. ToldFirst' /\ disk.told \subseteq mem'.told
    BY <1>0, <1>5, <1>6, <1>7 DEF ToldFirst, ToldKept
  <1>11. QED
    BY <1>2, <1>3, <1>5, <1>8, <1>9, <1>10, InMemory DEF Quiet

LEMMA ToldOfStops ==
  ASSUME Typed, ToldInv, StopCall \/ StopOnExit
  PROVE  ToldInv' /\ ToldStep
  <1>1. CASE StopCall
    BY <1>1, RestOK, ToldOfKill DEF StopCall
  <1>2. CASE StopOnExit
    <2> DEFINE at == [pc EXCEPT !.back = TRUE]
    <2>1. at \in Handler /\ at.p = pc.p /\ pc.u \in Unit /\ pc.at = "unwatch"
      BY <1>2 DEF StopOnExit, Typed, CTypeOK, Placed, Handler
    <2>2. kill_context(pc.u, at) /\ pc.p \in mem.told
      BY <1>2, <2>1 DEF StopOnExit, ToldInv, ToldFirst
    <2> HIDE DEF at
    <2>3. QED
      BY <2>1, <2>2, ToldOfKill
  <1>3. QED
    BY <1>1, <1>2

\* The end of a spawn: a new process has a committed watch when the handler commits.
LEMMA ToldOfResume ==
  ASSUME Typed, ToldInv, NEW h \in Held, pc.at = "attach", mem' = h, Resume(h),
         \A p \in Pid : h.watch[p] # None => p \in h.pids[h.watch[p]],
         \A p \in Pid : mem.watch[p] # None => h.watch[p] # None, h.told = mem.told,
         \A p \in Pid : proc[p].st = "zombie" => proc'[p].st # "free",
         \A p \in Pid : proc'[p].kept => proc[p].kept \/ (~ pc.back /\ h.watch[p] # None)
  PROVE  ToldInv' /\ ToldStep
  <1>0. pc \in Handler /\ ToldFirst /\ ToldKept /\ KeptWatched
    BY DEF Typed, CTypeOK, ToldInv
  <1>1. InRecord'
    BY DEF InRecord
  <1>2. CASE pc.back
    <2>1. pc' = [pc EXCEPT !.at = "unwatch", !.new = None, !.todo = <<>>] /\ disk' = disk
      BY <1>2 DEF Resume
    <2>2. pc'.at = "unwatch" /\ pc'.p = pc.p
      BY <1>0, <2>1 DEF Handler
    <2>3. ToldFirst' /\ disk.told \subseteq mem'.told
      BY <1>0, <1>2, <2>2 DEF ToldFirst, ToldKept
    <2>4. QED
      BY <1>1, <1>2, <2>1, <2>2, <2>3, InMemory
  <1>3. CASE ~ pc.back
    <2>1. pc' = Rest /\ disk' = h
      BY <1>3 DEF Resume
    <2>2. \A p \in Pid : proc'[p].kept => mem'.watch[p] # None \/ p \in mem'.told
      BY <1>0 DEF KeptWatched, ToldKept
    <2>3. QED
      BY <1>1, <2>1, <2>2, RestOK, Committed
  <1>4. QED
    BY <1>2, <1>3

LEMMA ToldOfAttach ==
  ASSUME Typed, ToldInv, Attached \/ AttachFails
  PROVE  ToldInv' /\ ToldStep
  <1>0. /\ mem \in Held /\ pc \in Handler /\ proc \in [Pid -> Process] /\ pc.at = "attach"
        /\ pc.u \in Unit /\ pc.new \in Pid /\ InRecord
    BY DEF Attached, AttachFails, Typed, CTypeOK, Placed, ToldInv
  <1>1. \A p \in Pid : mem.watch[p] # None => p \in mem.pids[mem.watch[p]]
    BY <1>0 DEF InRecord
  <1>2. CASE AttachFails
    <2>1. Resume(mem) /\ UNCHANGED <<proc, mem>>
      BY <1>2 DEF AttachFails
    <2>2. QED
      BY <1>0, <1>1, <2>1, ToldOfResume
  <1>3. CASE Attached
    <2> DEFINE a == add_watch_pid(mem, pc.u, pc.new)
               h == [a EXCEPT !.main[pc.u] = pc.new, !.ready = @ \ {pc.u}]
               cg == IF Running(pc.new) THEN pc.u ELSE proc[pc.new].cg
               k == ~ pc.back
               new == [proc[pc.new] EXCEPT !.cg = cg, !.kept = k]
    <2>1. mem' = h /\ Resume(h)
      BY <1>3 DEF Attached
    <2>2. a \in Held
      BY <1>0, WatchOK
    <2>3. /\ \A q \in Pid : a.watch[q] # None => q \in a.pids[a.watch[q]]
          /\ \A q \in Pid : q # pc.new => a.watch[q] = mem.watch[q]
          /\ a.watch[pc.new] = pc.u /\ a.told = mem.told
      BY <1>0, <1>1, WatchTold
    <2>4. proc' = [proc EXCEPT ![pc.new] = new]
      BY <1>3 DEF Attached
    <2>5. new.st = proc[pc.new].st
      BY <1>0 DEF Process
    <2>6. new.kept = k
      BY <1>0 DEF Process
    <2> HIDE DEF a, new
    <2>7. h \in Held /\ h.watch = a.watch /\ h.pids = a.pids /\ h.told = a.told
      BY <1>0, <2>2 DEF Held
    <2> HIDE DEF h
    <2>8. proc'[pc.new] = new /\ \A p \in Pid : p # pc.new => proc'[p] = proc[p]
      BY <1>0, <2>4
    <2>9. /\ \A p \in Pid : h.watch[p] # None => p \in h.pids[h.watch[p]]
          /\ \A p \in Pid : mem.watch[p] # None => h.watch[p] # None
          /\ h.told = mem.told /\ h.watch[pc.new] # None
      BY <1>0, <2>3, <2>7, ChildrenAssumption
    <2>10. \A p \in Pid : proc[p].st = "zombie" => proc'[p].st # "free"
      BY <2>5, <2>8
    <2>11. \A p \in Pid : proc'[p].kept => proc[p].kept \/ (~ pc.back /\ h.watch[p] # None)
      BY <2>6, <2>8, <2>9
    <2>12. QED
      BY <1>0, <2>1, <2>7, <2>9, <2>10, <2>11, ToldOfResume
  <1>4. QED
    BY <1>2, <1>3

LEMMA ToldOfUnwatch ==
  ASSUME Typed, ToldInv, Unwatch
  PROVE  ToldInv' /\ ToldStep
  <1> DEFINE h == unwatch_pid(mem, pc.u, pc.p)
  <1>0. /\ mem \in Held /\ pc \in Handler /\ proc \in [Pid -> Process] /\ pc.at = "unwatch"
        /\ pc.u \in Unit /\ pc.p \in Pid /\ InRecord /\ ToldKept /\ KeptWatched /\ pc.p \in mem.told
    BY DEF Unwatch, Typed, CTypeOK, Placed, ToldInv, ToldFirst
  <1>1. mem' = h /\ commit(proc, h) /\ pc' = [Rest EXCEPT !.at = "reap", !.p = pc.p]
    BY DEF Unwatch
  <1>2. /\ h \in Held /\ h.told = mem.told
        /\ \A q \in Pid : h.watch[q] # None => q \in h.pids[h.watch[q]]
        /\ \A q \in Pid : q # pc.p => h.watch[q] = mem.watch[q]
    BY <1>0, WatchOK, WatchTold DEF InRecord
  <1> HIDE DEF h
  <1>3. disk' = h /\ \A p \in Pid : proc'[p].st = proc[p].st /\ (proc'[p].kept => proc[p].kept \/ h.watch[p] # None)
    BY <1>0, <1>1, CommitKeeps
  <1>4. pc'.at = "reap" /\ pc'.p = pc.p
    BY <1>1, RestOK DEF Handler
  <1>5. ~ pc'.back
    BY <1>1, RestOK DEF Handler
  <1>6. \A p \in Pid : proc'[p].kept => mem'.watch[p] # None \/ p \in mem'.told
    BY <1>0, <1>1, <1>2, <1>3 DEF KeptWatched, ToldKept
  <1>7. InRecord'
    BY <1>1, <1>2 DEF InRecord
  <1>8. QED
    BY <1>0, <1>1, <1>2, <1>3, <1>4, <1>5, <1>6, <1>7, Committed

LEMMA ToldOfMessage ==
  ASSUME Typed, ToldInv, NotifyMessage
  PROVE  ToldInv' /\ ToldStep
  <1>0. /\ mem \in Held /\ proc \in [Pid -> Process] /\ InRecord /\ ToldKept /\ KeptWatched
        /\ pc.at = "popped" /\ pc.u \in Unit
    BY DEF NotifyMessage, Typed, CTypeOK, Placed, ToldInv
  <1>1. commit(proc, mem') /\ pc' = Rest
    BY DEF NotifyMessage
  <1>2. mem' \in Held /\ mem'.watch = mem.watch /\ mem'.pids = mem.pids /\ mem'.told = mem.told
    BY <1>0 DEF NotifyMessage, Held
  <1>3. /\ disk' = mem'
        /\ \A p \in Pid : proc'[p].st = proc[p].st /\ (proc'[p].kept => proc[p].kept \/ mem'.watch[p] # None)
    BY <1>0, <1>1, CommitKeeps
  <1>4. \A p \in Pid : proc'[p].kept => mem'.watch[p] # None \/ p \in mem'.told
    BY <1>0, <1>2, <1>3 DEF KeptWatched, ToldKept
  <1>5. InRecord'
    BY <1>0, <1>2 DEF InRecord
  <1>6. QED
    BY <1>1, <1>2, <1>3, <1>4, <1>5, RestOK, Committed

LEMMA ToldOfKillDone ==
  ASSUME Typed, ToldInv, KillDone
  PROVE  ToldInv' /\ ToldStep
  <1> DEFINE m == mem.main[pc.u]
             h == IF m = None THEN mem
                  ELSE [unwatch_pid(mem, pc.u, m) EXCEPT !.main[pc.u] = None, !.ready = @ \ {pc.u}]
             given == IF m = None THEN proc ELSE [proc EXCEPT ![m].kept = FALSE]
  <1>0. /\ mem \in Held /\ pc \in Handler /\ proc \in [Pid -> Process] /\ pc.at = "kill"
        /\ pc.u \in Unit /\ InRecord /\ ToldKept /\ KeptWatched /\ (pc.back => pc.p \in mem.told)
    BY DEF KillDone, Typed, CTypeOK, Placed, ToldInv, ToldFirst
  <1>1. /\ mem' = h
        /\ IF pc.back THEN pc' = [pc EXCEPT !.at = "unwatch"] /\ proc' = given /\ UNCHANGED disk
                      ELSE pc' = Rest /\ commit(given, h)
    BY DEF KillDone
  <1>2. m \in Pid \cup {None}
    BY <1>0 DEF Held
  <1>3. /\ h \in Held /\ h.told = mem.told
        /\ \A q \in Pid : h.watch[q] # None => q \in h.pids[h.watch[q]]
        /\ \A q \in Pid : q # m => h.watch[q] = mem.watch[q]
    <2>1. CASE m = None
      BY <1>0, <2>1 DEF InRecord
    <2>2. CASE m # None
      <3> DEFINE b == unwatch_pid(mem, pc.u, m)
      <3>1. /\ b \in Held /\ b.told = mem.told
            /\ \A q \in Pid : b.watch[q] # None => q \in b.pids[b.watch[q]]
            /\ \A q \in Pid : q # m => b.watch[q] = mem.watch[q]
        BY <1>0, <1>2, <2>2, WatchOK, WatchTold DEF InRecord
      <3>2. h = [b EXCEPT !.main[pc.u] = None, !.ready = @ \ {pc.u}]
        BY <2>2
      <3> HIDE DEF b, h
      <3>3. h \in Held /\ h.watch = b.watch /\ h.pids = b.pids /\ h.told = b.told
        BY <1>0, <3>1, <3>2 DEF Held
      <3>4. QED
        BY <3>1, <3>3
    <2>3. QED
      BY <2>1, <2>2
  <1>4. /\ given \in [Pid -> Process]
        /\ \A q \in Pid : given[q].st = proc[q].st /\ (given[q].kept => proc[q].kept /\ q # m)
    <2>1. CASE m = None
      BY <1>0, <2>1, ChildrenAssumption
    <2>2. CASE m # None
      <3> DEFINE r == [proc[m] EXCEPT !.kept = FALSE]
      <3>1. r \in Process /\ r.st = proc[m].st
        BY <1>0, <1>2, <2>2 DEF Process
      <3>2. ~ r.kept
        BY <1>0, <1>2, <2>2 DEF Process
      <3>3. given = [proc EXCEPT ![m] = r]
        BY <2>2
      <3> HIDE DEF r, given
      <3>4. QED
        BY <1>0, <1>2, <2>2, <3>1, <3>2, <3>3
    <2>3. QED
      BY <2>1, <2>2
  <1> HIDE DEF m, h, given
  <1>5. InRecord'
    BY <1>1, <1>3 DEF InRecord
  <1>6. CASE pc.back
    <2>1. pc' = [pc EXCEPT !.at = "unwatch"] /\ proc' = given /\ disk' = disk
      BY <1>1, <1>6
    <2>2. pc'.at = "unwatch" /\ pc'.p = pc.p
      BY <1>0, <2>1 DEF Handler
    <2>3. ToldFirst' /\ disk.told \subseteq mem'.told
      BY <1>0, <1>1, <1>3, <1>6, <2>2 DEF ToldFirst, ToldKept
    <2>4. QED
      BY <1>1, <1>3, <1>4, <1>5, <2>1, <2>2, <2>3, InMemory
  <1>7. CASE ~ pc.back
    <2>1. pc' = Rest /\ commit(given, h)
      BY <1>1, <1>7
    <2>2. /\ disk' = h
          /\ \A p \in Pid : proc'[p].st = given[p].st /\ (proc'[p].kept => given[p].kept \/ h.watch[p] # None)
      BY <1>4, <2>1, CommitKeeps
    <2>3. \A p \in Pid : proc'[p].kept => mem'.watch[p] # None \/ p \in mem'.told
      BY <1>0, <1>1, <1>3, <1>4, <2>2 DEF KeptWatched, ToldKept
    <2>4. QED
      BY <1>1, <1>3, <1>4, <1>5, <2>1, <2>2, <2>3, RestOK, Committed
  <1>8. QED
    BY <1>6, <1>7

\* The one step that reaps.
LEMMA ToldOfReap ==
  ASSUME Typed, ToldInv, Reap
  PROVE  ToldInv' /\ ToldStep
  <1>0. /\ mem \in Held /\ disk \in Held /\ proc \in [Pid -> Process] /\ pc.at = "reap" /\ pc.p \in Pid
        /\ InRecord /\ ToldKept /\ KeptWatched /\ KeptRecorded /\ ReapedTold
    BY DEF Reap, Typed, CTypeOK, Placed, ToldInv
  <1>1. /\ proc' = [proc EXCEPT ![pc.p] = Free] /\ mem' = [mem EXCEPT !.told = @ \ {pc.p}]
        /\ disk' = [disk EXCEPT !.told = @ \ {pc.p}] /\ pc' = Rest
    BY DEF Reap
  <1>2. ~ Free.kept
    BY DEF Free
  <1>3. proc'[pc.p] = Free /\ \A p \in Pid : p # pc.p => proc'[p] = proc[p]
    BY <1>0, <1>1
  <1>4. /\ mem'.told = mem.told \ {pc.p} /\ disk'.told = disk.told \ {pc.p}
        /\ mem'.watch = mem.watch /\ mem'.pids = mem.pids /\ disk'.pids = disk.pids
    BY <1>0, <1>1 DEF Held
  <1>5. ToldStep
    BY <1>0, <1>3 DEF ToldStep, ReapedTold
  <1>6. InRecord' /\ ToldKept' /\ ToldFirst' /\ ReapedTold'
    BY <1>0, <1>1, <1>4, RestOK DEF InRecord, ToldKept, ToldFirst, ReapedTold
  <1>7. KeptWatched' /\ KeptRecorded'
    BY <1>0, <1>2, <1>3, <1>4 DEF KeptWatched, KeptRecorded
  <1>8. QED
    BY <1>5, <1>6, <1>7 DEF ToldInv

\* The records say it again, or there are none and no watch is left.
LEMMA ToldOfCrash ==
  ASSUME Typed, ToldInv, Crash
  PROVE  ToldInv' /\ ToldStep
  <1>1. pc' = Rest /\ disk \in Held /\ KeptRecorded /\ (Recover \/ ClearedStart)
        /\ proc \in [Pid -> Process]
    BY DEF Crash, Typed, CTypeOK, ToldInv
  <1>2. CASE Recover
    <2>1. PICK w \in db_map(disk) : mem' = [disk EXCEPT !.watch = w]
      BY <1>2 DEF Recover
    <2>2. Quiet /\ UNCHANGED disk
      BY <1>1, <1>2, EndsQuiet DEF Recover, setup_cgroup
    <2>3. mem'.watch = w /\ mem'.pids = disk.pids /\ mem'.told = disk.told
      BY <1>1, <2>1 DEF Held
    <2>4. /\ \A p \in Pid : w[p] # None => p \in disk.pids[w[p]]
          /\ \A p \in Pid : (\E u \in Unit : p \in disk.pids[u]) => w[p] # None
      BY DEF db_map
    <2>5. InRecord'
      BY <2>3, <2>4 DEF InRecord
    <2>6. ToldKept' /\ ToldFirst' /\ ReapedTold'
      BY <1>1, <2>2, <2>3, RestOK DEF ToldKept, ToldFirst, ReapedTold
    <2>7. KeptRecorded' /\ ToldStep
      BY <1>1, <2>2 DEF KeptRecorded, ToldStep, Quiet
    <2>8. KeptWatched'
      <3>1. \A p \in Pid : proc[p].kept => w[p] # None \/ p \in disk.told
        BY <1>1, <2>4 DEF KeptRecorded
      <3>2. QED
        BY <2>2, <2>3, <3>1 DEF KeptWatched, Quiet
    <2>9. QED
      BY <2>5, <2>6, <2>7, <2>8 DEF ToldInv
  <1>3. CASE ClearedStart
    <2> DEFINE P == setup_cgroup
    <2>1. /\ mem'.watch = [p \in Pid |-> None] /\ mem'.told = {} /\ disk'.told = {}
          /\ proc' = [p \in Pid |-> [P[p] EXCEPT !.kept = FALSE, !.old = (P[p].st = "zombie")]]
      BY <1>3 DEF ClearedStart, Nothing
    <2>2. P \in [Pid -> Process]
      BY <1>1, EndsOK DEF setup_cgroup
    <2>3. \A p \in Pid : proc'[p].st = P[p].st /\ ~ proc'[p].kept
      BY <2>1, <2>2, ClearedOK
    <2>4. \A p \in Pid : proc[p].st = "zombie" => P[p].st # "free"
      <3> SUFFICES ASSUME NEW p \in Pid, proc[p].st = "zombie"
                   PROVE  P[p].st # "free"
        OBVIOUS
      <3>1. P[p] = [proc[p] EXCEPT !.parent = None] \/ P[p] = proc[p]
        BY DEF setup_cgroup, ends, Running
      <3>2. QED
        BY <1>1, <3>1 DEF Process
    <2> HIDE DEF P
    <2>5. ToldStep
      BY <2>3, <2>4 DEF ToldStep
    <2>6. InRecord' /\ ToldKept' /\ ToldFirst' /\ KeptWatched' /\ KeptRecorded' /\ ReapedTold'
      BY <1>1, <2>1, <2>3, RestOK DEF InRecord, ToldKept, ToldFirst, KeptWatched, KeptRecorded, ReapedTold
    <2>7. QED
      BY <2>5, <2>6 DEF ToldInv
  <1>4. QED
    BY <1>1, <1>2, <1>3

LEMMA ToldInit ==
  ASSUME CInit
  PROVE  ToldInv
  <1>1. /\ \A p \in Pid : ~ proc[p].kept /\ mem.watch[p] = None
        /\ mem.told = {} /\ disk.told = {} /\ pc = Rest
    BY DEF CInit, Free, Nothing
  <1>2. QED
    BY <1>1, RestOK DEF ToldInv, InRecord, ToldKept, ToldFirst, KeptWatched, KeptRecorded, ReapedTold

LEMMA ToldNext ==
  ASSUME Typed, ToldInv, [CNext]_vars
  PROVE  ToldInv' /\ ToldStep
  <1>1. CASE UNCHANGED vars
    <2>1. UNCHANGED <<proc, mem, disk, pc>>
      BY <1>1 DEF vars
    <2>2. QED
      BY <2>1 DEF ToldInv, InRecord, ToldKept, ToldFirst, KeptWatched, KeptRecorded, ReapedTold, ToldStep
  <1>2. QED
    BY <1>1, ToldOfProcesses, ToldOfCommands, ToldOfLooks, ToldOfKillOne, ToldOfExit, ToldOfStops,
       ToldOfAttach, ToldOfUnwatch, ToldOfMessage, ToldOfKillDone, ToldOfReap, ToldOfCrash
    DEF CNext, Environment, Handle

\* sigchld_dispatch loses no exit: in any order of exits, spawns, kills and messages, and
\* with a crash between any two steps of a handler, a process whose watch was committed is
\* reaped only when the records say that its unit was told.
THEOREM ExitsAreTold == CSpec => ExitTold
  <1>1. CInit => Typed /\ ToldInv
    BY ChildrenInit, ToldInit
  <1>2. Typed /\ ToldInv /\ [CNext]_vars => (Typed /\ ToldInv)'
    BY ChildrenNext, ToldNext DEF StepOK
  <1>3. Typed /\ ToldInv /\ [CNext]_vars
          => [\A p \in Pid : proc[p].st = "zombie" /\ proc'[p].st = "free" /\ proc[p].kept => p \in disk.told]_vars
    BY ToldNext DEF ToldStep
  <1>4. QED
    BY <1>1, <1>2, <1>3, PTL DEF CSpec, ExitTold
-----------------------------------------------------------------------------
(* The main process of a unit is its own, and is heard.  Both are said of a   *)
(* table h, once for the one in memory and once for the records, so that they *)
(* are true again after a crash.  L are the pids whose watch outlived them.   *)

\* What a table owns is there, in the cgroup of its unit, and of no other unit; a main
\* process is owned and a child of the manager.
Own(P, L, h) ==
  /\ \A p \in Pid \ L : \A u \in Unit : p \in h.pids[u] =>
       /\ P[p].st # "free" /\ (P[p].st = "run" => P[p].cg = u)
       /\ \A v \in Unit : p \in h.pids[v] => v = u
  /\ \A u \in Unit : h.main[u] # None /\ h.main[u] \notin L =>
       h.main[u] \in h.pids[u] /\ P[h.main[u]].parent = None

\* The unit of a main process that has sent READY=1 is ready, but for the messages that
\* are still in the socket, in hand (n), or lost in a crash (D).
Heard(P, D, n, h) ==
  \A u \in Unit : h.main[u] # None /\ h.main[u] \notin D /\ P[h.main[u]].sent
     => u \in h.ready \/ n = h.main[u]

Deaf == hist.leaked \cup hist.popped \cup ToSet(queue)
Pending == IF pc.at = "popped" THEN pc.p ELSE None

Watched == \A p \in Pid \ hist.leaked : \A u \in Unit : mem.watch[p] = u <=> p \in mem.pids[u]

\* Outside the handler of an exit and a kill the records say what memory says.
Synced ==
  pc.at \notin {"unwatch", "kill"} /\ ~ pc.back =>
    mem.main = disk.main /\ mem.pids = disk.pids /\ mem.ready = disk.ready

Unowned(p) == p \notin hist.leaked => \A u \in Unit : p \notin mem.pids[u] /\ p \notin disk.pids[u]

\* The processes in the hands of a handler.
NewInHand ==
  pc.at = "attach" =>
    /\ proc[pc.new].st # "free" /\ proc[pc.new].parent = None /\ Unowned(pc.new)
    /\ (pc.back => pc.new # pc.p) /\ (proc[pc.new].sent => pc.new \in ToSet(queue))
OldInHand ==
  /\ pc.back => pc.at \in {"unwatch", "attach", "kill"}
  /\ pc.at = "reap" => Unowned(pc.p)
  /\ pc.at \in {"exit", "unwatch"} \/ pc.back => proc[pc.p].st = "zombie"
  /\ (pc.at \in {"exit", "unwatch", "popped"} \/ pc.back) /\ pc.p \notin hist.leaked => mem.watch[pc.p] = pc.u
  /\ pc.at = "unwatch" \/ pc.back => mem.main[pc.u] # pc.p

OwnInv ==
  /\ Own(proc, hist.leaked, mem) /\ Own(proc, hist.leaked, disk)
  /\ Heard(proc, Deaf, Pending, mem) /\ Heard(proc, Deaf, Pending, disk)
  /\ Watched /\ Synced /\ NewInHand /\ OldInHand

\* A process goes on as what it was.
Goes(P, Q, p) ==
  /\ Q[p].st # "free" /\ (Q[p].st = "run" => P[p].st = "run" /\ Q[p].cg = P[p].cg)
  /\ P[p].parent = None => Q[p].parent = None
  /\ P[p].st = "zombie" => Q[p].st = "zombie"

LEMMA OwnMoves ==
  ASSUME NEW P, NEW Q, NEW L, NEW M, L \subseteq M, NEW h \in Held, Own(P, L, h),
         \A p \in Pid \ M : (\E u \in Unit : p \in h.pids[u]) => Goes(P, Q, p)
  PROVE  Own(Q, M, h)
  <1>1. h.main \in [Unit -> Pid \cup {None}]
    BY DEF Held
  <1>2. QED
    BY <1>1 DEF Own, Goes

LEMMA HeardMoves ==
  ASSUME NEW P, NEW Q, NEW L, NEW D, NEW E, NEW n, NEW k, NEW h \in Held, Own(P, L, h), Heard(P, D, n, h),
         L \subseteq E,
         \A p \in Pid \ E : (\E u \in Unit : p \in h.pids[u]) => p \notin D /\ (Q[p].sent => P[p].sent),
         n \in E \cup {None, k}
  PROVE  Heard(Q, E, k, h)
  <1>1. h.main \in [Unit -> Pid \cup {None}]
    BY DEF Held
  <1>2. QED
    BY <1>1 DEF Own, Heard

\* Only the manager's children, zombies and what is owned matter; the rest may go.
Owned(p) == \E u \in Unit : p \in mem.pids[u] \/ p \in disk.pids[u]
Steady ==
  /\ hist.leaked \subseteq hist'.leaked
  /\ \A p \in Pid : /\ proc[p].st # "free"
                    /\ proc[p].parent = None \/ proc[p].st = "zombie" \/ (p \notin hist'.leaked /\ Owned(p))
                    => Goes(proc, proc', p)
  /\ \A p \in Pid : proc[p].st # "free" /\ proc'[p].sent => proc[p].sent \/ p \in ToSet(queue')
  /\ ToSet(queue) \subseteq ToSet(queue')
  /\ \A p \in hist.popped : p \in hist'.popped \/ proc[p].st = "free"

\* What a steady step makes of the two tables as they are.
LEMMA SteadyTables ==
  ASSUME Typed, OwnInv, Steady
  PROVE  /\ Own(proc', hist'.leaked, mem) /\ Own(proc', hist'.leaked, disk)
         /\ Heard(proc', Deaf', Pending, mem) /\ Heard(proc', Deaf', Pending, disk)
  <1>1. mem \in Held /\ disk \in Held
    BY DEF Typed, CTypeOK
  <1>2. hist.leaked \subseteq hist'.leaked /\ hist.leaked \subseteq Deaf' /\ hist'.leaked \subseteq Deaf'
    BY DEF Steady, Deaf
  <1>3. ASSUME NEW p \in Pid \ hist'.leaked, Owned(p)
        PROVE  /\ Goes(proc, proc', p)
               /\ p \notin Deaf' => p \notin Deaf /\ (proc'[p].sent => proc[p].sent)
    <2>1. p \notin hist.leaked
      BY <1>2
    <2>2. proc[p].st # "free"
      BY <1>3, <2>1 DEF Owned, OwnInv, Own
    <2>3. QED
      BY <1>3, <2>1, <2>2 DEF Steady, Deaf
  <1>4. \A u \in Unit, p \in Pid : p \in mem.pids[u] \/ p \in disk.pids[u] => Owned(p)
    BY DEF Owned
  <1>5. Own(proc', hist'.leaked, mem) /\ Own(proc', hist'.leaked, disk)
    BY <1>1, <1>2, <1>3, <1>4, OwnMoves DEF OwnInv
  <1>6. /\ \A p \in Pid \ Deaf' : (\E u \in Unit : p \in mem.pids[u]) => p \notin Deaf /\ (proc'[p].sent => proc[p].sent)
        /\ \A p \in Pid \ Deaf' : (\E u \in Unit : p \in disk.pids[u]) => p \notin Deaf /\ (proc'[p].sent => proc[p].sent)
    BY <1>2, <1>3, <1>4
  <1>7. Heard(proc', Deaf', Pending, mem) /\ Heard(proc', Deaf', Pending, disk)
    BY <1>1, <1>2, <1>6, HeardMoves DEF OwnInv
  <1>8. QED
    BY <1>5, <1>7

\* A steady step that leaves the tables alone.
LEMMA SteadyStep ==
  ASSUME Typed, OwnInv, Steady, UNCHANGED <<mem, disk>>, Pending' = Pending, Synced', NewInHand', OldInHand'
  PROVE  OwnInv'
  <1>1. Watched'
    BY DEF OwnInv, Watched, Steady
  <1>2. QED
    BY <1>1, SteadyTables DEF OwnInv

\* A step that leaves memory and the records the same.
LEMMA CommittedOwn ==
  ASSUME mem' = disk', Own(proc', hist'.leaked, mem'), Heard(proc', Deaf', Pending', mem'), Watched',
         NewInHand', OldInHand'
  PROVE  OwnInv'
  BY DEF OwnInv, Synced

\* A steady step that leaves the handler where it is.
LEMMA SteadyHands ==
  ASSUME Typed, OwnInv, Steady, UNCHANGED <<mem, disk>>,
         pc'.at = pc.at, pc'.u = pc.u, pc'.p = pc.p, pc'.new = pc.new, pc'.back = pc.back
  PROVE  OwnInv'
  <1>0. /\ pc.at = "attach" => pc.new \in Pid
        /\ pc.at \in {"exit", "unwatch", "popped", "reap"} \/ pc.back => pc.p \in Pid
    BY DEF Typed, Placed
  <1>1. Synced'
    BY DEF Synced, OwnInv
  <1>2. \A p : Unowned(p) => Unowned(p)'
    BY DEF Unowned, Steady
  <1>3. NewInHand'
    <2>1. pc.at = "attach" => Goes(proc, proc', pc.new)
      BY <1>0 DEF OwnInv, NewInHand, Steady
    <2>2. pc.at = "attach" /\ proc'[pc.new].sent => pc.new \in ToSet(queue')
      BY <1>0 DEF OwnInv, NewInHand, Steady
    <2>3. QED
      BY <1>2, <2>1, <2>2 DEF OwnInv, NewInHand, Goes
  <1>4. OldInHand'
    <2>1. pc.at \in {"exit", "unwatch"} \/ pc.back => Goes(proc, proc', pc.p)
      BY <1>0 DEF OwnInv, OldInHand, Steady
    <2>2. hist.leaked \subseteq hist'.leaked
      BY DEF Steady
    <2>3. QED
      BY <1>2, <2>1, <2>2 DEF OwnInv, OldInHand, Goes
  <1>5. Pending' = Pending
    BY DEF Pending
  <1>6. QED
    BY <1>1, <1>3, <1>4, <1>5, SteadyStep

\* The steps of the processes are steady.
LEMMA SteadyFork ==
  ASSUME Typed, NEW q \in Pid, NEW cg, NEW parent, fork(q, cg, parent), queue' = queue
  PROVE  Steady
  <1>1. proc[q].st = "free" /\ \A p \in Pid : p # q => proc'[p] = proc[p]
    BY DEF Typed, CTypeOK, fork
  <1>2. hist'.leaked = hist.leaked /\ hist'.popped = hist.popped \ {q}
    BY DEF Typed, CTypeOK, fork
  <1>3. QED
    BY <1>1, <1>2 DEF Steady, Goes

LEMMA EndsGoes ==
  ASSUME proc \in [Pid -> Process], NEW S \in SUBSET Pid, \A p \in S : proc[p].st = "run",
         NEW p \in Pid, proc[p].st # "free", proc[p].parent = None \/ p \notin S
  PROVE  Goes(proc, ends(proc, S), p)
  <1> DEFINE Q == ends(proc, S)
  <1>1. CASE p \in S
    <2>1. Q[p] = [proc[p] EXCEPT !.st = "zombie"]
      BY <1>1 DEF ends
    <2> HIDE DEF Q
    <2>2. Q[p].st = "zombie" /\ Q[p].parent = proc[p].parent
      BY <2>1 DEF Process
    <2>3. QED
      BY <2>2 DEF Goes, Q
  <1>2. CASE p \notin S
    <2>1. Q[p] = IF proc[p].parent \in S THEN [proc[p] EXCEPT !.parent = None] ELSE proc[p]
      BY <1>2 DEF ends
    <2> HIDE DEF Q
    <2>2. Q[p].st = proc[p].st /\ Q[p].cg = proc[p].cg /\ Q[p].parent \in {None, proc[p].parent}
      BY <2>1 DEF Process
    <2>3. QED
      BY <2>2 DEF Goes, Q
  <1>3. QED
    BY <1>1, <1>2

LEMMA EndsSent ==
  ASSUME proc \in [Pid -> Process], NEW S \in SUBSET Pid, NEW p \in Pid, ends(proc, S)[p].sent
  PROVE  proc[p].sent
  <1> DEFINE Q == ends(proc, S)
  <1>1. Q[p] = Free \/ Q[p] = [proc[p] EXCEPT !.st = "zombie"]
          \/ Q[p] = [proc[p] EXCEPT !.parent = None] \/ Q[p] = proc[p]
    BY DEF ends
  <1>2. ~ Free.sent
    BY DEF Free
  <1>3. Q[p].sent
    OBVIOUS
  <1> HIDE DEF Q
  <1>4. Q[p] = [proc[p] EXCEPT !.st = "zombie"] => Q[p].sent = proc[p].sent
    BY DEF Process
  <1>5. Q[p] = [proc[p] EXCEPT !.parent = None] => Q[p].sent = proc[p].sent
    BY DEF Process
  <1>6. QED
    BY <1>1, <1>2, <1>3, <1>4, <1>5

LEMMA SteadyEnds ==
  ASSUME Typed, NEW S \in SUBSET Pid, \A p \in S : proc[p].st = "run", proc' = ends(proc, S),
         ToSet(queue') = ToSet(queue), hist.leaked \subseteq hist'.leaked, hist'.popped = hist.popped,
         \A p \in S : proc[p].parent # None /\ Owned(p) => p \in hist'.leaked
  PROVE  Steady
  <1>0. proc \in [Pid -> Process]
    BY DEF Typed, CTypeOK
  <1>1. ASSUME NEW p \in Pid, proc[p].st # "free", proc[p].parent = None \/ p \notin S
        PROVE  Goes(proc, proc', p)
    BY <1>0, <1>1, EndsGoes
  <1>2. \A p \in Pid : proc'[p].sent => proc[p].sent
    BY <1>0, EndsSent
  <1>3. \A p \in Pid : /\ proc[p].st # "free"
                       /\ proc[p].parent = None \/ proc[p].st = "zombie" \/ (p \notin hist'.leaked /\ Owned(p))
                       => Goes(proc, proc', p)
    BY <1>1
  <1>4. QED
    BY <1>2, <1>3 DEF Steady

\* A step that changes nothing of the processes but what is committed.
LEMMA SteadySame ==
  ASSUME hist' = hist, ToSet(queue) \subseteq ToSet(queue'),
         \A p \in Pid : /\ proc'[p].st = proc[p].st /\ proc'[p].cg = proc[p].cg
                        /\ proc'[p].parent = proc[p].parent
                        /\ proc'[p].sent => proc[p].sent \/ p \in ToSet(queue')
  PROVE  Steady
  BY DEF Steady, Goes

LEMMA AppendToSet ==
  ASSUME NEW s \in Seq(Pid), NEW p \in Pid
  PROVE  ToSet(Append(s, p)) = ToSet(s) \cup {p}
  <1>1. Len(Append(s, p)) = Len(s) + 1 /\ Len(s) \in Nat /\ Append(s, p)[Len(s) + 1] = p
        /\ \A i \in 1..Len(s) : Append(s, p)[i] = s[i]
    OBVIOUS
  <1>2. ToSet(s) \subseteq ToSet(Append(s, p)) /\ p \in ToSet(Append(s, p))
    BY <1>1 DEF ToSet
  <1>3. ToSet(Append(s, p)) \subseteq ToSet(s) \cup {p}
    BY <1>1 DEF ToSet
  <1>4. QED
    BY <1>2, <1>3

LEMMA TailToSet ==
  ASSUME NEW s \in Seq(Pid), s # <<>>
  PROVE  ToSet(s) = ToSet(Tail(s)) \cup {Head(s)}
  <1>1. Len(s) \in Nat \ {0} /\ Len(Tail(s)) = Len(s) - 1 /\ Head(s) = s[1]
        /\ \A i \in 1..(Len(s) - 1) : Tail(s)[i] = s[i + 1]
    OBVIOUS
  <1>2. ToSet(Tail(s)) \subseteq ToSet(s)
    BY <1>1 DEF ToSet
  <1>3. Head(s) \in ToSet(s)
    BY <1>1 DEF ToSet
  <1>4. ASSUME NEW i \in 1..Len(s)
        PROVE  s[i] \in ToSet(Tail(s)) \cup {Head(s)}
    <2>1. CASE i = 1
      BY <1>1, <2>1
    <2>2. CASE i # 1
      <3>1. i - 1 \in 1..Len(Tail(s)) /\ Tail(s)[i - 1] = s[i]
        BY <1>1, <2>2
      <3>2. DOMAIN Tail(s) = 1..Len(Tail(s))
        OBVIOUS
      <3>3. Tail(s)[i - 1] \in ToSet(Tail(s))
        BY <3>1, <3>2 DEF ToSet
      <3>4. QED
        BY <3>1, <3>3
    <2>3. QED
      BY <2>1, <2>2
  <1>5. ToSet(s) \subseteq ToSet(Tail(s)) \cup {Head(s)}
    BY <1>4 DEF ToSet
  <1>6. QED
    BY <1>2, <1>3, <1>5

LEMMA OwnOfProcesses ==
  ASSUME Typed, OwnInv, ProcFork \/ ProcExit \/ ProcNotify
  PROVE  OwnInv'
  <1>1. UNCHANGED <<mem, disk, pc>>
    BY DEF ProcFork, ProcExit, ProcNotify
  <1>2. CASE ProcFork
    <2>1. Steady
      BY <1>2, SteadyFork DEF ProcFork
    <2>2. QED
      BY <1>1, <2>1, SteadyHands
  <1>3. CASE ProcExit
    <2>1. PICK p \in Pid : /\ Running(p) /\ proc' = ends(proc, {p})
                           /\ IF proc[p].parent # None THEN Leaks({p}) ELSE UNCHANGED hist
      BY <1>3 DEF ProcExit
    <2>2. /\ hist.leaked \subseteq hist'.leaked /\ hist'.popped = hist.popped
          /\ proc[p].parent # None /\ Owned(p) => p \in hist'.leaked
      BY <2>1 DEF Leaks, Typed, CTypeOK, Owned
    <2>3. queue' = queue
      BY <1>3 DEF ProcExit
    <2>4. Steady
      BY <2>1, <2>2, <2>3, SteadyEnds DEF Running
    <2>5. QED
      BY <1>1, <2>4, SteadyHands
  <1>4. CASE ProcNotify
    <2>0. proc \in [Pid -> Process] /\ queue \in Seq(Pid)
      BY DEF Typed, CTypeOK
    <2>1. PICK p \in Pid : proc' = [proc EXCEPT ![p].sent = TRUE] /\ queue' = Append(queue, p)
      BY <1>4 DEF ProcNotify
    <2>2. hist' = hist
      BY <1>4 DEF ProcNotify
    <2> DEFINE r == [proc[p] EXCEPT !.sent = TRUE]
    <2>3. r.st = proc[p].st /\ r.cg = proc[p].cg /\ r.parent = proc[p].parent
      BY <2>0 DEF Process
    <2>4. proc' = [proc EXCEPT ![p] = r]
      BY <2>1
    <2> HIDE DEF r
    <2>5. ToSet(queue') = ToSet(queue) \cup {p}
      BY <2>0, <2>1, AppendToSet
    <2>6. Steady
      BY <2>0, <2>2, <2>3, <2>4, <2>5, SteadySame
    <2>7. QED
      BY <1>1, <2>6, SteadyHands
  <1>5. QED
    BY <1>2, <1>3, <1>4

LEMMA OwnOfSpawn ==
  ASSUME Typed, OwnInv, NEW u \in Unit, NEW at \in Handler,
         Spawn(u, at), at.back => pc.at = "unwatch" /\ at.p = pc.p /\ u = pc.u,
         ~ at.back => pc.at = "idle" /\ ~ pc.back
  PROVE  OwnInv'
  <1>0. proc \in [Pid -> Process] /\ (at.back => pc.p \in Pid)
    BY DEF Typed, CTypeOK, Placed
  <1>1. PICK q \in Pid : /\ fork(q, None, None)
                         /\ pc' = [at EXCEPT !.at = "attach", !.u = u, !.new = q]
    BY DEF Spawn
  <1>2. UNCHANGED <<queue, mem, disk>>
    BY DEF Spawn
  <1>3. Steady
    BY <1>1, <1>2, SteadyFork
  <1>4. pc'.at = "attach" /\ pc'.u = u /\ pc'.new = q /\ pc'.p = at.p
    BY <1>1 DEF Handler
  <1>5. pc'.back = at.back
    BY <1>1 DEF Handler
  <1>6. proc[q].st = "free" /\ proc'[q].st = "run" /\ proc'[q].parent = None
    BY <1>0, <1>1 DEF fork, Free
  <1>7. ~ proc'[q].sent
    <2> DEFINE r == [Free EXCEPT !.st = "run", !.cg = None, !.parent = None]
    <2>1. ~ r.sent
      BY DEF Free
    <2>2. proc' = [proc EXCEPT ![q] = r]
      BY <1>1 DEF fork
    <2> HIDE DEF r
    <2>3. QED
      BY <1>0, <2>1, <2>2
  <1>8. hist'.leaked = hist.leaked
    BY <1>1 DEF fork, Typed, CTypeOK
  <1>9. Unowned(q)'
    <2>1. q \notin hist.leaked => \A v \in Unit : q \notin mem.pids[v] /\ q \notin disk.pids[v]
      BY <1>6 DEF OwnInv, Own
    <2>2. QED
      BY <1>2, <1>8, <2>1 DEF Unowned
  <1>10. at.back => proc[pc.p].st = "zombie"
    BY DEF OwnInv, OldInHand
  <1>11. NewInHand'
    BY <1>4, <1>5, <1>6, <1>7, <1>9, <1>10 DEF NewInHand
  <1>12. OldInHand'
    <2>1. at.back => proc'[pc.p].st = "zombie"
      <3>1. at.back => pc.p # q
        BY <1>6, <1>10
      <3>2. QED
        BY <1>0, <1>1, <1>10, <3>1 DEF fork
    <2>2. QED
      BY <1>2, <1>4, <1>5, <1>8, <2>1 DEF OldInHand, OwnInv
  <1>13. Synced'
    BY <1>2, <1>4, <1>5 DEF Synced, OwnInv
  <1>14. Pending' = Pending
    BY <1>4 DEF Pending
  <1>15. QED
    BY <1>2, <1>3, <1>11, <1>12, <1>13, <1>14, SteadyStep

LEMMA OwnOfCommands ==
  ASSUME Typed, OwnInv, StartCall \/ NextCommand
  PROVE  OwnInv'
  <1>1. CASE StartCall
    <2>1. pc.at = "idle" /\ ~ pc.back
      BY <1>1 DEF StartCall, OwnInv, OldInHand
    <2>2. PICK u \in Unit : Spawn(u, Rest)
      BY <1>1 DEF StartCall
    <2>3. QED
      BY <2>1, <2>2, RestOK, OwnOfSpawn
  <1>2. CASE NextCommand
    <2> DEFINE at == [pc EXCEPT !.back = TRUE]
    <2>1. at \in Handler /\ at.p = pc.p /\ pc.u \in Unit /\ pc.at = "unwatch"
      BY <1>2 DEF NextCommand, Typed, CTypeOK, Placed, Handler
    <2>2. at.back
      BY DEF Typed, CTypeOK, Handler
    <2>3. Spawn(pc.u, at)
      BY <1>2 DEF NextCommand
    <2> HIDE DEF at
    <2>4. QED
      BY <2>1, <2>2, <2>3, OwnOfSpawn
  <1>3. QED
    BY <1>1, <1>2

\* Nothing changes but the handler.
LEMMA SameSteady ==
  ASSUME UNCHANGED <<proc, hist, queue>>
  PROVE  Steady
  BY SteadySame

LEMMA OwnOfLooks ==
  ASSUME Typed, OwnInv, SignalDispatch \/ Peek \/ TurnOff
  PROVE  OwnInv'
  <1>0. mem \in Held /\ disk \in Held /\ None \notin Unit
    BY ChildrenAssumption DEF Typed, CTypeOK
  <1>1. UNCHANGED <<proc, hist, queue, mem, disk>>
    BY DEF SignalDispatch, Peek, TurnOff
  <1>2. Steady
    BY <1>1, SameSteady
  <1>3. CASE SignalDispatch
    <2>1. pc' = pc
      BY <1>3 DEF SignalDispatch
    <2>2. QED
      BY <1>1, <1>2, <2>1, SteadyHands
  <1>4. pc.at \in {"idle", "off"} => mem.main = disk.main /\ mem.pids = disk.pids /\ mem.ready = disk.ready
    BY DEF OwnInv, Synced, OldInHand
  <1>5. ASSUME pc.at \in {"idle", "off"}, pc'.at \in {"idle", "off"}, ~ pc'.back
        PROVE  OwnInv'
    <2>1. Synced' /\ NewInHand' /\ OldInHand'
      BY <1>1, <1>4, <1>5 DEF Synced, NewInHand, OldInHand
    <2>2. Pending' = Pending
      BY <1>5 DEF Pending
    <2>3. QED
      BY <1>1, <1>2, <2>1, <2>2, SteadyStep
  <1>6. CASE TurnOff
    BY <1>5, <1>6, RestOK DEF TurnOff
  <1>7. CASE Peek /\ pc' = [Rest EXCEPT !.at = "off"]
    <2>1. pc'.at = "off"
      BY <1>7, RestOK DEF Handler
    <2>2. ~ pc'.back
      BY <1>7, RestOK DEF Handler
    <2>3. QED
      BY <1>5, <1>7, <2>1, <2>2 DEF Peek
  <1>8. ASSUME Peek, NEW p \in Zombies,
               pc' = [Rest EXCEPT !.at = IF mem.watch[p] = None THEN "reap" ELSE "exit",
                                  !.u = mem.watch[p], !.p = p]
        PROVE  OwnInv'
    <2>0. pc.at = "idle"
      BY <1>8 DEF Peek
    <2>1. p \in Pid /\ proc[p].st = "zombie"
      BY DEF Zombies
    <2>2. pc'.at = (IF mem.watch[p] = None THEN "reap" ELSE "exit") /\ pc'.u = mem.watch[p] /\ pc'.p = p
      BY <1>8, RestOK DEF Handler
    <2>3. ~ pc'.back
      BY <1>8, RestOK DEF Handler
    <2>4. mem.watch[p] = None => Unowned(p)
      BY <1>0, <1>4, <2>0, <2>1 DEF OwnInv, Watched, Unowned
    <2>5. mem.watch[p] = None => Unowned(p)'
      BY <1>1, <2>4 DEF Unowned
    <2>6. OldInHand'
      BY <1>1, <2>1, <2>2, <2>3, <2>5 DEF OldInHand
    <2>7. NewInHand' /\ Synced'
      BY <1>1, <1>4, <2>0, <2>2 DEF NewInHand, Synced
    <2>8. Pending' = Pending
      BY <2>0, <2>2 DEF Pending
    <2>9. QED
      BY <1>1, <1>2, <2>6, <2>7, <2>8, SteadyStep
  <1>9. QED
    BY <1>3, <1>6, <1>7, <1>8 DEF Peek

LEMMA OwnOfKillOne ==
  ASSUME Typed, OwnInv, KillOne
  PROVE  OwnInv'
  <1> DEFINE p == Head(pc.todo)
             dead == IF Running(p) THEN {p} ELSE {}
  <1>0. UNCHANGED <<queue, mem, disk>> /\ pc \in Handler /\ pc.at = "kill" /\ pc.todo # <<>> /\ pc.todo \in Seq(Pid)
    BY DEF KillOne, Typed, CTypeOK, Handler
  <1>1. p \in Pid
    BY <1>0
  <1>2. CASE proc[p].st = "free"
    <2>1. pc' = [pc EXCEPT !.todo = <<>>] /\ UNCHANGED <<proc, hist>>
      BY <1>2 DEF KillOne
    <2>2. pc'.at = pc.at /\ pc'.u = pc.u /\ pc'.p = pc.p /\ pc'.new = pc.new /\ pc'.back = pc.back
      BY <1>0, <2>1 DEF Handler
    <2>3. QED
      BY <1>0, <2>1, <2>2, SameSteady, SteadyHands
  <1>3. CASE proc[p].st # "free"
    <2>1. /\ pc' = [pc EXCEPT !.todo = Tail(@)] /\ proc' = ends(proc, dead)
          /\ IF dead # {} /\ proc[p].parent # None THEN Leaks(dead) ELSE UNCHANGED hist
      BY <1>3 DEF KillOne
    <2>2. pc'.at = pc.at /\ pc'.u = pc.u /\ pc'.p = pc.p /\ pc'.new = pc.new /\ pc'.back = pc.back
      BY <1>0, <2>1 DEF Handler
    <2>3. /\ dead \in SUBSET Pid /\ \A q \in dead : proc[q].st = "run" /\ q = p
      BY <1>1 DEF Running
    <2> HIDE DEF p, dead
    <2>4. /\ hist.leaked \subseteq hist'.leaked /\ hist'.popped = hist.popped
          /\ \A q \in dead : proc[q].parent # None /\ Owned(q) => q \in hist'.leaked
      BY <2>1, <2>3 DEF Leaks, Typed, CTypeOK, Owned
    <2>5. Steady
      BY <1>0, <2>1, <2>3, <2>4, SteadyEnds
    <2>6. QED
      BY <1>0, <2>2, <2>5, SteadyHands
  <1>4. QED
    BY <1>2, <1>3

\* Only the pids, the main processes and READY of a table matter.
LEMMA SameTable ==
  ASSUME NEW h, NEW k, h.pids = k.pids, h.main = k.main, NEW P, NEW L, Own(P, L, h)
  PROVE  Own(P, L, k)
  BY DEF Own

LEMMA SameReady ==
  ASSUME NEW h, NEW k, h.ready = k.ready, h.main = k.main, NEW P, NEW D, NEW n, Heard(P, D, n, h)
  PROVE  Heard(P, D, n, k)
  BY DEF Heard

LEMMA OwnOfReap ==
  ASSUME Typed, OwnInv, Reap
  PROVE  OwnInv'
  <1>0. mem \in Held /\ disk \in Held /\ proc \in [Pid -> Process] /\ pc.at = "reap" /\ pc.p \in Pid
        /\ UNCHANGED <<queue, hist>> /\ pc' = Rest /\ ~ pc.back /\ Unowned(pc.p)
    BY DEF Reap, Typed, CTypeOK, Placed, OwnInv, OldInHand
  <1>1. proc'[pc.p] = Free /\ \A p \in Pid : p # pc.p => proc'[p] = proc[p]
    BY <1>0 DEF Reap
  <1>2. /\ mem'.watch = mem.watch /\ mem'.pids = mem.pids /\ mem'.main = mem.main /\ mem'.ready = mem.ready
        /\ disk'.pids = disk.pids /\ disk'.main = disk.main /\ disk'.ready = disk.ready
    BY <1>0 DEF Reap, Held
  <1>3. ASSUME NEW p \in Pid \ hist.leaked, Owned(p)
        PROVE  proc'[p] = proc[p] /\ proc[p].st # "free"
    <2>1. p # pc.p
      BY <1>0, <1>3 DEF Owned, Unowned
    <2>2. proc[p].st # "free"
      BY <1>3 DEF Owned, OwnInv, Own
    <2>3. QED
      BY <1>1, <2>1, <2>2
  <1>4. \A p \in Pid \ hist.leaked : Owned(p) => Goes(proc, proc', p)
    BY <1>3 DEF Goes
  <1>5. Own(proc', hist.leaked, mem) /\ Own(proc', hist.leaked, disk)
    BY <1>0, <1>4, OwnMoves DEF OwnInv, Owned
  <1>6. hist.leaked \subseteq Deaf /\ Deaf' = Deaf
    BY <1>0 DEF Deaf
  <1>7. Pending = None /\ Pending' = None
    BY <1>0, RestOK DEF Pending
  <1>8. \A p \in Pid \ Deaf : Owned(p) => p \notin Deaf /\ (proc'[p].sent => proc[p].sent)
    BY <1>3, <1>6
  <1>9. Heard(proc', Deaf, None, mem) /\ Heard(proc', Deaf, None, disk)
    BY <1>0, <1>6, <1>7, <1>8, HeardMoves DEF OwnInv, Owned
  <1>10. Own(proc', hist'.leaked, mem') /\ Own(proc', hist'.leaked, disk')
    BY <1>0, <1>2, <1>5, SameTable
  <1>11. Heard(proc', Deaf', Pending', mem') /\ Heard(proc', Deaf', Pending', disk')
    BY <1>2, <1>6, <1>7, <1>9, SameReady
  <1>12. Watched' /\ Synced' /\ NewInHand' /\ OldInHand'
    BY <1>0, <1>2, RestOK DEF OwnInv, Watched, Synced, NewInHand, OldInHand
  <1>13. QED
    BY <1>10, <1>11, <1>12 DEF OwnInv

LEMMA OwnOfPop ==
  ASSUME Typed, OwnInv, NotifyPop
  PROVE  OwnInv'
  <1> DEFINE p == Head(queue)
  <1>0. /\ mem \in Held /\ disk \in Held /\ pc.at = "idle" /\ queue \in Seq(Pid) /\ queue # <<>>
        /\ UNCHANGED <<proc, mem, disk, hist>> /\ ~ pc.back /\ queue' = Tail(queue)
        /\ pc' = IF mem.watch[p] = None THEN pc ELSE [Rest EXCEPT !.at = "popped", !.u = mem.watch[p], !.p = p]
    BY DEF NotifyPop, notify_peek_pid, Typed, CTypeOK, OwnInv, OldInHand
  <1>1. p \in Pid /\ ToSet(queue) = ToSet(queue') \cup {p} /\ None \notin Unit
    BY <1>0, TailToSet, ChildrenAssumption
  <1> HIDE DEF p
  <1>2. Deaf \subseteq Deaf' \cup {p} /\ hist.leaked \subseteq Deaf' /\ Pending = None
    BY <1>0, <1>1 DEF Deaf, Pending
  <1>3. mem.main = disk.main /\ mem.pids = disk.pids /\ mem.ready = disk.ready
    BY <1>0 DEF OwnInv, Synced
  <1>4. /\ mem.watch[p] = None => pc' = pc /\ Pending' = None
        /\ mem.watch[p] # None => pc'.at = "popped" /\ pc'.u = mem.watch[p] /\ pc'.p = p /\ Pending' = p
    BY <1>0, RestOK DEF Handler, Pending
  <1>5. ~ pc'.back
    <2>1. ~ [Rest EXCEPT !.at = "popped", !.u = mem.watch[p], !.p = p].back
      BY RestOK DEF Handler
    <2>2. QED
      BY <1>0, <2>1
  <1>6. ASSUME NEW u \in Unit, mem.main[u] # None, mem.main[u] \notin Deaf', proc[mem.main[u]].sent
        PROVE  u \in mem.ready \/ Pending' = mem.main[u]
    <2>1. CASE mem.main[u] = p
      <3>1. mem.watch[p] = u
        BY <1>1, <1>2, <1>6, <2>1 DEF OwnInv, Own, Watched
      <3>2. QED
        BY <1>1, <1>4, <2>1, <3>1
    <2>2. CASE mem.main[u] # p
      <3>1. mem.main[u] \notin Deaf
        BY <1>2, <1>6, <2>2
      <3>2. u \in mem.ready \/ Pending = mem.main[u]
        BY <1>6, <3>1 DEF OwnInv, Heard
      <3>3. QED
        BY <1>2, <1>6, <3>2
    <2>3. QED
      BY <2>1, <2>2
  <1>7. Heard(proc, Deaf', Pending', mem) /\ Heard(proc, Deaf', Pending', disk)
    BY <1>3, <1>6 DEF Heard
  <1>8. NewInHand' /\ Synced' /\ Watched'
    BY <1>0, <1>3, <1>4 DEF NewInHand, Synced, Watched, OwnInv
  <1>9. OldInHand'
    BY <1>0, <1>4, <1>5 DEF OldInHand, OwnInv
  <1>10. QED
    BY <1>0, <1>7, <1>8, <1>9 DEF OwnInv

\* commit changes only what is kept.
LEMMA CommitSame ==
  ASSUME NEW P \in [Pid -> Process], NEW h, commit(P, h)
  PROVE  /\ disk' = h
         /\ \A p \in Pid : /\ proc'[p].st = P[p].st /\ proc'[p].cg = P[p].cg /\ proc'[p].parent = P[p].parent
                           /\ proc'[p].sent = P[p].sent
  BY DEF commit, Process

LEMMA OwnOfExit ==
  ASSUME Typed, OwnInv, SigchldEvents
  PROVE  OwnInv'
  <1>0. /\ mem \in Held /\ pc \in Handler /\ pc.at = "exit" /\ pc.u \in Unit /\ pc.p \in Pid /\ ~ pc.back
        /\ UNCHANGED <<proc, queue, disk, hist>> /\ pc' = [pc EXCEPT !.at = "unwatch"] /\ None \notin Pid
    BY ChildrenAssumption DEF SigchldEvents, Typed, CTypeOK, Placed, OwnInv, OldInHand
  <1>1. /\ mem'.watch = mem.watch /\ mem'.pids = mem.pids
        /\ mem'.main = [mem.main EXCEPT ![pc.u] = IF @ = pc.p THEN None ELSE @]
        /\ mem'.ready = IF mem.main[pc.u] = pc.p THEN mem.ready \ {pc.u} ELSE mem.ready
    BY DEF SigchldEvents, Typed, CTypeOK, Held
  <1>2. pc'.at = "unwatch" /\ pc'.u = pc.u /\ pc'.p = pc.p
    BY <1>0 DEF Handler
  <1>3. ~ pc'.back
    BY <1>0 DEF Handler
  <1>4. Deaf' = Deaf /\ Pending' = None /\ Pending = None
    BY <1>0, <1>2 DEF Deaf, Pending
  <1>5. mem.main \in [Unit -> Pid \cup {None}]
    BY <1>0 DEF Held
  <1>6. \A u \in Unit : mem'.main[u] # None => mem'.main[u] = mem.main[u] /\ (u \in mem.ready => u \in mem'.ready)
    BY <1>0, <1>1, <1>5
  <1>7. Own(proc', hist'.leaked, mem') /\ Own(proc', hist'.leaked, disk')
    BY <1>0, <1>1, <1>6 DEF Own, OwnInv
  <1>8. Heard(proc', Deaf', Pending', mem') /\ Heard(proc', Deaf', Pending', disk')
    BY <1>0, <1>4, <1>6 DEF Heard, OwnInv
  <1>9. Watched' /\ Synced' /\ NewInHand'
    BY <1>0, <1>1, <1>2 DEF Watched, Synced, NewInHand, OwnInv
  <1>10. mem'.main[pc.u] # pc.p
    BY <1>0, <1>1, <1>5
  <1>11. OldInHand'
    BY <1>0, <1>1, <1>2, <1>3, <1>10 DEF OldInHand, OwnInv
  <1>12. QED
    BY <1>7, <1>8, <1>9, <1>11 DEF OwnInv

\* A table without the watch of p, and with fewer main processes, none of them p.
LEMMA OwnUnwatched ==
  ASSUME NEW P, NEW L, NEW D, NEW n, NEW h \in Held, NEW k \in Held, Own(P, L, h), Heard(P, D, n, h),
         NEW u \in Unit, NEW p \in Pid,
         k.pids = [h.pids EXCEPT ![u] = @ \ {p}],
         \A v \in Unit : k.main[v] # None => /\ k.main[v] = h.main[v] /\ (v \in h.ready => v \in k.ready)
                                             /\ k.main[v] = p => p \in L
  PROVE  Own(P, L, k) /\ Heard(P, D, n, k)
  <1>1. h.pids \in [Unit -> SUBSET Pid]
    BY DEF Held
  <1>2. \A v \in Unit : k.pids[v] \subseteq h.pids[v] /\ (h.pids[v] \subseteq k.pids[v] \cup {p})
    BY <1>1
  <1>3. Own(P, L, k)
    BY <1>2 DEF Own
  <1>4. Heard(P, D, n, k)
    BY DEF Heard
  <1>5. QED
    BY <1>3, <1>4

LEMMA UnwatchFields ==
  ASSUME NEW h \in Held, NEW u \in Unit, NEW p \in Pid
  PROVE  /\ unwatch_pid(h, u, p) \in Held
         /\ unwatch_pid(h, u, p).watch = [h.watch EXCEPT ![p] = None]
         /\ unwatch_pid(h, u, p).pids = [h.pids EXCEPT ![u] = @ \ {p}]
         /\ unwatch_pid(h, u, p).main = h.main /\ unwatch_pid(h, u, p).ready = h.ready
  BY DEF Held, unwatch_pid

\* The tables after an unwatch agree with each other.
LEMMA WatchedUnwatched ==
  ASSUME Typed, OwnInv, NEW u \in Unit, NEW p \in Pid, p \notin hist.leaked => mem.watch[p] = u, hist' = hist,
         mem'.watch = [mem.watch EXCEPT ![p] = None], mem'.pids = [mem.pids EXCEPT ![u] = @ \ {p}]
  PROVE  Watched'
  <1>1. mem.watch \in [Pid -> Unit \cup {None}] /\ mem.pids \in [Unit -> SUBSET Pid] /\ None \notin Unit
    BY ChildrenAssumption DEF Typed, CTypeOK, Held
  <1>2. ASSUME NEW q \in Pid \ hist.leaked, NEW v \in Unit
        PROVE  mem'.watch[q] = v <=> q \in mem'.pids[v]
    <2>1. mem.watch[q] = v <=> q \in mem.pids[v]
      BY DEF OwnInv, Watched
    <2>2. CASE q = p
      <3>1. mem'.watch[q] = None /\ mem.watch[q] = u
        BY <1>1, <2>2
      <3>2. q \notin mem'.pids[v]
        BY <1>1, <2>1, <2>2, <3>1
      <3>3. QED
        BY <1>1, <3>1, <3>2
    <2>3. CASE q # p
      BY <1>1, <2>1, <2>3
    <2>4. QED
      BY <2>2, <2>3
  <1>3. QED
    BY <1>2 DEF Watched

LEMMA OwnOfUnwatch ==
  ASSUME Typed, OwnInv, Unwatch
  PROVE  OwnInv'
  <1> DEFINE h == unwatch_pid(mem, pc.u, pc.p)
  <1>0. /\ mem \in Held /\ proc \in [Pid -> Process] /\ pc.at = "unwatch" /\ pc.u \in Unit /\ pc.p \in Pid
        /\ UNCHANGED <<queue, hist>> /\ mem' = h /\ commit(proc, h) /\ None \notin Unit
        /\ pc' = [Rest EXCEPT !.at = "reap", !.p = pc.p]
    BY ChildrenAssumption DEF Unwatch, Typed, CTypeOK, Placed
  <1>1. /\ h \in Held /\ h.watch = [mem.watch EXCEPT ![pc.p] = None]
        /\ h.pids = [mem.pids EXCEPT ![pc.u] = @ \ {pc.p}]
        /\ h.main = mem.main /\ h.ready = mem.ready
    <2>1. mem \in Held /\ pc.u \in Unit /\ pc.p \in Pid
      BY <1>0
    <2>2. QED
      BY <2>1, UnwatchFields
  <1> HIDE DEF h
  <1>2. /\ disk' = h
        /\ \A p \in Pid : /\ proc'[p].st = proc[p].st /\ proc'[p].cg = proc[p].cg /\ proc'[p].parent = proc[p].parent
                          /\ proc'[p].sent = proc[p].sent
    BY <1>0, CommitSame
  <1>3. Steady
    BY <1>0, <1>2, SteadySame
  <1>4. pc'.at = "reap" /\ pc'.p = pc.p
    BY <1>0, RestOK DEF Handler
  <1>5. ~ pc'.back
    BY <1>0, RestOK DEF Handler
  <1>6. Pending' = None /\ Pending = None
    BY <1>0, <1>4 DEF Pending
  <1>7. pc.p \notin hist.leaked => mem.watch[pc.p] = pc.u /\ mem.main[pc.u] # pc.p
    BY <1>0 DEF OwnInv, OldInHand
  <1>8. ASSUME NEW v \in Unit, mem.main[v] = pc.p
        PROVE  pc.p \in hist.leaked
    BY <1>0, <1>7, <1>8, ChildrenAssumption DEF OwnInv, Own, Watched
  <1>9. Own(proc', hist'.leaked, mem) /\ Heard(proc', Deaf', None, mem)
    BY <1>3, <1>6, SteadyTables
  <1>10. Own(proc', hist'.leaked, h) /\ Heard(proc', Deaf', None, h)
    BY <1>0, <1>1, <1>8, <1>9, OwnUnwatched
  <1>11. Watched'
    BY <1>0, <1>1, <1>7, WatchedUnwatched
  <1>12. Unowned(pc.p)'
    <2>1. pc.p \notin hist.leaked => \A v \in Unit : pc.p \notin h.pids[v]
      <3>1. mem.pids \in [Unit -> SUBSET Pid]
        BY <1>0 DEF Held
      <3>2. ASSUME NEW v \in Unit, pc.p \notin hist.leaked, pc.p \in h.pids[v]
            PROVE  FALSE
        <4>1. pc.p \in mem.pids[v] /\ v # pc.u
          BY <1>0, <1>1, <3>1, <3>2
        <4>2. mem.watch[pc.p] = v
          BY <1>0, <3>2, <4>1 DEF OwnInv, Watched
        <4>3. QED
          BY <1>7, <3>2, <4>1, <4>2
      <3>3. QED
        BY <3>2
    <2>2. QED
      BY <1>0, <1>2, <1>4, <2>1 DEF Unowned
  <1>13. OldInHand' /\ NewInHand'
    BY <1>4, <1>5, <1>12 DEF OldInHand, NewInHand, Unowned
  <1>14. QED
    BY <1>0, <1>2, <1>6, <1>10, <1>11, <1>13, CommittedOwn

LEMMA OwnOfMessage ==
  ASSUME Typed, OwnInv, NotifyMessage
  PROVE  OwnInv'
  <1>0. /\ mem \in Held /\ proc \in [Pid -> Process] /\ pc.at = "popped" /\ pc.u \in Unit /\ pc.p \in Pid
        /\ UNCHANGED <<queue, hist>> /\ commit(proc, mem') /\ pc' = Rest
    BY DEF NotifyMessage, Typed, CTypeOK, Placed
  <1>1. /\ mem'.watch = mem.watch /\ mem'.pids = mem.pids /\ mem'.main = mem.main
        /\ mem'.ready = IF mem.main[pc.u] = pc.p THEN mem.ready \cup {pc.u} ELSE mem.ready
    BY <1>0 DEF NotifyMessage, Held
  <1>2. /\ disk' = mem'
        /\ \A p \in Pid : /\ proc'[p].st = proc[p].st /\ proc'[p].cg = proc[p].cg /\ proc'[p].parent = proc[p].parent
                          /\ proc'[p].sent = proc[p].sent
    BY <1>0, CommitSame
  <1>3. Steady
    BY <1>0, <1>2, SteadySame
  <1>4. Pending = pc.p /\ Pending' = None /\ hist.leaked \subseteq Deaf'
    BY <1>0, RestOK DEF Pending, Deaf
  <1>5. Own(proc', hist'.leaked, mem) /\ Heard(proc', Deaf', pc.p, mem)
    BY <1>3, <1>4, SteadyTables
  <1>6. Own(proc', hist'.leaked, mem')
    BY <1>1, <1>5, SameTable
  <1>7. ASSUME NEW u \in Unit, mem'.main[u] # None, mem'.main[u] \notin Deaf', proc'[mem'.main[u]].sent
        PROVE  u \in mem'.ready
    <2>1. u \in mem.ready \/ pc.p = mem.main[u]
      BY <1>1, <1>5, <1>7 DEF Heard
    <2>2. CASE pc.p = mem.main[u]
      <3>1. pc.p \notin hist.leaked /\ mem.watch[pc.p] = pc.u
        BY <1>0, <1>1, <1>4, <1>7, <2>2 DEF OwnInv, OldInHand
      <3>2. pc.p \in mem.pids[u]
        BY <1>1, <1>7, <2>2, <3>1 DEF OwnInv, Own
      <3>3. mem.watch[pc.p] = u
        BY <1>0, <3>1, <3>2 DEF OwnInv, Watched
      <3>4. QED
        BY <1>1, <2>2, <3>1, <3>3
    <2>3. QED
      BY <1>1, <2>1, <2>2
  <1>8. Heard(proc', Deaf', Pending', mem')
    BY <1>7 DEF Heard
  <1>9. Watched' /\ NewInHand' /\ OldInHand'
    BY <1>0, <1>1, RestOK DEF OwnInv, Watched, NewInHand, OldInHand
  <1>10. QED
    BY <1>2, <1>6, <1>8, <1>9, CommittedOwn

\* Tables without processes own nothing.
LEMMA OwnNothing ==
  ASSUME NEW P, NEW L, NEW D, NEW n
  PROVE  Own(P, L, Nothing) /\ Heard(P, D, n, Nothing)
  BY DEF Own, Heard, Nothing

LEMMA OwnOfCrash ==
  ASSUME Typed, OwnInv, Crash
  PROVE  OwnInv'
  <1>1. /\ pc' = Rest /\ disk \in Held /\ None \notin Unit /\ (Recover \/ ClearedStart)
        /\ proc \in [Pid -> Process]
    BY ChildrenAssumption DEF Crash, Typed, CTypeOK
  <1>2. hist'.leaked = hist.leaked /\ hist'.popped = IF pc.at = "popped" THEN hist.popped \cup {pc.p} ELSE hist.popped
    BY DEF Crash, Typed, CTypeOK
  <1>3. CASE Recover
    <2>1. PICK w \in db_map(disk) : mem' = [disk EXCEPT !.watch = w]
      BY <1>3 DEF Recover
    <2>2. UNCHANGED <<queue, disk>> /\ proc' = ends(proc, Strays)
      BY <1>3 DEF Recover, setup_cgroup, Strays
    <2>3. mem'.watch = w /\ mem'.pids = disk.pids /\ mem'.main = disk.main /\ mem'.ready = disk.ready
      BY <1>1, <2>1 DEF Held
    <2>4. Deaf \subseteq Deaf' /\ Pending \in Deaf' \cup {None} /\ Pending' = None /\ hist.leaked \subseteq Deaf'
      BY <1>1, <1>2, <2>2, RestOK DEF Deaf, Pending
    <2>5. ASSUME NEW p \in Pid \ hist.leaked, \E u \in Unit : p \in disk.pids[u]
          PROVE  Goes(proc, proc', p)
      <3>1. proc[p].st # "free" /\ p \notin Strays
        BY <1>1, <2>5 DEF OwnInv, Own, Strays, Running
      <3>2. Strays \in SUBSET Pid /\ \A q \in Strays : proc[q].st = "run"
        BY DEF Strays, Running
      <3>3. QED
        BY <1>1, <2>2, <3>1, <3>2, EndsGoes
    <2>6. Own(proc', hist'.leaked, disk')
      BY <1>1, <1>2, <2>2, <2>5, OwnMoves DEF OwnInv
    <2>7. Own(proc', hist'.leaked, mem')
      BY <2>2, <2>3, <2>6, SameTable
    <2>8. Heard(proc', Deaf', Pending', disk')
      <3>1. \A p \in Pid : proc'[p].sent => proc[p].sent
        BY <1>1, <2>2, EndsSent DEF Strays
      <3>2. \A p \in Pid \ Deaf' : p \notin Deaf
        BY <2>4
      <3>3. Heard(proc', Deaf', None, disk)
        BY <1>1, <2>4, <3>1, <3>2, HeardMoves DEF OwnInv
      <3>4. QED
        BY <2>2, <2>4, <3>3
    <2>9. Heard(proc', Deaf', Pending', mem')
      BY <2>2, <2>3, <2>8, SameReady
    <2>10. ASSUME NEW p \in Pid \ hist.leaked, NEW u \in Unit
           PROVE  w[p] = u <=> p \in disk.pids[u]
      <3>1. w[p] \in Unit \cup {None}
        BY DEF db_map
      <3>2. /\ w[p] # None => p \in disk.pids[w[p]]
            /\ p \in disk.pids[u] => w[p] # None
        BY DEF db_map
      <3>3. \A v \in Unit : p \in disk.pids[u] /\ p \in disk.pids[v] => v = u
        BY DEF OwnInv, Own
      <3>4. QED
        BY <1>1, <3>1, <3>2, <3>3
    <2>11. Watched'
      BY <1>2, <2>3, <2>10 DEF Watched
    <2>12. Synced' /\ NewInHand' /\ OldInHand'
      BY <1>1, <2>2, <2>3, RestOK DEF Synced, NewInHand, OldInHand
    <2>13. QED
      BY <2>6, <2>7, <2>8, <2>9, <2>11, <2>12 DEF OwnInv
  <1>4. CASE ClearedStart
    <2>1. mem' = Nothing /\ disk' = Nothing
      BY <1>4 DEF ClearedStart
    <2>2. Watched'
      BY <1>1, <2>1 DEF Watched, Nothing
    <2>3. Synced' /\ NewInHand' /\ OldInHand'
      BY <1>1, <2>1, RestOK DEF Synced, NewInHand, OldInHand
    <2>4. QED
      BY <2>1, <2>2, <2>3, OwnNothing DEF OwnInv
  <1>5. QED
    BY <1>1, <1>3, <1>4

LEMMA OwnOfKillDone ==
  ASSUME Typed, OwnInv, KillDone
  PROVE  OwnInv'
  <1> DEFINE m == mem.main[pc.u]
             h == IF m = None THEN mem
                  ELSE [unwatch_pid(mem, pc.u, m) EXCEPT !.main[pc.u] = None, !.ready = @ \ {pc.u}]
             given == IF m = None THEN proc ELSE [proc EXCEPT ![m].kept = FALSE]
  <1>0. /\ mem \in Held /\ disk \in Held /\ pc \in Handler /\ proc \in [Pid -> Process] /\ pc.at = "kill"
        /\ pc.u \in Unit /\ UNCHANGED <<queue, hist>> /\ (pc.back => pc.p \in Pid /\ pc.p # m)
    BY DEF KillDone, Typed, CTypeOK, Placed, OwnInv, OldInHand
  <1>1. /\ mem' = h
        /\ IF pc.back THEN pc' = [pc EXCEPT !.at = "unwatch"] /\ proc' = given /\ UNCHANGED disk
                      ELSE pc' = Rest /\ commit(given, h)
    BY DEF KillDone
  <1>2. m \in Pid \cup {None} /\ mem.main \in [Unit -> Pid \cup {None}] /\ None \notin Unit \cup Pid
    BY <1>0, ChildrenAssumption DEF Held
  <1>3. m # None => /\ h \in Held /\ h.watch = [mem.watch EXCEPT ![m] = None]
                    /\ h.pids = [mem.pids EXCEPT ![pc.u] = @ \ {m}]
                    /\ h.main = [mem.main EXCEPT ![pc.u] = None] /\ h.ready = mem.ready \ {pc.u}
    <2> SUFFICES ASSUME m # None
                 PROVE  /\ h \in Held /\ h.watch = [mem.watch EXCEPT ![m] = None]
                        /\ h.pids = [mem.pids EXCEPT ![pc.u] = @ \ {m}]
                        /\ h.main = [mem.main EXCEPT ![pc.u] = None] /\ h.ready = mem.ready \ {pc.u}
      OBVIOUS
    <2> DEFINE b == unwatch_pid(mem, pc.u, m)
    <2>1. mem \in Held /\ pc.u \in Unit /\ m \in Pid
      BY <1>0, <1>2
    <2> HIDE DEF m
    <2>2. /\ b \in Held /\ b.watch = [mem.watch EXCEPT ![m] = None]
          /\ b.pids = [mem.pids EXCEPT ![pc.u] = @ \ {m}] /\ b.main = mem.main /\ b.ready = mem.ready
      BY <2>1, UnwatchFields
    <2>3. h = [b EXCEPT !.main[pc.u] = None, !.ready = @ \ {pc.u}]
      OBVIOUS
    <2> HIDE DEF b, h
    <2>4. h \in Held /\ h.watch = b.watch /\ h.pids = b.pids
      BY <2>1, <2>2, <2>3 DEF Held
    <2>5. h.main = [b.main EXCEPT ![pc.u] = None] /\ h.ready = b.ready \ {pc.u}
      BY <2>1, <2>2, <2>3 DEF Held
    <2>6. QED
      BY <2>2, <2>4, <2>5
  <1>4. m = None => h = mem
    OBVIOUS
  <1>5. /\ given \in [Pid -> Process]
        /\ \A p \in Pid : /\ given[p].st = proc[p].st /\ given[p].cg = proc[p].cg /\ given[p].parent = proc[p].parent
                          /\ given[p].sent = proc[p].sent
    <2>1. CASE m = None
      BY <1>0, <2>1
    <2>2. CASE m # None
      <3> DEFINE r == [proc[m] EXCEPT !.kept = FALSE]
      <3>0. proc[m] \in Process
        BY <1>0, <1>2, <2>2
      <3>1. r \in Process
        BY <3>0 DEF Process
      <3>2. /\ r.st = proc[m].st /\ r.cg = proc[m].cg /\ r.parent = proc[m].parent
            /\ r.sent = proc[m].sent
        BY <3>0 DEF Process
      <3>3. given = [proc EXCEPT ![m] = r]
        BY <2>2
      <3> HIDE DEF r, given
      <3>4. QED
        BY <1>0, <1>2, <2>2, <3>1, <3>2, <3>3
    <2>3. QED
      BY <2>1, <2>2
  <1> HIDE DEF h, given
  <1>6. /\ \A p \in Pid : /\ proc'[p].st = proc[p].st /\ proc'[p].cg = proc[p].cg /\ proc'[p].parent = proc[p].parent
                          /\ proc'[p].sent = proc[p].sent
        /\ ~ pc.back => disk' = h
    <2>1. CASE pc.back
      BY <1>1, <1>5, <2>1
    <2>2. CASE ~ pc.back
      BY <1>1, <1>5, <2>2, CommitSame
    <2>3. QED
      BY <2>1, <2>2
  <1>7. Steady
    BY <1>0, <1>6, SteadySame
  <1>8. /\ pc.back => pc'.at = "unwatch" /\ pc'.u = pc.u /\ pc'.p = pc.p
        /\ ~ pc.back => pc'.at = "idle"
    BY <1>0, <1>1, RestOK DEF Handler
  <1>9. Pending' = None /\ Pending = None
    BY <1>0, <1>8 DEF Pending
  <1>10. /\ Own(proc', hist'.leaked, mem) /\ Heard(proc', Deaf', None, mem)
         /\ Own(proc', hist'.leaked, disk) /\ Heard(proc', Deaf', None, disk)
    BY <1>7, <1>9, SteadyTables
  <1>11. m \notin hist.leaked /\ m # None => mem.watch[m] = pc.u /\ \A v \in Unit : mem.main[v] = m => v = pc.u
    BY <1>0, <1>2 DEF OwnInv, Own, Watched
  <1>12. Own(proc', hist'.leaked, mem') /\ Heard(proc', Deaf', None, mem') /\ Watched'
    <2>1. CASE m = None
      BY <1>0, <1>1, <1>4, <1>10, <2>1 DEF OwnInv, Watched
    <2>2. CASE m # None
      <3>1. m \in Pid
        BY <1>2, <2>2
      <3>2. \A v \in Unit : h.main[v] # None => /\ h.main[v] = mem.main[v] /\ (v \in mem.ready => v \in h.ready)
                                                /\ h.main[v] = m => m \in hist.leaked
        BY <1>0, <1>2, <1>3, <1>11, <2>2
      <3> HIDE DEF m
      <3>3. Own(proc', hist'.leaked, h) /\ Heard(proc', Deaf', None, h)
        BY <1>0, <1>3, <1>10, <2>2, <3>1, <3>2, OwnUnwatched
      <3>4. Watched'
        BY <1>0, <1>1, <1>3, <1>11, <2>2, <3>1, WatchedUnwatched
      <3>5. QED
        BY <1>1, <3>3, <3>4
    <2>3. QED
      BY <2>1, <2>2
  <1>13. NewInHand'
    BY <1>8 DEF NewInHand
  <1>14. CASE pc.back
    <2>1. mem'.watch[pc.p] = mem.watch[pc.p] /\ mem'.main[pc.u] # pc.p
      <3>1. CASE m = None
        BY <1>0, <1>1, <1>2, <1>4, <1>14, <3>1
      <3>2. CASE m # None
        <4>1. mem.watch \in [Pid -> Unit \cup {None}]
          BY <1>0 DEF Held
        <4>2. QED
          BY <1>0, <1>1, <1>2, <1>3, <1>14, <3>2, <4>1
      <3>3. QED
        BY <3>1, <3>2
    <2>2. OldInHand'
      BY <1>0, <1>6, <1>8, <1>14, <2>1 DEF OldInHand, OwnInv
    <2>3. Synced' /\ disk' = disk
      BY <1>1, <1>8, <1>14 DEF Synced
    <2>4. QED
      BY <1>9, <1>10, <1>12, <1>13, <2>2, <2>3 DEF OwnInv
  <1>15. CASE ~ pc.back
    <2>1. OldInHand'
      BY <1>1, <1>15, RestOK DEF OldInHand
    <2>2. QED
      BY <1>1, <1>6, <1>9, <1>12, <1>13, <1>15, <2>1, CommittedOwn
  <1>16. QED
    BY <1>14, <1>15

LEMMA OwnOfKill ==
  ASSUME Typed, OwnInv, NEW u \in Unit, NEW at \in Handler, kill_context(u, at), pc.at # "popped",
         at.back => pc.at = "unwatch" /\ at.p = pc.p /\ u = pc.u
  PROVE  OwnInv'
  <1> DEFINE m == mem.main[u]
             dead == IF m # None /\ Running(m) THEN {m} ELSE {}
  <1>0. /\ mem \in Held /\ disk \in Held /\ proc \in [Pid -> Process] /\ UNCHANGED <<queue, disk, hist>>
        /\ None \notin Unit \cup Pid
    BY ChildrenAssumption DEF kill_context, Typed, CTypeOK
  <1>1. dead \in SUBSET Pid /\ \A q \in dead : proc[q].st = "run" /\ q = m
    BY <1>0 DEF Held, Running
  <1>2. /\ mem' = child_watch_all_pids(mem, u) /\ proc' = ends(proc, dead)
        /\ \E s \in SetToSeqs(InCgroup(u) \ {m}) : pc' = [at EXCEPT !.at = "kill", !.u = u, !.todo = s]
    BY DEF kill_context
  <1>3. \A q \in dead : proc[q].parent # None => q \in hist.leaked
    BY <1>1, <1>0 DEF OwnInv, Own
  <1> HIDE DEF m, dead
  <1>4. Steady
    BY <1>0, <1>1, <1>2, <1>3, SteadyEnds
  <1>5. PICK s \in SetToSeqs(InCgroup(u) \ {m}) : pc' = [at EXCEPT !.at = "kill", !.u = u, !.todo = s]
    BY <1>2
  <1>6. pc'.at = "kill" /\ pc'.p = at.p /\ pc'.u = u
    BY <1>5 DEF Handler
  <1>7. pc'.back = at.back
    BY <1>5 DEF Handler
  <1>8. /\ mem'.watch = [p \in Pid |-> IF p \in InCgroup(u) THEN u ELSE mem.watch[p]]
        /\ mem'.pids = [mem.pids EXCEPT ![u] = @ \cup InCgroup(u)]
        /\ mem'.main = mem.main /\ mem'.ready = mem.ready
    BY <1>0, <1>2 DEF child_watch_all_pids, Held
  <1>9. mem.watch \in [Pid -> Unit \cup {None}] /\ mem.pids \in [Unit -> SUBSET Pid]
        /\ mem.main \in [Unit -> Pid \cup {None}]
    BY <1>0 DEF Held
  <1>10. Pending' = None /\ Pending = None
    BY <1>6 DEF Pending
  <1>11. /\ Own(proc', hist'.leaked, mem) /\ Heard(proc', Deaf', None, mem)
         /\ Own(proc', hist'.leaked, disk) /\ Heard(proc', Deaf', None, disk)
    BY <1>4, <1>10, SteadyTables
  <1>12. ASSUME NEW p \in InCgroup(u), p \notin hist.leaked
         PROVE  /\ p \in Pid /\ proc'[p].st # "free" /\ (proc'[p].st = "run" => proc'[p].cg = u)
                /\ \A v \in Unit : p \in mem.pids[v] => v = u
    <2>1. p \in Pid /\ proc[p].st = "run" /\ proc[p].cg = u
      BY DEF InCgroup, Running
    <2>2. \A v \in Unit : p \in mem.pids[v] => v = u
      BY <1>12, <2>1 DEF OwnInv, Own
    <2>3. proc'[p].st # "free" /\ (proc'[p].st = "run" => proc'[p].cg = u)
      <3>1. CASE p \in dead
        <4>1. proc'[p] = [proc[p] EXCEPT !.st = "zombie"]
          BY <1>2, <1>3, <1>12, <2>1, <3>1 DEF ends
        <4>2. proc'[p].st = "zombie"
          BY <1>0, <2>1, <4>1 DEF Process
        <4>3. QED
          BY <4>2
      <3>2. CASE p \notin dead
        <4>1. proc'[p] = IF proc[p].parent \in dead THEN [proc[p] EXCEPT !.parent = None] ELSE proc[p]
          BY <1>2, <2>1, <3>2 DEF ends
        <4>2. proc'[p].st = proc[p].st /\ proc'[p].cg = proc[p].cg
          BY <1>0, <2>1, <4>1 DEF Process
        <4>3. QED
          BY <2>1, <4>2
      <3>3. QED
        BY <3>1, <3>2
    <2>4. QED
      BY <2>1, <2>2, <2>3
  <1>13. /\ \A v \in Unit : v # u => mem'.pids[v] = mem.pids[v]
         /\ mem'.pids[u] = mem.pids[u] \cup InCgroup(u)
    BY <1>8, <1>9
  <1>14. Own(proc', hist'.leaked, mem')
    <2>1. ASSUME NEW p \in Pid \ hist.leaked, NEW v \in Unit, p \in mem'.pids[v]
          PROVE  /\ proc'[p].st # "free" /\ (proc'[p].st = "run" => proc'[p].cg = v)
                 /\ \A w \in Unit : p \in mem'.pids[w] => w = v
      <3>1. CASE p \in InCgroup(u)
        BY <1>12, <1>13, <2>1, <3>1
      <3>2. CASE p \notin InCgroup(u)
        <4>1. \A w \in Unit : p \in mem'.pids[w] => p \in mem.pids[w]
          BY <1>13, <3>2
        <4>2. QED
          BY <1>0, <1>11, <2>1, <4>1 DEF Own
      <3>3. QED
        BY <3>1, <3>2
    <2>2. ASSUME NEW v \in Unit, mem'.main[v] # None, mem'.main[v] \notin hist.leaked
          PROVE  mem'.main[v] \in mem'.pids[v] /\ proc'[mem'.main[v]].parent = None
      BY <1>0, <1>8, <1>11, <1>13, <2>2 DEF Own
    <2>3. QED
      BY <1>0, <2>1, <2>2 DEF Own
  <1>15. Heard(proc', Deaf', None, mem')
    BY <1>8, <1>11, SameReady
  <1>16. Watched'
    <2>1. ASSUME NEW p \in Pid \ hist.leaked, NEW v \in Unit
          PROVE  mem'.watch[p] = v <=> p \in mem'.pids[v]
      <3>1. mem.watch[p] = v <=> p \in mem.pids[v]
        BY DEF OwnInv, Watched
      <3>2. CASE p \in InCgroup(u)
        <4>1. mem'.watch[p] = u
          BY <1>8, <3>2
        <4>2. p \in mem'.pids[v] => v = u
          BY <1>12, <1>13, <3>2
        <4>3. QED
          BY <1>13, <3>2, <4>1, <4>2
      <3>3. CASE p \notin InCgroup(u)
        BY <1>8, <1>13, <3>1, <3>3
      <3>4. QED
        BY <3>2, <3>3
    <2>2. QED
      BY <1>0, <2>1 DEF Watched
  <1>17. Synced' /\ NewInHand'
    BY <1>6 DEF Synced, NewInHand
  <1>18. OldInHand'
    <2>1. at.back => /\ pc.p \in Pid /\ proc[pc.p].st = "zombie" /\ mem.main[u] # pc.p
                     /\ pc.p \notin hist.leaked => mem.watch[pc.p] = u
      BY DEF Typed, Placed, OwnInv, OldInHand
    <2>2. at.back => proc'[pc.p].st = "zombie"
      <3>1. at.back => Goes(proc, proc', pc.p)
        BY <2>1, <1>4 DEF Steady
      <3>2. QED
        BY <2>1, <3>1 DEF Goes
    <2>3. at.back => pc.p \notin InCgroup(u)
      BY <2>1 DEF InCgroup, Running
    <2>4. at.back /\ pc.p \notin hist.leaked => mem'.watch[pc.p] = u
      BY <1>8, <2>1, <2>3
    <2>5. QED
      BY <1>0, <1>6, <1>7, <1>8, <2>1, <2>2, <2>4 DEF OldInHand
  <1>19. QED
    BY <1>0, <1>10, <1>11, <1>14, <1>15, <1>16, <1>17, <1>18 DEF OwnInv

LEMMA OwnOfStops ==
  ASSUME Typed, OwnInv, StopCall \/ StopOnExit
  PROVE  OwnInv'
  <1>1. CASE StopCall
    BY <1>1, RestOK, OwnOfKill DEF StopCall
  <1>2. CASE StopOnExit
    <2> DEFINE at == [pc EXCEPT !.back = TRUE]
    <2>1. at \in Handler /\ at.p = pc.p /\ pc.u \in Unit /\ pc.at = "unwatch"
      BY <1>2 DEF StopOnExit, Typed, CTypeOK, Placed, Handler
    <2>2. kill_context(pc.u, at)
      BY <1>2 DEF StopOnExit
    <2> HIDE DEF at
    <2>3. QED
      BY <2>1, <2>2, OwnOfKill
  <1>3. QED
    BY <1>1, <1>2

\* The end of a spawn.
LEMMA OwnOfAttachFails ==
  ASSUME Typed, OwnInv, AttachFails
  PROVE  OwnInv'
  <1>0. /\ UNCHANGED <<proc, queue, mem, hist>> /\ pc \in Handler /\ pc.at = "attach" /\ Resume(mem)
    BY DEF AttachFails, Typed, CTypeOK
  <1>1. Steady
    BY <1>0, SameSteady
  <1>2. CASE pc.back
    <2>1. pc' = [pc EXCEPT !.at = "unwatch", !.new = None, !.todo = <<>>] /\ disk' = disk
      BY <1>0, <1>2 DEF Resume
    <2>2. pc'.at = "unwatch" /\ pc'.u = pc.u /\ pc'.p = pc.p
      BY <1>0, <2>1 DEF Handler
    <2>3. Synced' /\ NewInHand' /\ Pending' = Pending
      BY <1>0, <2>2 DEF Synced, NewInHand, Pending
    <2>4. OldInHand'
      BY <1>0, <1>2, <2>2 DEF OldInHand, OwnInv
    <2>5. QED
      BY <1>0, <1>1, <2>1, <2>3, <2>4, SteadyStep
  <1>3. CASE ~ pc.back
    <2>1. pc' = Rest /\ disk' = mem
      BY <1>0, <1>3 DEF Resume
    <2>2. Pending' = Pending /\ NewInHand' /\ OldInHand'
      BY <1>0, <2>1, RestOK DEF Pending, NewInHand, OldInHand
    <2>3. Watched'
      BY <1>0 DEF OwnInv, Watched
    <2>4. QED
      BY <1>0, <1>1, <2>1, <2>2, <2>3, SteadyTables, CommittedOwn
  <1>4. QED
    BY <1>2, <1>3

LEMMA OwnOfAttached ==
  ASSUME Typed, OwnInv, Attached
  PROVE  OwnInv'
  <1> DEFINE a == add_watch_pid(mem, pc.u, pc.new)
             h == [a EXCEPT !.main[pc.u] = pc.new, !.ready = @ \ {pc.u}]
             cg == IF Running(pc.new) THEN pc.u ELSE proc[pc.new].cg
             k == ~ pc.back
             new == [proc[pc.new] EXCEPT !.cg = cg, !.kept = k]
  <1>0. /\ mem \in Held /\ disk \in Held /\ pc \in Handler /\ proc \in [Pid -> Process] /\ pc.at = "attach"
        /\ pc.u \in Unit /\ pc.new \in Pid /\ (pc.back => pc.p \in Pid) /\ UNCHANGED <<queue, hist>>
        /\ None \notin Unit \cup Pid
    BY ChildrenAssumption DEF Attached, Typed, CTypeOK, Placed
  <1>1. mem' = h /\ Resume(h)
    BY DEF Attached
  <1>2. /\ a.watch = [mem.watch EXCEPT ![pc.new] = pc.u] /\ a.pids = [mem.pids EXCEPT ![pc.u] = @ \cup {pc.new}]
        /\ a.main = mem.main /\ a.ready = mem.ready /\ a \in Held
    BY <1>0 DEF Held, add_watch_pid
  <1>3. proc' = [proc EXCEPT ![pc.new] = new]
    BY DEF Attached
  <1>4. new.st = proc[pc.new].st /\ new.cg = cg /\ new.parent = proc[pc.new].parent
    BY <1>0 DEF Process
  <1>5. new.sent = proc[pc.new].sent
    BY <1>0 DEF Process
  <1> HIDE DEF a, new
  <1>6. h.watch = a.watch /\ h.pids = a.pids
    BY <1>2 DEF Held
  <1>7. h.main = [a.main EXCEPT ![pc.u] = pc.new] /\ h.ready = a.ready \ {pc.u}
    BY <1>2 DEF Held
  <1> HIDE DEF h, k
  <1>8. proc'[pc.new] = new /\ \A p \in Pid : p # pc.new => proc'[p] = proc[p]
    BY <1>0, <1>3
  <1>9. /\ proc[pc.new].st # "free" /\ proc[pc.new].parent = None /\ Unowned(pc.new)
        /\ (pc.back => pc.new # pc.p) /\ (proc[pc.new].sent => pc.new \in ToSet(queue))
    BY <1>0 DEF OwnInv, NewInHand
  <1>10. /\ proc'[pc.new].st # "free" /\ proc'[pc.new].parent = None
         /\ proc'[pc.new].st = "run" => proc'[pc.new].cg = pc.u
    BY <1>4, <1>8, <1>9 DEF Running
  <1>11. proc'[pc.new].sent => pc.new \in ToSet(queue)
    BY <1>5, <1>8, <1>9
  <1>12. mem.watch \in [Pid -> Unit \cup {None}] /\ mem.pids \in [Unit -> SUBSET Pid]
         /\ mem.main \in [Unit -> Pid \cup {None}]
    BY <1>0 DEF Held
  <1>13. /\ \A v \in Unit : v # pc.u => mem'.pids[v] = mem.pids[v] /\ mem'.main[v] = mem.main[v]
         /\ mem'.pids[pc.u] = mem.pids[pc.u] \cup {pc.new} /\ mem'.main[pc.u] = pc.new
         /\ mem'.ready = mem.ready \ {pc.u}
         /\ mem'.watch[pc.new] = pc.u /\ \A p \in Pid : p # pc.new => mem'.watch[p] = mem.watch[p]
    BY <1>0, <1>1, <1>2, <1>6, <1>7, <1>12
  <1>14. Deaf' = Deaf /\ hist.leaked \subseteq Deaf /\ ToSet(queue) \subseteq Deaf
    BY <1>0 DEF Deaf
  <1>15. pc.back => pc' = [pc EXCEPT !.at = "unwatch", !.new = None, !.todo = <<>>] /\ disk' = disk
    BY <1>1 DEF Resume
  <1>16. ~ pc.back => pc' = Rest /\ disk' = mem'
    BY <1>1 DEF Resume
  <1>17. pc.back => pc'.at = "unwatch" /\ pc'.u = pc.u /\ pc'.p = pc.p
    BY <1>0, <1>15 DEF Handler
  <1>18. Pending = None /\ Pending' = None
    BY <1>0, <1>16, <1>17, RestOK DEF Pending
  <1>19. Own(proc', hist.leaked, mem')
    <2>1. ASSUME NEW p \in Pid \ hist.leaked, NEW v \in Unit, p \in mem'.pids[v]
          PROVE  /\ proc'[p].st # "free" /\ (proc'[p].st = "run" => proc'[p].cg = v)
                 /\ \A w \in Unit : p \in mem'.pids[w] => w = v
      <3>1. CASE p = pc.new
        <4>1. \A w \in Unit : p \notin mem.pids[w]
          BY <1>9, <3>1 DEF Unowned
        <4>2. \A w \in Unit : p \in mem'.pids[w] => w = pc.u
          BY <1>13, <4>1
        <4>3. QED
          BY <1>10, <2>1, <3>1, <4>2
      <3>2. CASE p # pc.new
        <4>1. \A w \in Unit : p \in mem'.pids[w] => p \in mem.pids[w]
          BY <1>13, <3>2
        <4>2. QED
          BY <1>8, <2>1, <3>2, <4>1 DEF OwnInv, Own
      <3>3. QED
        BY <3>1, <3>2
    <2>2. ASSUME NEW v \in Unit, mem'.main[v] # None, mem'.main[v] \notin hist.leaked
          PROVE  mem'.main[v] \in mem'.pids[v] /\ proc'[mem'.main[v]].parent = None
      <3>1. CASE v = pc.u
        BY <1>10, <1>13, <3>1
      <3>2. CASE v # pc.u
        <4>1. mem.main[v] \in mem.pids[v] /\ proc[mem.main[v]].parent = None /\ mem.main[v] \in Pid
          BY <1>12, <1>13, <2>2, <3>2 DEF OwnInv, Own
        <4>2. mem.main[v] # pc.new
          BY <1>9, <1>13, <2>2, <3>2, <4>1 DEF Unowned
        <4>3. QED
          BY <1>8, <1>13, <3>2, <4>1, <4>2
      <3>3. QED
        BY <3>1, <3>2
    <2>3. QED
      BY <2>1, <2>2 DEF Own
  <1>20. Heard(proc', Deaf, None, mem')
    <2>1. ASSUME NEW v \in Unit, mem'.main[v] # None, mem'.main[v] \notin Deaf, proc'[mem'.main[v]].sent
          PROVE  v \in mem'.ready
      <3>1. CASE v = pc.u
        BY <1>11, <1>13, <1>14, <2>1, <3>1
      <3>2. CASE v # pc.u
        <4>1. mem.main[v] \in mem.pids[v] /\ mem.main[v] \in Pid /\ mem.main[v] \notin hist.leaked
          BY <1>12, <1>13, <1>14, <2>1, <3>2 DEF OwnInv, Own
        <4>2. mem.main[v] # pc.new
          BY <1>9, <4>1 DEF Unowned
        <4>3. v \in mem.ready
          BY <1>8, <1>13, <1>18, <2>1, <3>2, <4>1, <4>2 DEF OwnInv, Heard
        <4>4. QED
          BY <1>13, <3>2, <4>3
      <3>3. QED
        BY <3>1, <3>2
    <2>2. QED
      BY <2>1 DEF Heard
  <1>21. Watched'
    <2>1. ASSUME NEW p \in Pid \ hist.leaked, NEW v \in Unit
          PROVE  mem'.watch[p] = v <=> p \in mem'.pids[v]
      <3>1. CASE p = pc.new
        <4>1. \A w \in Unit : p \notin mem.pids[w]
          BY <1>9, <3>1 DEF Unowned
        <4>2. QED
          BY <1>13, <3>1, <4>1
      <3>2. CASE p # pc.new
        <4>1. mem.watch[p] = v <=> p \in mem.pids[v]
          BY DEF OwnInv, Watched
        <4>2. QED
          BY <1>13, <3>2, <4>1
      <3>3. QED
        BY <3>1, <3>2
    <2>2. QED
      BY <1>0, <2>1 DEF Watched
  <1>22. NewInHand'
    BY <1>16, <1>17, RestOK DEF NewInHand
  <1>23. CASE pc.back
    <2>1. ASSUME NEW p \in Pid \ hist.leaked, \E u \in Unit : p \in disk.pids[u]
          PROVE  proc'[p] = proc[p] /\ proc[p].st # "free"
      <3>1. p # pc.new
        BY <1>9, <2>1 DEF Unowned
      <3>2. QED
        BY <1>8, <2>1, <3>1 DEF OwnInv, Own
    <2>2. \A p \in Pid \ hist.leaked : (\E u \in Unit : p \in disk.pids[u]) => Goes(proc, proc', p)
      BY <2>1 DEF Goes
    <2>3. Own(proc', hist.leaked, disk)
      BY <1>0, <2>2, OwnMoves DEF OwnInv
    <2>4. \A p \in Pid \ Deaf : (\E u \in Unit : p \in disk.pids[u]) => p \notin Deaf /\ (proc'[p].sent => proc[p].sent)
      BY <1>14, <2>1
    <2>5. Heard(proc', Deaf, None, disk)
      BY <1>0, <1>14, <1>18, <2>4, HeardMoves DEF OwnInv
    <2>6. Synced'
      BY <1>17, <1>23 DEF Synced
    <2>7. OldInHand'
      <3>1. proc'[pc.p] = proc[pc.p] /\ mem'.watch[pc.p] = mem.watch[pc.p] /\ mem'.main[pc.u] # pc.p
        BY <1>0, <1>8, <1>9, <1>13, <1>23
      <3>2. QED
        BY <1>0, <1>17, <1>23, <3>1 DEF OldInHand, OwnInv
    <2>8. QED
      BY <1>0, <1>14, <1>15, <1>18, <1>19, <1>20, <1>21, <1>22, <1>23, <2>3, <2>5, <2>6, <2>7 DEF OwnInv
  <1>24. CASE ~ pc.back
    <2>1. OldInHand'
      BY <1>16, <1>24, RestOK DEF OldInHand
    <2>2. QED
      BY <1>0, <1>14, <1>16, <1>18, <1>19, <1>20, <1>21, <1>22, <1>24, <2>1, CommittedOwn
  <1>25. QED
    BY <1>23, <1>24

LEMMA OwnInit ==
  ASSUME CInit
  PROVE  OwnInv
  <1>1. /\ \A u \in Unit : /\ mem.pids[u] = {} /\ mem.main[u] = None
                           /\ disk.pids[u] = {} /\ disk.main[u] = None
        /\ \A p \in Pid : mem.watch[p] = None
        /\ mem = disk /\ pc = Rest
    BY DEF CInit, Nothing
  <1>2. None \notin Unit
    BY ChildrenAssumption
  <1>3. Own(proc, hist.leaked, mem) /\ Heard(proc, Deaf, Pending, mem)
    BY <1>1 DEF Own, Heard
  <1>4. Watched /\ Synced /\ NewInHand /\ OldInHand
    BY <1>1, <1>2, RestOK DEF Watched, Synced, NewInHand, OldInHand
  <1>5. QED
    BY <1>1, <1>3, <1>4 DEF OwnInv

LEMMA OwnNext ==
  ASSUME Typed, OwnInv, [CNext]_vars
  PROVE  OwnInv'
  <1>1. CASE UNCHANGED vars
    <2>1. UNCHANGED <<proc, hist, queue, mem, disk, pc>>
      BY <1>1 DEF vars
    <2>2. QED
      BY <2>1, SameSteady, SteadyHands
  <1>2. QED
    BY <1>1, OwnOfProcesses, OwnOfCommands, OwnOfLooks, OwnOfKillOne, OwnOfReap, OwnOfPop, OwnOfExit,
       OwnOfUnwatch, OwnOfMessage, OwnOfCrash, OwnOfKillDone, OwnOfStops, OwnOfAttachFails, OwnOfAttached
    DEF CNext, Environment, Handle

LEMMA OwnMeans ==
  ASSUME Typed, OwnInv
  PROVE  MainIsOurs /\ ReadySeen
  <1>0. mem.main \in [Unit -> Pid \cup {None}]
    BY DEF Typed, CTypeOK, Held
  <1>1. MainIsOurs
    BY <1>0 DEF MainIsOurs, OwnInv, Own, Watched, Running
  <1>2. pc.at = "idle" => Pending = None
    BY DEF Pending
  <1>3. ReadySeen
    BY <1>0, <1>2 DEF ReadySeen, OwnInv, Heard, Deaf
  <1>4. QED
    BY <1>1, <1>3

\* The pid a unit takes for its main process is watched for it and is that process, in its
\* cgroup or a zombie, whatever the processes do meanwhile, however often the pid is used
\* again, and with a crash at any point; but for the watches that outlive a process.
THEOREM MainsAreOurs == CSpec => []MainIsOurs
  <1>1. CInit => Typed /\ OwnInv
    BY ChildrenInit, OwnInit
  <1>2. Typed /\ OwnInv /\ [CNext]_vars => (Typed /\ OwnInv)'
    BY ChildrenNext, OwnNext DEF StepOK
  <1>3. Typed /\ OwnInv => MainIsOurs
    BY OwnMeans
  <1>4. QED
    BY <1>1, <1>2, <1>3, PTL DEF CSpec

\* notify_dispatch delivers READY=1 of a main process: sent before the watch was added,
\* during another handler or before a crash; but for a crash that comes between the pop of
\* the message and the commit.
THEOREM ReadyIsSeen == CSpec => []ReadySeen
  <1>1. CInit => Typed /\ OwnInv
    BY ChildrenInit, OwnInit
  <1>2. Typed /\ OwnInv /\ [CNext]_vars => (Typed /\ OwnInv)'
    BY ChildrenNext, OwnNext DEF StepOK
  <1>3. Typed /\ OwnInv => ReadySeen
    BY OwnMeans
  <1>4. QED
    BY <1>1, <1>2, <1>3, PTL DEF CSpec

===============================================================================
