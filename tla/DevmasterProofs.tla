--------------------------- MODULE DevmasterProofs ---------------------------
(***************************************************************************)
(* Proofs about Devmaster, for any number of workers, uevents and kills:   *)
(* what worker_response_dispose unwraps is there, and no device is in the  *)
(* hands of two workers.  And about Enumerator, for any tree of /sys that  *)
(* the kernel may show and any match rules: what an enumeration yields,    *)
(* and in which order.                                                     *)
(*                                                                         *)
(* The invariant of the daemon follows one job of a worker on its way: it  *)
(* is a message in the channel, or in the thread, or an answer that waits, *)
(* in at most one of the three and only while the worker is bound to it.   *)
(* A kill does not disturb this although it overtakes nothing and unbinds  *)
(* nothing: a killed worker may finish, become idle and be given a job it  *)
(* will never take up, and its job stays bound to a worker that is gone.   *)
(*                                                                         *)
(* An enumeration is a scan, a sort and the calls of next.  Scanned says   *)
(* what a scan does from any of its states to any later one, ListOf what   *)
(* the sort returns, and StateInv joins the two with what was yielded.     *)
(***************************************************************************)
EXTENDS Devmaster, Enumerator, Induction, WellFoundedInduction, FiniteSetTheorems, SequenceTheorems, TLAPS

JobRec == [state : JobState, worker : Id \cup {Nothing}]
WorkerRec == [state : WorkerState, job : Seqnum \cup {Nothing}]
Msg == [kind : {"job", "kill"}, n : Seqnum \cup {Nothing}]
AckRec == [kind : {"finished", "killed"}, id : Id]

\* Every variable has its type.
DTypeOK ==
  /\ DOMAIN jobs \subseteq Seqnum /\ jobs \in [DOMAIN jobs -> JobRec]
  /\ DOMAIN workers \subseteq Id /\ workers \in [DOMAIN workers -> WorkerRec]
  /\ chan \in [Id -> Seq(Msg)]
  /\ thread \in [Id -> Seqnum \cup {Resting, Ended}]
  /\ acks \in Seq(AckRec)

\* A worker and its job know each other; an idle one has none.
Bound ==
  \A i \in DOMAIN workers :
    /\ workers[i].job # Nothing => /\ workers[i].job \in DOMAIN jobs
                                   /\ jobs[workers[i].job].state = "Running"
                                   /\ jobs[workers[i].job].worker = i
    /\ workers[i].state = "Idle" => workers[i].job = Nothing

\* No answer of worker i that it has finished is waiting.
NoAnswer(i) == \A l \in DOMAIN acks : acks[l].kind = "finished" => acks[l].id # i

\* The three places of a job on its way.
InChannel ==
  \A i \in DOMAIN workers : \A k \in DOMAIN chan[i] : chan[i][k].kind = "job" =>
    /\ chan[i][k].n \in Seqnum /\ chan[i][k].n = workers[i].job
    /\ thread[i] \notin Seqnum /\ NoAnswer(i)
    /\ \A l \in DOMAIN chan[i] : chan[i][l].kind = "job" => l = k
InThread ==
  \A i \in Id : thread[i] \in Seqnum =>
    i \in DOMAIN workers /\ workers[i].job = thread[i] /\ NoAnswer(i)
Answered ==
  \A k \in DOMAIN acks :
    /\ acks[k].id \in DOMAIN workers
    /\ acks[k].kind = "finished" =>
          /\ workers[acks[k].id].job # Nothing
          /\ \A l \in DOMAIN acks : acks[l].kind = "finished" /\ acks[l].id = acks[k].id => l = k
    /\ acks[k].kind = "killed" =>
          /\ thread[acks[k].id] = Ended
          /\ \A l \in DOMAIN acks : l > k => acks[l].id # acks[k].id

\* A worker that is not in the table has no thread.
Gone == \A i \in Id : i \notin DOMAIN workers => thread[i] = Ended

DInv == DTypeOK /\ Bound /\ InChannel /\ InThread /\ Answered /\ Gone

-----------------------------------------------------------------------------
\* The smallest of a set of numbers, for the first job in the queue.
LEMMA Least ==
  ASSUME NEW T \in SUBSET Nat, T # {}
  PROVE  \E n \in T : \A k \in T : n <= k
  <1>1. PICK x \in T : \A y \in T : ~ (<<y, x>> \in OpToRel(<, Nat))
    BY NatLessThanWellFounded, WFMin
  <1>2. \A y \in T : y < x => <<y, x>> \in OpToRel(<, Nat)
    BY DEF OpToRel
  <1>3. \A y \in T : ~ (y < x)
    BY <1>1, <1>2, Zenon
  <1>4. QED
    BY <1>3

LEMMA Apart ==
  /\ Nothing \notin Seqnum /\ Resting \notin Seqnum /\ Ended \notin Seqnum /\ Resting # Ended
  /\ Seqnum \subseteq Nat
  BY DevmasterAssumption DEF Nothing, Resting, Ended

LEMMA AppendOK ==
  ASSUME NEW S, NEW s \in Seq(S), NEW x \in S
  PROVE  /\ Append(s, x) \in Seq(S)
         /\ DOMAIN Append(s, x) = DOMAIN s \cup {Len(s) + 1}
         /\ Append(s, x)[Len(s) + 1] = x
         /\ Len(s) + 1 \in Nat
         /\ \A k \in DOMAIN s : Append(s, x)[k] = s[k] /\ k \in Nat /\ k < Len(s) + 1
  OBVIOUS

LEMMA TailOK ==
  ASSUME NEW S, NEW s \in Seq(S), s # << >>
  PROVE  /\ Tail(s) \in Seq(S) /\ 1 \in DOMAIN s /\ Head(s) = s[1] /\ Head(s) \in S
         /\ \A k \in DOMAIN Tail(s) : /\ k \in Nat /\ k + 1 \in DOMAIN s /\ k + 1 > 1
                                      /\ Tail(s)[k] = s[k + 1]
  OBVIOUS

LEMMA FirstQueued ==
  ASSUME DTypeOK, queued # {}
  PROVE  first_queued \in queued
  <1>1. queued \in SUBSET Nat
    BY Apart DEF queued, DTypeOK
  <1>2. \E n \in queued : \A k \in queued : n <= k
    BY <1>1, Least
  <1>3. QED
    BY <1>2 DEF first_queued

-----------------------------------------------------------------------------
\* A job is given to a worker that is idle, or to a new one.
LEMMA DispatchStep ==
  ASSUME DInv, queued # {}, NEW i \in candidates, job_dispatch(i)
  PROVE  DInv'
  <1> DEFINE n == first_queued
             msg == [kind |-> "job", n |-> n]
             w == [state |-> "Running", job |-> n]
             j == [state |-> "Running", worker |-> i]
             old == IF i \in DOMAIN workers THEN chan[i] ELSE << >>
  <1>0. DTypeOK /\ Bound /\ InChannel /\ InThread /\ Answered /\ Gone
    BY DEF DInv
  <1>1. n \in DOMAIN jobs /\ jobs[n].state = "Queued" /\ n \in Seqnum
    BY <1>0, FirstQueued DEF DTypeOK, queued
  <1>2. /\ i \in Id
        /\ i \in DOMAIN workers => workers[i].state = "Idle"
    BY <1>0 DEF candidates, idle, create_new_worker, DTypeOK
  <1>3. /\ workers' = with(workers, i, w)
        /\ thread' = IF i \in DOMAIN workers THEN thread ELSE [thread EXCEPT ![i] = Resting]
        /\ chan' = [chan EXCEPT ![i] = Append(old, msg)]
        /\ jobs' = [jobs EXCEPT ![n] = j]
        /\ acks' = acks
    BY DEF job_dispatch, bind
  <1>4. old \in Seq(Msg)
    <2>1. << >> \in Seq(Msg)
      OBVIOUS
    <2>2. QED
      BY <1>0, <1>2, <2>1 DEF DTypeOK
  <1>5. /\ msg \in Msg /\ msg.kind = "job" /\ msg.n = n
        /\ w \in WorkerRec /\ w.state = "Running" /\ w.job = n
        /\ j \in JobRec /\ j.state = "Running" /\ j.worker = i
    BY <1>1, <1>2 DEF Msg, WorkerRec, JobRec, JobState, WorkerState
  <1> HIDE DEF n, msg, old, w, j
  <1>6. /\ DOMAIN workers' = DOMAIN workers \cup {i}
        /\ workers'[i] = w
        /\ \A y \in DOMAIN workers : y # i => workers'[y] = workers[y]
    BY <1>3 DEF with
  <1>7. /\ DOMAIN jobs' = DOMAIN jobs /\ jobs'[n] = j
        /\ \A y \in DOMAIN jobs : y # n => jobs'[y] = jobs[y]
    BY <1>0, <1>1, <1>3 DEF DTypeOK
  <1>8. /\ Append(old, msg) \in Seq(Msg) /\ DOMAIN Append(old, msg) = DOMAIN old \cup {Len(old) + 1}
        /\ Append(old, msg)[Len(old) + 1] = msg
        /\ \A k \in DOMAIN old : Append(old, msg)[k] = old[k]
    BY <1>4, <1>5, AppendOK
  <1>9. chan \in [Id -> Seq(Msg)] /\ thread \in [Id -> Seqnum \cup {Resting, Ended}]
    BY <1>0 DEF DTypeOK
  <1>10. /\ chan'[i] = Append(old, msg)
         /\ chan' \in [Id -> Seq(Msg)]
         /\ \A y \in Id : y # i => chan'[y] = chan[y]
    BY <1>2, <1>3, <1>8, <1>9
  <1>11. /\ thread' \in [Id -> Seqnum \cup {Resting, Ended}]
         /\ \A y \in Id : y # i => thread'[y] = thread[y]
         /\ i \in DOMAIN workers => thread'[i] = thread[i]
         /\ i \notin DOMAIN workers => thread'[i] = Resting
    BY <1>2, <1>3, <1>9
  <1>12. \A y \in DOMAIN workers : workers[y].job # n
    BY <1>0, <1>1, Apart DEF Bound
  <1>13. i \in DOMAIN workers => workers[i].job = Nothing
    BY <1>0, <1>2 DEF Bound
  <1>14. DTypeOK'
    <2>1. jobs' \in [DOMAIN jobs' -> JobRec] /\ DOMAIN jobs' \subseteq Seqnum
      BY <1>0, <1>1, <1>3, <1>5 DEF DTypeOK
    <2>2. workers' \in [DOMAIN workers' -> WorkerRec] /\ DOMAIN workers' \subseteq Id
      <3>1. \A y \in DOMAIN workers' : workers'[y] \in WorkerRec
        BY <1>0, <1>5, <1>6 DEF DTypeOK
      <3>2. workers' = [y \in DOMAIN workers' |-> workers'[y]]
        BY <1>3 DEF with
      <3>3. DOMAIN workers' \subseteq Id
        BY <1>0, <1>2, <1>6 DEF DTypeOK
      <3>4. QED
        BY <3>1, <3>2, <3>3
    <2>3. QED
      BY <1>0, <1>3, <1>10, <1>11, <2>1, <2>2 DEF DTypeOK
  <1>15. Bound'
    <2> SUFFICES ASSUME NEW y \in DOMAIN workers'
                 PROVE  /\ workers'[y].job # Nothing => /\ workers'[y].job \in DOMAIN jobs'
                                                        /\ jobs'[workers'[y].job].state = "Running"
                                                        /\ jobs'[workers'[y].job].worker = y
                        /\ workers'[y].state = "Idle" => workers'[y].job = Nothing
      BY DEF Bound
    <2>1. CASE y = i
      BY <1>1, <1>5, <1>6, <1>7, <2>1
    <2>2. CASE y # i
      BY <1>0, <1>6, <1>7, <1>12, <2>2 DEF Bound
    <2>3. QED
      BY <2>1, <2>2
  <1>16. NoAnswer(i)
    BY <1>0, <1>13 DEF Answered, NoAnswer
  <1>17. thread'[i] \notin Seqnum
    <2>1. CASE i \in DOMAIN workers
      BY <1>0, <1>2, <1>11, <1>13, <2>1, Apart DEF InThread
    <2>2. CASE i \notin DOMAIN workers
      BY <1>11, <2>2, Apart
    <2>3. QED
      BY <2>1, <2>2
  <1>18. \A k \in DOMAIN old : old[k].kind # "job"
    <2>1. CASE i \in DOMAIN workers
      BY <1>0, <1>13, <2>1, Apart DEF old, InChannel
    <2>2. CASE i \notin DOMAIN workers
      BY <2>2 DEF old
    <2>3. QED
      BY <2>1, <2>2
  <1>19. InChannel'
    <2> SUFFICES ASSUME NEW y \in DOMAIN workers', NEW k \in DOMAIN chan'[y], chan'[y][k].kind = "job"
                 PROVE  /\ chan'[y][k].n \in Seqnum /\ chan'[y][k].n = workers'[y].job
                        /\ thread'[y] \notin Seqnum /\ NoAnswer(y)'
                        /\ \A l \in DOMAIN chan'[y] : chan'[y][l].kind = "job" => l = k
      BY DEF InChannel
    <2>1. CASE y = i
      <3>0. \A l \in DOMAIN Append(old, msg) : Append(old, msg)[l].kind = "job" => l = Len(old) + 1
        BY <1>8, <1>18
      <3>1. k = Len(old) + 1 /\ \A l \in DOMAIN chan'[y] : chan'[y][l].kind = "job" => l = k
        <4>1. chan'[y] = Append(old, msg)
          BY <1>10, <2>1
        <4>2. QED
          BY <3>0, <4>1
      <3>2. NoAnswer(y)'
        BY <1>3, <1>16, <2>1 DEF NoAnswer
      <3>3. QED
        BY <1>1, <1>5, <1>6, <1>8, <1>10, <1>17, <2>1, <3>1, <3>2
    <2>2. CASE y # i
      <3>1. y \in DOMAIN workers /\ y \in Id /\ workers'[y] = workers[y] /\ chan'[y] = chan[y]
            /\ thread'[y] = thread[y]
        BY <1>0, <1>6, <1>10, <1>11, <2>2 DEF DTypeOK
      <3>2. NoAnswer(y) => NoAnswer(y)'
        BY <1>3 DEF NoAnswer
      <3>3. QED
        BY <1>0, <3>1, <3>2 DEF InChannel
    <2>3. QED
      BY <2>1, <2>2
  <1>20. InThread'
    BY <1>0, <1>3, <1>6, <1>11, <1>17 DEF InThread, NoAnswer
  <1>21. Answered'
    <2> SUFFICES ASSUME NEW k \in DOMAIN acks
                 PROVE  /\ acks[k].id \in DOMAIN workers'
                        /\ acks[k].kind = "finished" => workers'[acks[k].id].job # Nothing
                        /\ acks[k].kind = "killed" => thread'[acks[k].id] = Ended
      BY <1>0, <1>3 DEF Answered
    <2>1. acks[k].id \in DOMAIN workers /\ acks[k].id \in Id
      BY <1>0 DEF Answered, DTypeOK
    <2>2. CASE acks[k].id = i
      BY <1>0, <1>1, <1>5, <1>6, <1>11, <2>1, <2>2, Apart DEF Answered
    <2>3. CASE acks[k].id # i
      BY <1>0, <1>6, <1>11, <2>1, <2>3 DEF Answered
    <2>4. QED
      BY <2>2, <2>3
  <1>22. Gone'
    BY <1>0, <1>6, <1>11 DEF Gone
  <1>23. QED
    BY <1>14, <1>15, <1>19, <1>20, <1>21, <1>22 DEF DInv

\* A uevent enters the queue, or is refused.
LEMMA UeventStep ==
  ASSUME DInv, NEW n \in Seqnum, Uevent(n)
  PROVE  DInv'
  <1> DEFINE j == [state |-> "Queued", worker |-> Nothing]
  <1>0. DTypeOK /\ Bound /\ InChannel /\ InThread /\ Answered /\ Gone
    BY DEF DInv
  <1>1. jobs' = job_queue_insert(jobs, n) /\ UNCHANGED <<workers, chan, thread, acks>>
    BY DEF Uevent
  <1>2. j \in JobRec
    BY DEF JobRec, JobState
  <1>3. jobs' = jobs \/ (n \notin DOMAIN jobs /\ jobs' = with(jobs, n, j))
    BY <1>1 DEF job_queue_insert
  <1> HIDE DEF j
  <1>4. /\ DOMAIN jobs' \subseteq Seqnum /\ jobs' \in [DOMAIN jobs' -> JobRec]
        /\ \A y \in DOMAIN jobs : y \in DOMAIN jobs' /\ jobs'[y] = jobs[y]
    <2>1. CASE jobs' = jobs
      BY <1>0, <2>1 DEF DTypeOK
    <2>2. CASE n \notin DOMAIN jobs /\ jobs' = with(jobs, n, j)
      <3>1. jobs' = [y \in DOMAIN jobs \cup {n} |-> IF y = n THEN j ELSE jobs[y]]
        BY <2>2 DEF with
      <3>2. QED
        BY <1>0, <1>2, <2>2, <3>1 DEF DTypeOK
    <2>3. QED
      BY <1>3, <2>1, <2>2
  <1>5. DTypeOK'
    BY <1>0, <1>1, <1>4 DEF DTypeOK
  <1>6. Bound'
    BY <1>0, <1>1, <1>4 DEF Bound
  <1>7. InChannel' /\ InThread' /\ Answered' /\ Gone'
    BY <1>0, <1>1 DEF InChannel, InThread, Answered, Gone, NoAnswer
  <1>8. QED
    BY <1>5, <1>6, <1>7 DEF DInv

\* Every worker is sent a kill and marked.
LEMMA KillStep ==
  ASSUME DInv, KillWorkers
  PROVE  DInv'
  <1> DEFINE msg == [kind |-> "kill", n |-> Nothing]
  <1>0. DTypeOK /\ Bound /\ InChannel /\ InThread /\ Answered /\ Gone
    BY DEF DInv
  <1>1. /\ workers' = [i \in DOMAIN workers |-> [workers[i] EXCEPT !.state = "Killing"]]
        /\ chan' = [i \in Id |-> IF i \in DOMAIN workers THEN Append(chan[i], msg) ELSE chan[i]]
        /\ UNCHANGED <<jobs, thread, acks>>
    BY DEF KillWorkers
  <1>2. msg \in Msg /\ msg.kind = "kill"
    BY DEF Msg
  <1> HIDE DEF msg
  <1>3. /\ DOMAIN workers' = DOMAIN workers
        /\ \A i \in DOMAIN workers : workers'[i] \in WorkerRec /\ workers'[i].state = "Killing"
                                       /\ workers'[i].job = workers[i].job
    BY <1>0, <1>1 DEF DTypeOK, WorkerRec, WorkerState
  <1>4. ASSUME NEW i \in DOMAIN workers
        PROVE  /\ i \in Id /\ chan'[i] \in Seq(Msg)
               /\ \A k \in DOMAIN chan'[i] : chan'[i][k].kind = "job" =>
                    k \in DOMAIN chan[i] /\ chan'[i][k] = chan[i][k]
    <2>1. i \in Id /\ chan[i] \in Seq(Msg)
      BY <1>0 DEF DTypeOK
    <2>2. chan'[i] = Append(chan[i], msg)
      BY <1>1, <2>1
    <2>3. QED
      BY <1>2, <2>1, <2>2, AppendOK
  <1>5. DTypeOK'
    <2>1. workers' \in [DOMAIN workers' -> WorkerRec]
      BY <1>1, <1>3
    <2>2. chan' \in [Id -> Seq(Msg)]
      BY <1>0, <1>1, <1>4 DEF DTypeOK
    <2>3. QED
      BY <1>0, <1>1, <1>3, <2>1, <2>2 DEF DTypeOK
  <1>6. Bound'
    BY <1>0, <1>1, <1>3 DEF Bound
  <1>7. \A i : NoAnswer(i) => NoAnswer(i)'
    BY <1>1 DEF NoAnswer
  <1>8. InChannel'
    <2> SUFFICES ASSUME NEW y \in DOMAIN workers, NEW k \in DOMAIN chan'[y], chan'[y][k].kind = "job"
                 PROVE  /\ chan'[y][k].n \in Seqnum /\ chan'[y][k].n = workers'[y].job
                        /\ thread'[y] \notin Seqnum /\ NoAnswer(y)'
                        /\ \A l \in DOMAIN chan'[y] : chan'[y][l].kind = "job" => l = k
      BY <1>3 DEF InChannel
    <2>1. k \in DOMAIN chan[y] /\ chan'[y][k] = chan[y][k]
      BY <1>4
    <2>2. /\ chan[y][k].n \in Seqnum /\ chan[y][k].n = workers[y].job /\ thread[y] \notin Seqnum
          /\ NoAnswer(y) /\ \A l \in DOMAIN chan[y] : chan[y][l].kind = "job" => l = k
      BY <1>0, <2>1 DEF InChannel
    <2>3. \A l \in DOMAIN chan'[y] : chan'[y][l].kind = "job" => l = k
      BY <1>4, <2>2
    <2>4. QED
      BY <1>1, <1>3, <1>7, <2>1, <2>2, <2>3
  <1>9. InThread' /\ Answered' /\ Gone'
    BY <1>0, <1>1, <1>3 DEF InThread, Answered, Gone, NoAnswer, DTypeOK
  <1>10. QED
    BY <1>5, <1>6, <1>8, <1>9 DEF DInv

\* The answer that is taken is the oldest; the others move up.
LEMMA AcksMove ==
  ASSUME DTypeOK, acks # << >>, acks' = Tail(acks)
  PROVE  /\ acks' \in Seq(AckRec) /\ 1 \in DOMAIN acks /\ Head(acks) = acks[1]
         /\ \A k \in DOMAIN acks' : k \in Nat /\ k + 1 \in DOMAIN acks /\ k + 1 > 1 /\ acks'[k] = acks[k + 1]
         /\ \A i : NoAnswer(i) => NoAnswer(i)'
  <1>1. acks \in Seq(AckRec)
    BY DEF DTypeOK
  <1>2. /\ acks' \in Seq(AckRec) /\ 1 \in DOMAIN acks /\ Head(acks) = acks[1]
        /\ \A k \in DOMAIN acks' : k \in Nat /\ k + 1 \in DOMAIN acks /\ k + 1 > 1 /\ acks'[k] = acks[k + 1]
    BY <1>1, TailOK
  <1>3. \A i : NoAnswer(i) => NoAnswer(i)'
    BY <1>2 DEF NoAnswer
  <1>4. QED
    BY <1>2, <1>3

\* The worker is idle and its job is gone: nothing of it is left on the way.
LEMMA FinishedStep ==
  ASSUME DInv, acks # << >>, acks' = Tail(acks), Head(acks).kind = "finished",
         dispose_finished(Head(acks).id), UNCHANGED <<chan, thread>>
  PROVE  DInv'
  <1> DEFINE i == Head(acks).id
             n == workers[i].job
             w == [state |-> "Idle", job |-> Nothing]
  <1>0. DTypeOK /\ Bound /\ InChannel /\ InThread /\ Answered /\ Gone
    BY DEF DInv
  <1>1. /\ acks' \in Seq(AckRec) /\ 1 \in DOMAIN acks /\ Head(acks) = acks[1]
        /\ \A k \in DOMAIN acks' : k \in Nat /\ k + 1 \in DOMAIN acks /\ k + 1 > 1 /\ acks'[k] = acks[k + 1]
        /\ \A y : NoAnswer(y) => NoAnswer(y)'
    BY <1>0, AcksMove
  <1>2. workers' = [workers EXCEPT ![i] = w] /\ jobs' = without(jobs, n)
    BY DEF dispose_finished, job_free
  <1>3. w \in WorkerRec /\ w.state = "Idle" /\ w.job = Nothing
    BY DEF WorkerRec, WorkerState
  <1>4. acks[1].kind = "finished" /\ acks[1].id = i
    BY <1>1
  <1> HIDE DEF i, w
  <1>5. /\ i \in DOMAIN workers /\ i \in Id /\ n # Nothing
        /\ \A l \in DOMAIN acks : acks[l].kind = "finished" /\ acks[l].id = i => l = 1
    BY <1>0, <1>1, <1>4 DEF Answered, DTypeOK
  <1>6. n \in DOMAIN jobs /\ jobs[n].worker = i
    BY <1>0, <1>5 DEF Bound
  <1> HIDE DEF n
  <1>7. /\ DOMAIN workers' = DOMAIN workers /\ workers'[i] = w
        /\ \A y \in DOMAIN workers : y # i => workers'[y] = workers[y]
        /\ workers' \in [DOMAIN workers' -> WorkerRec]
    BY <1>0, <1>2, <1>3, <1>5 DEF DTypeOK
  <1>8. /\ DOMAIN jobs' = DOMAIN jobs \ {n} /\ jobs' \in [DOMAIN jobs' -> JobRec]
        /\ \A y \in DOMAIN jobs : y # n => jobs'[y] = jobs[y]
    BY <1>0, <1>2 DEF without, DTypeOK
  <1>9. \A y \in DOMAIN workers : y # i => workers[y].job # n
    BY <1>0, <1>6, Apart DEF Bound, DTypeOK
  <1>10. ~ NoAnswer(i)
    BY <1>1, <1>4 DEF NoAnswer
  <1>12. DTypeOK'
    BY <1>0, <1>1, <1>7, <1>8 DEF DTypeOK
  <1>13. Bound'
    <2> SUFFICES ASSUME NEW y \in DOMAIN workers'
                 PROVE  /\ workers'[y].job # Nothing => /\ workers'[y].job \in DOMAIN jobs'
                                                        /\ jobs'[workers'[y].job].state = "Running"
                                                        /\ jobs'[workers'[y].job].worker = y
                        /\ workers'[y].state = "Idle" => workers'[y].job = Nothing
      BY DEF Bound
    <2>1. CASE y = i
      BY <1>3, <1>7, <2>1
    <2>2. CASE y # i
      BY <1>0, <1>7, <1>8, <1>9, <2>2 DEF Bound
    <2>3. QED
      BY <2>1, <2>2
  <1>14. InChannel'
    <2> SUFFICES ASSUME NEW y \in DOMAIN workers, NEW k \in DOMAIN chan[y], chan[y][k].kind = "job"
                 PROVE  /\ chan[y][k].n \in Seqnum /\ chan[y][k].n = workers'[y].job
                        /\ thread[y] \notin Seqnum /\ NoAnswer(y)'
                        /\ \A l \in DOMAIN chan[y] : chan[y][l].kind = "job" => l = k
      BY <1>7 DEF InChannel
    <2>1. y # i
      BY <1>0, <1>10 DEF InChannel
    <2>2. QED
      BY <1>0, <1>1, <1>7, <2>1 DEF InChannel
  <1>15. InThread'
    <2> SUFFICES ASSUME NEW y \in Id, thread[y] \in Seqnum
                 PROVE  y \in DOMAIN workers' /\ workers'[y].job = thread[y] /\ NoAnswer(y)'
      BY DEF InThread
    <2>1. y # i
      BY <1>0, <1>10 DEF InThread
    <2>2. QED
      BY <1>0, <1>1, <1>7, <2>1 DEF InThread
  <1>16. Answered'
    <2> SUFFICES ASSUME NEW k \in DOMAIN acks'
                 PROVE  /\ acks'[k].id \in DOMAIN workers'
                        /\ acks'[k].kind = "finished" =>
                              /\ workers'[acks'[k].id].job # Nothing
                              /\ \A l \in DOMAIN acks' : acks'[l].kind = "finished" /\ acks'[l].id = acks'[k].id => l = k
                        /\ acks'[k].kind = "killed" =>
                              /\ thread'[acks'[k].id] = Ended
                              /\ \A l \in DOMAIN acks' : l > k => acks'[l].id # acks'[k].id
      BY DEF Answered
    <2>1. k \in Nat /\ k + 1 \in DOMAIN acks /\ acks'[k] = acks[k + 1] /\ acks[k + 1].id \in DOMAIN workers
      BY <1>0, <1>1 DEF Answered
    <2>2. ASSUME acks'[k].kind = "finished"
          PROVE  /\ workers'[acks'[k].id].job # Nothing
                 /\ \A l \in DOMAIN acks' : acks'[l].kind = "finished" /\ acks'[l].id = acks'[k].id => l = k
      <3>1. acks[k + 1].id # i
        BY <1>5, <2>1, <2>2
      <3>2. workers[acks[k + 1].id].job # Nothing
            /\ \A l \in DOMAIN acks : acks[l].kind = "finished" /\ acks[l].id = acks[k + 1].id => l = k + 1
        BY <1>0, <2>1, <2>2 DEF Answered
      <3>3. \A l \in DOMAIN acks' : acks'[l].kind = "finished" /\ acks'[l].id = acks'[k].id => l = k
        BY <1>1, <2>1, <3>2
      <3>4. QED
        BY <1>7, <2>1, <3>1, <3>2, <3>3
    <2>3. ASSUME acks'[k].kind = "killed"
          PROVE  /\ thread'[acks'[k].id] = Ended
                 /\ \A l \in DOMAIN acks' : l > k => acks'[l].id # acks'[k].id
      <3>1. thread[acks[k + 1].id] = Ended
            /\ \A l \in DOMAIN acks : l > k + 1 => acks[l].id # acks[k + 1].id
        BY <1>0, <2>1, <2>3 DEF Answered
      <3>2. QED
        BY <1>1, <2>1, <3>1
    <2>4. QED
      BY <1>7, <2>1, <2>2, <2>3
  <1>17. Gone'
    BY <1>0, <1>7 DEF Gone
  <1>18. QED
    BY <1>12, <1>13, <1>14, <1>15, <1>16, <1>17 DEF DInv

\* The worker leaves the table: its thread has ended, and it says no more.
LEMMA KilledStep ==
  ASSUME DInv, acks # << >>, acks' = Tail(acks), Head(acks).kind = "killed",
         dispose_killed(Head(acks).id), UNCHANGED <<chan, thread>>
  PROVE  DInv'
  <1> DEFINE i == Head(acks).id
  <1>0. DTypeOK /\ Bound /\ InChannel /\ InThread /\ Answered /\ Gone
    BY DEF DInv
  <1>1. /\ acks' \in Seq(AckRec) /\ 1 \in DOMAIN acks /\ Head(acks) = acks[1]
        /\ \A k \in DOMAIN acks' : k \in Nat /\ k + 1 \in DOMAIN acks /\ k + 1 > 1 /\ acks'[k] = acks[k + 1]
        /\ \A y : NoAnswer(y) => NoAnswer(y)'
    BY <1>0, AcksMove
  <1>2. workers' = without(workers, i) /\ jobs' = jobs
    BY DEF dispose_killed
  <1>3. acks[1].kind = "killed" /\ acks[1].id = i
    BY <1>1
  <1> HIDE DEF i
  <1>4. /\ thread[i] = Ended
        /\ \A l \in DOMAIN acks : l > 1 => acks[l].id # i
    BY <1>0, <1>1, <1>3 DEF Answered
  <1>5. /\ DOMAIN workers' = DOMAIN workers \ {i} /\ workers' \in [DOMAIN workers' -> WorkerRec]
        /\ \A y \in DOMAIN workers : y # i => workers'[y] = workers[y]
    BY <1>0, <1>2 DEF without, DTypeOK
  <1>6. DTypeOK'
    BY <1>0, <1>1, <1>2, <1>5 DEF DTypeOK
  <1>7. Bound'
    BY <1>0, <1>2, <1>5 DEF Bound
  <1>8. InChannel'
    BY <1>0, <1>1, <1>5 DEF InChannel
  <1>9. InThread'
    BY <1>0, <1>1, <1>4, <1>5, Apart DEF InThread
  <1>10. Answered'
    <2> SUFFICES ASSUME NEW k \in DOMAIN acks'
                 PROVE  /\ acks'[k].id \in DOMAIN workers'
                        /\ acks'[k].kind = "finished" =>
                              /\ workers'[acks'[k].id].job # Nothing
                              /\ \A l \in DOMAIN acks' : acks'[l].kind = "finished" /\ acks'[l].id = acks'[k].id => l = k
                        /\ acks'[k].kind = "killed" =>
                              /\ thread'[acks'[k].id] = Ended
                              /\ \A l \in DOMAIN acks' : l > k => acks'[l].id # acks'[k].id
      BY DEF Answered
    <2>1. /\ k \in Nat /\ k + 1 \in DOMAIN acks /\ acks'[k] = acks[k + 1]
          /\ acks[k + 1].id \in DOMAIN workers /\ acks[k + 1].id # i
      BY <1>0, <1>1, <1>4 DEF Answered
    <2>2. ASSUME acks'[k].kind = "finished"
          PROVE  /\ workers'[acks'[k].id].job # Nothing
                 /\ \A l \in DOMAIN acks' : acks'[l].kind = "finished" /\ acks'[l].id = acks'[k].id => l = k
      <3>1. workers[acks[k + 1].id].job # Nothing
            /\ \A l \in DOMAIN acks : acks[l].kind = "finished" /\ acks[l].id = acks[k + 1].id => l = k + 1
        BY <1>0, <2>1, <2>2 DEF Answered
      <3>2. \A l \in DOMAIN acks' : acks'[l].kind = "finished" /\ acks'[l].id = acks'[k].id => l = k
        BY <1>1, <2>1, <3>1
      <3>3. QED
        BY <1>5, <2>1, <3>1, <3>2
    <2>3. ASSUME acks'[k].kind = "killed"
          PROVE  /\ thread'[acks'[k].id] = Ended
                 /\ \A l \in DOMAIN acks' : l > k => acks'[l].id # acks'[k].id
      <3>1. thread[acks[k + 1].id] = Ended
            /\ \A l \in DOMAIN acks : l > k + 1 => acks[l].id # acks[k + 1].id
        BY <1>0, <2>1, <2>3 DEF Answered
      <3>2. QED
        BY <1>1, <2>1, <3>1
    <2>4. QED
      BY <1>5, <2>1, <2>2, <2>3
  <1>11. Gone'
    BY <1>0, <1>4, <1>5 DEF Gone
  <1>12. QED
    BY <1>6, <1>7, <1>8, <1>9, <1>10, <1>11 DEF DInv

-----------------------------------------------------------------------------
\* A thread's answer is the youngest one.
LEMMA AnswerAdded ==
  ASSUME DTypeOK, NEW a \in AckRec, acks' = Append(acks, a)
  PROVE  /\ acks' \in Seq(AckRec) /\ DOMAIN acks' = DOMAIN acks \cup {Len(acks) + 1}
         /\ acks'[Len(acks) + 1] = a /\ Len(acks) + 1 \in Nat
         /\ \A k \in DOMAIN acks : acks'[k] = acks[k] /\ k \in Nat /\ k < Len(acks) + 1
  BY AppendOK DEF DTypeOK

\* The message a thread takes is the first of its channel.
LEMMA MessageTaken ==
  ASSUME DTypeOK, NEW i \in Id, chan[i] # << >>, chan' = [chan EXCEPT ![i] = Tail(@)]
  PROVE  /\ chan' \in [Id -> Seq(Msg)] /\ 1 \in DOMAIN chan[i] /\ Head(chan[i]) = chan[i][1]
         /\ Head(chan[i]) \in Msg
         /\ \A y \in Id : y # i => chan'[y] = chan[y]
         /\ \A k \in DOMAIN chan'[i] : /\ k \in Nat /\ k + 1 \in DOMAIN chan[i] /\ k + 1 > 1
                                         /\ chan'[i][k] = chan[i][k + 1]
  <1>1. chan \in [Id -> Seq(Msg)] /\ chan[i] \in Seq(Msg)
    BY DEF DTypeOK
  <1>2. chan'[i] = Tail(chan[i]) /\ \A y \in Id : y # i => chan'[y] = chan[y]
    BY <1>1
  <1>3. /\ Tail(chan[i]) \in Seq(Msg) /\ 1 \in DOMAIN chan[i] /\ Head(chan[i]) = chan[i][1] /\ Head(chan[i]) \in Msg
        /\ \A k \in DOMAIN Tail(chan[i]) : /\ k \in Nat /\ k + 1 \in DOMAIN chan[i] /\ k + 1 > 1
                                             /\ Tail(chan[i])[k] = chan[i][k + 1]
    BY <1>1, TailOK
  <1>4. chan' \in [Id -> Seq(Msg)]
    BY <1>1, <1>3
  <1>5. QED
    BY <1>2, <1>3, <1>4

\* What is left in the channel of a thread was there before.
LEMMA ChannelShrinks ==
  ASSUME DInv, NEW i \in Id, chan[i] # << >>, chan' = [chan EXCEPT ![i] = Tail(@)], workers' = workers,
         \A y \in Id : thread[y] \notin Seqnum /\ y # i => thread'[y] \notin Seqnum,
         \A y \in Id : y # i /\ NoAnswer(y) => NoAnswer(y)',
         i \in DOMAIN workers /\ (\E k \in DOMAIN chan'[i] : chan'[i][k].kind = "job")
           => thread'[i] \notin Seqnum /\ NoAnswer(i)'
  PROVE  InChannel'
  <1>0. DTypeOK /\ InChannel
    BY DEF DInv
  <1>1. /\ \A y \in Id : y # i => chan'[y] = chan[y]
        /\ \A k \in DOMAIN chan'[i] : k \in Nat /\ k + 1 \in DOMAIN chan[i] /\ chan'[i][k] = chan[i][k + 1]
    BY <1>0, MessageTaken
  <1> SUFFICES ASSUME NEW y \in DOMAIN workers, NEW k \in DOMAIN chan'[y], chan'[y][k].kind = "job"
               PROVE  /\ chan'[y][k].n \in Seqnum /\ chan'[y][k].n = workers[y].job
                      /\ thread'[y] \notin Seqnum /\ NoAnswer(y)'
                      /\ \A l \in DOMAIN chan'[y] : chan'[y][l].kind = "job" => l = k
    BY DEF InChannel
  <1>2. y \in Id
    BY <1>0 DEF DTypeOK
  <1>3. CASE y = i
    <2>1. k \in Nat /\ k + 1 \in DOMAIN chan[i] /\ chan'[i][k] = chan[i][k + 1]
      BY <1>1, <1>3
    <2>2. chan[i][k + 1].n \in Seqnum /\ chan[i][k + 1].n = workers[i].job
          /\ \A l \in DOMAIN chan[i] : chan[i][l].kind = "job" => l = k + 1
      BY <1>0, <1>3, <2>1 DEF InChannel
    <2>3. ASSUME NEW l \in DOMAIN chan'[i], chan'[i][l].kind = "job"
          PROVE  l = k
      <3>1. l \in Nat /\ l + 1 \in DOMAIN chan[i] /\ chan[i][l + 1].kind = "job"
        BY <1>1, <2>3
      <3>2. l + 1 = k + 1
        BY <2>2, <3>1
      <3>3. QED
        BY <2>1, <3>1, <3>2
    <2>4. QED
      BY <1>3, <2>1, <2>2, <2>3
  <1>4. CASE y # i
    BY <1>0, <1>1, <1>2, <1>4 DEF InChannel
  <1>5. QED
    BY <1>3, <1>4

\* A kill is taken: the thread ends, and this is the last answer of the worker.
LEMMA TakeKillStep ==
  ASSUME DInv, NEW i \in Id, thread[i] = Resting, chan[i] # << >>,
         chan' = [chan EXCEPT ![i] = Tail(@)],
         acks' = Append(acks, [kind |-> "killed", id |-> i]),
         thread' = [thread EXCEPT ![i] = Ended], UNCHANGED <<jobs, workers>>
  PROVE  DInv'
  <1> DEFINE a == [kind |-> "killed", id |-> i]
             m == Len(acks) + 1
  <1>0. DTypeOK /\ Bound /\ InChannel /\ InThread /\ Answered /\ Gone
    BY DEF DInv
  <1>1. a \in AckRec /\ a.kind = "killed" /\ a.id = i /\ acks' = Append(acks, a)
    BY DEF AckRec
  <1> HIDE DEF a
  <1>2. /\ acks' \in Seq(AckRec) /\ DOMAIN acks' = DOMAIN acks \cup {m} /\ acks'[m] = a /\ m \in Nat
        /\ \A k \in DOMAIN acks : acks'[k] = acks[k] /\ k \in Nat /\ k < m
    BY <1>0, <1>1, AnswerAdded
  <1> HIDE DEF m
  <1>3. /\ thread' \in [Id -> Seqnum \cup {Resting, Ended}] /\ thread'[i] = Ended
        /\ \A y \in Id : y # i => thread'[y] = thread[y]
    BY <1>0 DEF DTypeOK
  <1>4. chan' \in [Id -> Seq(Msg)]
    BY <1>0, MessageTaken
  <1>5. i \in DOMAIN workers
    BY <1>0, Apart DEF Gone
  <1>6. \A y : NoAnswer(y) => NoAnswer(y)'
    BY <1>1, <1>2 DEF NoAnswer
  <1>7. InChannel'
    <2>1. ASSUME i \in DOMAIN workers, \E k \in DOMAIN chan'[i] : chan'[i][k].kind = "job"
          PROVE  NoAnswer(i)
      <3>1. PICK k \in DOMAIN chan'[i] : chan'[i][k].kind = "job"
        BY <2>1
      <3>2. k + 1 \in DOMAIN chan[i] /\ chan[i][k + 1].kind = "job"
        BY <1>0, <3>1, MessageTaken
      <3>3. QED
        BY <1>0, <1>5, <3>2 DEF InChannel
    <2>2. i \in DOMAIN workers /\ (\E k \in DOMAIN chan'[i] : chan'[i][k].kind = "job")
            => thread'[i] \notin Seqnum /\ NoAnswer(i)'
      BY <1>3, <1>6, <2>1, Apart
    <2>3. /\ \A y \in Id : thread[y] \notin Seqnum /\ y # i => thread'[y] \notin Seqnum
          /\ \A y \in Id : y # i /\ NoAnswer(y) => NoAnswer(y)'
      BY <1>3, <1>6
    <2>4. QED
      BY <2>2, <2>3, ChannelShrinks
  <1>8. InThread'
    BY <1>0, <1>3, <1>6, Apart DEF InThread
  <1>9. Answered'
    <2> SUFFICES ASSUME NEW k \in DOMAIN acks'
                 PROVE  /\ acks'[k].id \in DOMAIN workers
                        /\ acks'[k].kind = "finished" =>
                              /\ workers[acks'[k].id].job # Nothing
                              /\ \A l \in DOMAIN acks' : acks'[l].kind = "finished" /\ acks'[l].id = acks'[k].id => l = k
                        /\ acks'[k].kind = "killed" =>
                              /\ thread'[acks'[k].id] = Ended
                              /\ \A l \in DOMAIN acks' : l > k => acks'[l].id # acks'[k].id
      BY DEF Answered
    <2>1. CASE k = m
      BY <1>1, <1>2, <1>3, <1>5, <2>1
    <2>2. CASE k # m
      <3>1. k \in DOMAIN acks /\ acks'[k] = acks[k] /\ acks[k].id \in DOMAIN workers /\ acks[k].id \in Id
        BY <1>0, <1>2, <2>2 DEF Answered, DTypeOK
      <3>2. acks[k].kind = "killed" => acks[k].id # i
        BY <1>0, <3>1, Apart DEF Answered
      <3>3. ASSUME acks[k].kind = "finished"
            PROVE  \A l \in DOMAIN acks' : acks'[l].kind = "finished" /\ acks'[l].id = acks'[k].id => l = k
        BY <1>0, <1>1, <1>2, <3>1, <3>3 DEF Answered
      <3>4. ASSUME acks[k].kind = "killed"
            PROVE  \A l \in DOMAIN acks' : l > k => acks'[l].id # acks'[k].id
        BY <1>0, <1>1, <1>2, <3>1, <3>2, <3>4 DEF Answered
      <3>5. QED
        BY <1>0, <1>3, <3>1, <3>2, <3>3, <3>4 DEF Answered
    <2>3. QED
      BY <2>1, <2>2
  <1>10. DTypeOK' /\ Bound' /\ Gone'
    BY <1>0, <1>2, <1>3, <1>4, <1>5 DEF DTypeOK, Bound, Gone
  <1>11. QED
    BY <1>7, <1>8, <1>9, <1>10 DEF DInv

\* A job is taken up: it leaves the channel and is in the thread.
LEMMA TakeJobStep ==
  ASSUME DInv, NEW i \in Id, thread[i] = Resting, chan[i] # << >>, Head(chan[i]).kind = "job",
         chan' = [chan EXCEPT ![i] = Tail(@)],
         thread' = [thread EXCEPT ![i] = Head(chan[i]).n], UNCHANGED <<jobs, workers, acks>>
  PROVE  DInv'
  <1>0. DTypeOK /\ Bound /\ InChannel /\ InThread /\ Answered /\ Gone
    BY DEF DInv
  <1>1. /\ chan' \in [Id -> Seq(Msg)] /\ 1 \in DOMAIN chan[i] /\ Head(chan[i]) = chan[i][1]
        /\ \A k \in DOMAIN chan'[i] : /\ k \in Nat /\ k + 1 \in DOMAIN chan[i] /\ k + 1 > 1
                                        /\ chan'[i][k] = chan[i][k + 1]
    BY <1>0, MessageTaken
  <1>2. i \in DOMAIN workers
    BY <1>0, Apart DEF Gone
  <1>3. /\ chan[i][1].n \in Seqnum /\ chan[i][1].n = workers[i].job /\ NoAnswer(i)
        /\ \A l \in DOMAIN chan[i] : chan[i][l].kind = "job" => l = 1
    BY <1>0, <1>1, <1>2 DEF InChannel
  <1>4. /\ thread' \in [Id -> Seqnum \cup {Resting, Ended}] /\ thread'[i] = workers[i].job
        /\ \A y \in Id : y # i => thread'[y] = thread[y]
    BY <1>0, <1>1, <1>3 DEF DTypeOK
  <1>5. \A y : NoAnswer(y) => NoAnswer(y)'
    BY DEF NoAnswer
  <1>6. InChannel'
    <2>1. \A k \in DOMAIN chan'[i] : chan'[i][k].kind # "job"
      <3>1. SUFFICES ASSUME NEW k \in DOMAIN chan'[i], chan'[i][k].kind = "job"
                     PROVE  FALSE
        OBVIOUS
      <3>2. k \in Nat /\ k + 1 \in DOMAIN chan[i] /\ k + 1 > 1 /\ chan[i][k + 1].kind = "job"
        BY <1>1, <3>1
      <3>3. QED
        BY <1>3, <3>2
    <2>2. /\ \A y \in Id : thread[y] \notin Seqnum /\ y # i => thread'[y] \notin Seqnum
          /\ \A y \in Id : y # i /\ NoAnswer(y) => NoAnswer(y)'
      BY <1>4, <1>5
    <2>3. QED
      BY <2>1, <2>2, ChannelShrinks
  <1>7. InThread'
    <2> SUFFICES ASSUME NEW y \in Id, thread'[y] \in Seqnum
                 PROVE  y \in DOMAIN workers /\ workers[y].job = thread'[y] /\ NoAnswer(y)'
      BY DEF InThread
    <2>1. CASE y = i
      BY <1>2, <1>3, <1>4, <1>5, <2>1
    <2>2. CASE y # i
      BY <1>0, <1>4, <1>5, <2>2 DEF InThread
    <2>3. QED
      BY <2>1, <2>2
  <1>8. Answered'
    <2>1. \A k \in DOMAIN acks : acks[k].id \in Id /\ (acks[k].kind = "killed" => acks[k].id # i)
      BY <1>0, Apart DEF Answered, DTypeOK
    <2>2. QED
      BY <1>0, <1>4, <2>1 DEF Answered
  <1>9. DTypeOK' /\ Bound' /\ Gone'
    BY <1>0, <1>1, <1>2, <1>4 DEF DTypeOK, Bound, Gone
  <1>10. QED
    BY <1>6, <1>7, <1>8, <1>9 DEF DInv

\* A job is done: it leaves the thread and an answer is on its way.
LEMMA ProcessStep ==
  ASSUME DInv, NEW i \in Id, Process(i)
  PROVE  DInv'
  <1> DEFINE a == [kind |-> "finished", id |-> i]
             m == Len(acks) + 1
  <1>0. DTypeOK /\ Bound /\ InChannel /\ InThread /\ Answered /\ Gone
    BY DEF DInv
  <1>1. /\ thread[i] \in Seqnum /\ acks' = Append(acks, a) /\ thread' = [thread EXCEPT ![i] = Resting]
        /\ UNCHANGED <<jobs, workers, chan>>
    BY DEF Process
  <1>2. a \in AckRec /\ a.kind = "finished" /\ a.id = i
    BY DEF AckRec
  <1> HIDE DEF a
  <1>3. /\ acks' \in Seq(AckRec) /\ DOMAIN acks' = DOMAIN acks \cup {m} /\ acks'[m] = a /\ m \in Nat
        /\ \A k \in DOMAIN acks : acks'[k] = acks[k] /\ k \in Nat /\ k < m
    BY <1>0, <1>1, <1>2, AnswerAdded
  <1> HIDE DEF m
  <1>4. /\ thread' \in [Id -> Seqnum \cup {Resting, Ended}] /\ thread'[i] = Resting
        /\ \A y \in Id : y # i => thread'[y] = thread[y]
    BY <1>0, <1>1 DEF DTypeOK
  <1>5. i \in DOMAIN workers /\ workers[i].job = thread[i] /\ NoAnswer(i)
    BY <1>0, <1>1 DEF InThread
  <1>6. \A y : y # i /\ NoAnswer(y) => NoAnswer(y)'
    BY <1>2, <1>3 DEF NoAnswer
  <1>7. InChannel'
    <2> SUFFICES ASSUME NEW y \in DOMAIN workers, NEW k \in DOMAIN chan[y], chan[y][k].kind = "job"
                 PROVE  /\ chan[y][k].n \in Seqnum /\ chan[y][k].n = workers[y].job
                        /\ thread'[y] \notin Seqnum /\ NoAnswer(y)'
                        /\ \A l \in DOMAIN chan[y] : chan[y][l].kind = "job" => l = k
      BY <1>1 DEF InChannel
    <2>1. y # i /\ y \in Id
      BY <1>0, <1>1 DEF InChannel, DTypeOK
    <2>2. QED
      BY <1>0, <1>4, <1>6, <2>1 DEF InChannel
  <1>8. InThread'
    BY <1>0, <1>1, <1>4, <1>6, Apart DEF InThread
  <1>9. Answered'
    <2> SUFFICES ASSUME NEW k \in DOMAIN acks'
                 PROVE  /\ acks'[k].id \in DOMAIN workers
                        /\ acks'[k].kind = "finished" =>
                              /\ workers[acks'[k].id].job # Nothing
                              /\ \A l \in DOMAIN acks' : acks'[l].kind = "finished" /\ acks'[l].id = acks'[k].id => l = k
                        /\ acks'[k].kind = "killed" =>
                              /\ thread'[acks'[k].id] = Ended
                              /\ \A l \in DOMAIN acks' : l > k => acks'[l].id # acks'[k].id
      BY <1>1 DEF Answered
    <2>1. CASE k = m
      BY <1>1, <1>2, <1>3, <1>5, <2>1, Apart DEF NoAnswer
    <2>2. CASE k # m
      <3>1. k \in DOMAIN acks /\ acks'[k] = acks[k] /\ acks[k].id \in DOMAIN workers /\ acks[k].id \in Id
        BY <1>0, <1>3, <2>2 DEF Answered, DTypeOK
      <3>2. (acks[k].kind = "killed" => acks[k].id # i) /\ (acks[k].kind = "finished" => acks[k].id # i)
        BY <1>0, <1>1, <1>5, <3>1, Apart DEF Answered, NoAnswer
      <3>3. ASSUME acks[k].kind = "finished"
            PROVE  \A l \in DOMAIN acks' : acks'[l].kind = "finished" /\ acks'[l].id = acks'[k].id => l = k
        BY <1>0, <1>2, <1>3, <3>1, <3>2, <3>3 DEF Answered
      <3>4. ASSUME acks[k].kind = "killed"
            PROVE  \A l \in DOMAIN acks' : l > k => acks'[l].id # acks'[k].id
        BY <1>0, <1>2, <1>3, <3>1, <3>2, <3>4 DEF Answered
      <3>5. QED
        BY <1>0, <1>4, <3>1, <3>2, <3>3, <3>4 DEF Answered
    <2>3. QED
      BY <2>1, <2>2
  <1>10. DTypeOK' /\ Bound' /\ Gone'
    BY <1>0, <1>1, <1>3, <1>4, <1>5 DEF DTypeOK, Bound, Gone
  <1>11. QED
    BY <1>7, <1>8, <1>9, <1>10 DEF DInv

-----------------------------------------------------------------------------
LEMMA DInitInv == DInit => DInv
  <1> SUFFICES ASSUME DInit PROVE DInv
    OBVIOUS
  <1>1. << >> \in Seq(Msg) /\ << >> \in Seq(AckRec)
    OBVIOUS
  <1>2. DTypeOK
    BY <1>1 DEF DInit, DTypeOK
  <1>3. Bound /\ InChannel /\ InThread /\ Answered /\ Gone
    BY Apart DEF DInit, Bound, InChannel, InThread, Answered, Gone
  <1>4. QED
    BY <1>2, <1>3 DEF DInv

LEMMA DNextInv == DInv /\ [DNext]_vars => DInv'
  <1> SUFFICES ASSUME DInv, [DNext]_vars PROVE DInv'
    OBVIOUS
  <1>1. ASSUME UNCHANGED <<jobs, workers, chan, thread, acks>>
        PROVE  DInv'
    BY <1>1 DEF DInv, DTypeOK, Bound, InChannel, InThread, Answered, Gone, NoAnswer
  <1>2. CASE QueueStart
    BY <1>2, DispatchStep DEF QueueStart
  <1>3. CASE QueueStarted \/ CmdKill \/ UNCHANGED vars
    BY <1>1, <1>3 DEF QueueStarted, CmdKill, vars
  <1>4. CASE Ack
    <2>1. acks # << >> /\ acks' = Tail(acks) /\ UNCHANGED <<chan, thread>>
      BY <1>4 DEF Ack
    <2>2. CASE Head(acks).kind = "killed" /\ dispose_killed(Head(acks).id)
      BY <2>1, <2>2, KilledStep
    <2>3. CASE Head(acks).kind = "finished" /\ dispose_finished(Head(acks).id)
      BY <2>1, <2>3, FinishedStep
    <2>4. QED
      BY <1>4, <2>2, <2>3 DEF Ack
  <1>5. CASE KillWorkers
    BY <1>5, KillStep
  <1>6. ASSUME NEW n \in Seqnum, Uevent(n) PROVE DInv'
    BY <1>6, UeventStep
  <1>7. ASSUME NEW i \in Id, Take(i) PROVE DInv'
    <2>1. /\ thread[i] = Resting /\ chan[i] # << >> /\ chan' = [chan EXCEPT ![i] = Tail(@)]
          /\ UNCHANGED <<jobs, workers>>
      BY <1>7 DEF Take
    <2>2. CASE acks' = Append(acks, [kind |-> "killed", id |-> i]) /\ thread' = [thread EXCEPT ![i] = Ended]
      BY <2>1, <2>2, TakeKillStep
    <2>3. CASE /\ Head(chan[i]).kind = "job" /\ thread' = [thread EXCEPT ![i] = Head(chan[i]).n]
               /\ UNCHANGED acks
      BY <2>1, <2>3, TakeJobStep
    <2>4. QED
      BY <1>7, <2>2, <2>3 DEF Take
  <1>8. ASSUME NEW i \in Id, Process(i) PROVE DInv'
    BY <1>8, ProcessStep
  <1>9. QED
    BY <1>2, <1>3, <1>4, <1>5, <1>6, <1>7, <1>8 DEF DNext, MainThread, WorkerThread

LEMMA DInvHolds == DSpec => []DInv
  BY DInitInv, DNextInv, PTL DEF DSpec

\* The types of the manager's tables, the channels and the answers hold in every
\* state, whatever the uevents, the kills and the order of the threads.
THEOREM DevmasterTyped == DSpec => []DTypeOK
  <1>1. DInv => DTypeOK
    BY DEF DInv
  <1>2. QED
    BY <1>1, DInvHolds, PTL

\* worker_response_dispose finds the worker of the answer it takes from the
\* listener, and the job that a finished worker is bound to: neither unwrap can
\* fail, whatever kills are sent and however late the answer is.
THEOREM AcksAreMet == DSpec => []AcksMeetTheirWorker
  <1>1. ASSUME DInv PROVE AcksMeetTheirWorker
    <2> SUFFICES ASSUME NEW k \in DOMAIN acks
                 PROVE  /\ acks[k].id \in DOMAIN workers
                        /\ acks[k].kind = "finished" =>
                              /\ workers[acks[k].id].job \in DOMAIN jobs
                              /\ \A l \in DOMAIN acks \ {k} : acks[l] # acks[k]
                        /\ acks[k].kind = "killed" =>
                              /\ thread[acks[k].id] = Ended
                              /\ \A l \in DOMAIN acks : l > k => acks[l].id # acks[k].id
      BY DEF AcksMeetTheirWorker
    <2>1. Answered /\ Bound
      BY <1>1 DEF DInv
    <2>2. acks[k].id \in DOMAIN workers
      BY <2>1 DEF Answered
    <2>3. ASSUME acks[k].kind = "finished"
          PROVE  /\ workers[acks[k].id].job \in DOMAIN jobs
                 /\ \A l \in DOMAIN acks \ {k} : acks[l] # acks[k]
      BY <2>1, <2>2, <2>3 DEF Answered, Bound
    <2>4. QED
      BY <2>1, <2>2, <2>3 DEF Answered
  <1>2. QED
    BY <1>1, DInvHolds, PTL

\* job_dispatch and job_free keep workers and jobs bound to each other one to
\* one, and no device is in the hands of two threads.
THEOREM OneWorker == DSpec => []OneWorkerPerJob
  <1>1. ASSUME DInv PROVE OneWorkerPerJob
    <2>1. DTypeOK /\ Bound /\ InThread
      BY <1>1 DEF DInv
    <2>2. ASSUME NEW i \in DOMAIN workers, workers[i].job # Nothing
          PROVE  /\ workers[i].job \in DOMAIN jobs
                 /\ jobs[workers[i].job] = [state |-> "Running", worker |-> i]
      <3>1. /\ workers[i].job \in DOMAIN jobs
            /\ jobs[workers[i].job].state = "Running" /\ jobs[workers[i].job].worker = i
        BY <2>1, <2>2 DEF Bound
      <3>2. jobs[workers[i].job] \in JobRec
        BY <2>1, <3>1 DEF DTypeOK
      <3>3. QED
        BY <3>1, <3>2 DEF JobRec
    <2>3. ASSUME NEW i \in Id, NEW k \in Id, i # k, thread[i] \in Seqnum
          PROVE  thread[i] # thread[k]
      <3>1. SUFFICES ASSUME thread[i] = thread[k] PROVE FALSE
        OBVIOUS
      <3>2. /\ i \in DOMAIN workers /\ workers[i].job = thread[i]
            /\ k \in DOMAIN workers /\ workers[k].job = thread[i]
        BY <2>1, <2>3, <3>1 DEF InThread
      <3>3. jobs[thread[i]].worker = i /\ jobs[thread[i]].worker = k
        BY <2>1, <2>3, <3>2, Apart DEF Bound
      <3>4. QED
        BY <2>3, <3>3
    <2>4. QED
      BY <2>2, <2>3 DEF OneWorkerPerJob
  <1>2. QED
    BY <1>1, DInvHolds, PTL

-----------------------------------------------------------------------------
(* Enumerator: the order of the list. *)

\* The devices among the directories: only they are entered.
Dev == {d \in Dir : from_syspath(d)}

\* A set of positions that is not empty has a least one.
LEMMA LeastPosition ==
  ASSUME NEW n \in Int, NEW S \in SUBSET (1..n), S # {}
  PROVE  \E i \in S : \A j \in S : i <= j
  <1>1. S \subseteq Nat
    OBVIOUS
  <1>2. PICK x \in S : \A y \in S : ~ (<<y, x>> \in OpToRel(<, Nat))
    BY <1>1, NatLessThanWellFounded, WFMin
  <1>3. \A y \in S : ~ (y < x)
    BY <1>1, <1>2 DEF OpToRel
  <1>4. QED
    BY <1>1, <1>3

LEMMA Paths ==
  ASSUME NEW d \in Dev
  PROVE  /\ Len(d) \in Nat \ {0} /\ d \in [1..Len(d) -> DOMAIN Rank]
         /\ \A i \in 1..Len(d) : d[i] \in DOMAIN Rank /\ Rank[d[i]] \in Nat
  <1>1. d # <<>> /\ d \in Seq(DOMAIN Rank)
    BY SysfsAssumption DEF Dev
  <1>2. Len(d) \in Nat /\ d \in [1..Len(d) -> DOMAIN Rank]
    BY <1>1
  <1>3. Len(d) # 0
    BY <1>1, EmptySeq
  <1>4. QED
    BY <1>2, <1>3, SysfsAssumption DEF Dev

\* A prefix of a path has its names.
LEMMA PrefixNames ==
  ASSUME NEW a \in Dev, NEW b \in Seq(DOMAIN Rank), IsPrefix(b, a)
  PROVE  /\ Len(b) \in Nat /\ Len(b) <= Len(a) /\ DOMAIN b = 1..Len(b)
         /\ \A i \in 1..Len(b) : a[i] = b[i]
         /\ \A i \in 0..Len(b) : SubSeq(a, 1, i) = SubSeq(b, 1, i)
  <1>1. b \in Seq(DOMAIN Rank) /\ a \in Seq(DOMAIN Rank)
    BY SysfsAssumption DEF Dev
  <1>2. Len(b) \in Nat /\ Len(a) \in Nat /\ Len(b) <= Len(a) /\ DOMAIN b = 1..Len(b)
    BY <1>1 DEF IsPrefix
  <1>3. SubSeq(b, 1, Len(b)) = SubSeq(a, 1, Len(b))
    BY DEF IsPrefix
  <1>4. ASSUME NEW i \in 1..Len(b)
        PROVE  a[i] = b[i]
    <2>1. SubSeq(b, 1, Len(b))[i] = b[i] /\ SubSeq(a, 1, Len(b))[i] = a[i]
      BY <1>1, <1>2
    <2>2. QED
      BY <2>1, <1>3
  <1>5. ASSUME NEW i \in 0..Len(b)
        PROVE  SubSeq(a, 1, i) = SubSeq(b, 1, i)
    BY <1>1, <1>2, <1>4
  <1>6. \A i \in 1..Len(b) : a[i] = b[i]
    BY <1>4
  <1>7. \A i \in 0..Len(b) : SubSeq(a, 1, i) = SubSeq(b, 1, i)
    BY <1>5
  <1>8. QED
    BY <1>2, <1>6, <1>7

LEMMA CompareIrreflexive ==
  ASSUME NEW a \in Dev
  PROVE  ~ device_compare(a, a)
  <1>1. sound_device_compare(a, a) = "Equal"
    BY DEF sound_device_compare
  <1>2. ~ PathLess(a, a)
    BY Paths DEF PathLess
  <1>3. QED
    BY <1>1, <1>2 DEF device_compare

\* What precedes a in S.
Before(S, a) == {b \in S : device_compare(b, a)}

LEMMA BeforeCount ==
  ASSUME NEW S \in SUBSET Dev, Consistent(S), NEW a \in S
  PROVE  /\ IsFiniteSet(S) /\ IsFiniteSet(Before(S, a)) /\ Cardinality(Before(S, a)) \in Nat
         /\ Cardinality(S) \in Nat /\ Cardinality(Before(S, a)) < Cardinality(S)
         /\ \A b \in S : device_compare(a, b) => Cardinality(Before(S, a)) < Cardinality(Before(S, b))
  <1>1. IsFiniteSet(S) /\ \A T \in SUBSET S : IsFiniteSet(T) /\ Cardinality(T) \in Nat
    BY FS_Subset, FS_CardinalityType, SysfsAssumption DEF Dev
  <1>2. \A b \in S : Before(S, b) \in SUBSET S
    BY DEF Before
  <1>3. a \notin Before(S, a)
    BY CompareIrreflexive DEF Before
  <1>4. ASSUME NEW T \in SUBSET S, NEW U \in SUBSET T, U # T
        PROVE  Cardinality(U) < Cardinality(T)
    <2>1. IsFiniteSet(T) /\ Cardinality(T) \in Nat /\ Cardinality(U) \in Nat
      BY <1>1
    <2>2. Cardinality(U) <= Cardinality(T) /\ (Cardinality(T) = Cardinality(U) => T = U)
      BY <2>1, FS_Subset
    <2>3. QED
      BY <2>1, <2>2, <1>4
  <1>5. Cardinality(Before(S, a)) < Cardinality(S)
    BY <1>2, <1>3, <1>4
  <1>6. ASSUME NEW b \in S, device_compare(a, b)
        PROVE  Cardinality(Before(S, a)) < Cardinality(Before(S, b))
    <2>1. Before(S, a) \subseteq Before(S, b)
      BY <1>6 DEF Before, Consistent
    <2>2. a \in Before(S, b)
      BY <1>6 DEF Before
    <2>3. QED
      BY <1>2, <1>3, <1>4, <2>1, <2>2
  <1>7. QED
    BY <1>1, <1>2, <1>5, <1>6

\* The list of a set on which the comparison is an order: each element at the place that
\* the number of its predecessors says.
LEMMA Ranked ==
  ASSUME NEW S \in SUBSET Dev, Consistent(S), NEW s,
         s = [i \in 1..Cardinality(S) |->
                CHOOSE a \in S : Cardinality({b \in S : device_compare(b, a)}) = i - 1]
  PROVE  /\ s \in SetToSeqs(S)
         /\ \A i, k \in DOMAIN s : i < k => device_compare(s[i], s[k])
  <1> DEFINE n == Cardinality(S)
             r == [a \in S |-> Cardinality(Before(S, a)) + 1]
  <1>1. IsFiniteSet(S) /\ n \in Nat
    BY FS_Subset, FS_CardinalityType, SysfsAssumption DEF Dev
  <1>2. r \in [S -> 1..n]
    BY <1>1, BeforeCount
  <1>3. ASSUME NEW a \in S, NEW b \in S, a # b
        PROVE  r[a] # r[b]
    <2>1. device_compare(a, b) \/ device_compare(b, a)
      BY <1>3 DEF Consistent
    <2>2. Cardinality(Before(S, a)) < Cardinality(Before(S, b)) \/ Cardinality(Before(S, b)) < Cardinality(Before(S, a))
      BY <2>1, BeforeCount
    <2>3. QED
      BY <2>2, BeforeCount
  <1>4. r \in Injection(S, 1..n)
    BY <1>2, <1>3 DEF Injection, IsInjective
  <1>5. IsFiniteSet(1..n) /\ Cardinality(1..n) = n
    BY <1>1, FS_Interval
  <1>6. r \in Surjection(S, 1..n)
    <2> HIDE DEF r, n
    <2>1. Cardinality(S) = n
      BY DEF n
    <2>2. QED
      BY <1>4, <1>5, <2>1, FS_Injection
  <1>7. \A i \in 1..n : \E a \in S : r[a] = i
    BY <1>6 DEF Surjection
  <1>8. ASSUME NEW i \in 1..n
        PROVE  s[i] \in S /\ r[s[i]] = i
    <2>1. \E a \in S : Cardinality({b \in S : device_compare(b, a)}) = i - 1
      <3>1. PICK a \in S : r[a] = i
        BY <1>7
      <3>2. Cardinality(Before(S, a)) = i - 1
        BY <3>1, BeforeCount
      <3>3. QED
        BY <3>2 DEF Before
    <2>2. s[i] = CHOOSE a \in S : Cardinality({b \in S : device_compare(b, a)}) = i - 1
      OBVIOUS
    <2>3. s[i] \in S /\ Cardinality(Before(S, s[i])) = i - 1
      BY <2>1, <2>2 DEF Before
    <2>4. QED
      BY <2>3
  <1>9. DOMAIN s = 1..n
    OBVIOUS
  <1>10. s \in SetToSeqs(S)
    <2>1. s \in [1..n -> S]
      BY <1>8, <1>9
    <2>2. \A i, k \in 1..n : i # k => s[i] # s[k]
      BY <1>8
    <2>3. QED
      BY <2>1, <2>2 DEF SetToSeqs
  <1>11. ASSUME NEW i \in 1..n, NEW k \in 1..n, i < k
         PROVE  device_compare(s[i], s[k])
    <2>1. s[i] \in S /\ s[k] \in S /\ r[s[i]] = i /\ r[s[k]] = k
      BY <1>8
    <2>2. s[i] # s[k]
      <3> HIDE DEF r
      <3>1. i # k
        BY <1>1, <1>11
      <3>2. QED
        BY <2>1, <3>1
    <2>3. device_compare(s[k], s[i]) => r[s[k]] < r[s[i]]
      BY <2>1, BeforeCount
    <2>4. QED
      BY <2>1, <2>2, <2>3, <1>11 DEF Consistent
  <1>12. QED
    BY <1>9, <1>10, <1>11
LEMMA Listing ==
  ASSUME NEW S, IsFiniteSet(S), NEW s \in SetToSeqs(S)
  PROVE  /\ s \in Seq(S) /\ Len(s) = Cardinality(S) /\ Cardinality(S) \in Nat /\ DOMAIN s = 1..Len(s)
         /\ \A i, k \in DOMAIN s : i # k => s[i] # s[k]
         /\ Range(s) = S
  <1> DEFINE n == Cardinality(S)
  <1>1. n \in Nat
    BY FS_CardinalityType
  <1>2. s \in [1..n -> S] /\ \A i, k \in 1..n : i # k => s[i] # s[k]
    BY DEF SetToSeqs
  <1>3. s \in Injection(1..n, S)
    BY <1>2 DEF Injection, IsInjective
  <1>4. IsFiniteSet(1..n) /\ Cardinality(1..n) = n
    BY <1>1, FS_Interval
  <1> HIDE DEF n
  <1>5. s \in Surjection(1..n, S)
    <2>1. Cardinality(S) = n
      BY DEF n
    <2>2. QED
      BY <1>3, <1>4, <2>1, FS_Injection
  <1>6. Range(s) = S
    BY <1>2, <1>5 DEF Surjection, Range
  <1>7. QED
    BY <1>1, <1>2, <1>6 DEF n

\* A sequence that holds no element twice is as long as its elements are many.
LEMMA OnceEach ==
  ASSUME NEW S, NEW s \in Seq(S), \A i, k \in DOMAIN s : i < k => s[i] # s[k]
  PROVE  Cardinality(Range(s)) = Len(s)
  <1>1. Len(s) \in Nat /\ s \in [1..Len(s) -> S] /\ DOMAIN s = 1..Len(s)
    OBVIOUS
  <1>2. \A i, k \in 1..Len(s) : s[i] = s[k] => i = k
    <2>1. ASSUME NEW i \in 1..Len(s), NEW k \in 1..Len(s), s[i] = s[k], i # k
          PROVE  FALSE
      <3>1. i < k \/ k < i
        BY <1>1, <2>1
      <3>2. QED
        BY <1>1, <2>1, <3>1
    <2>2. QED
      BY <2>1
  <1>3. s \in Bijection(1..Len(s), Range(s))
    BY <1>1, <1>2 DEF Bijection, Injection, Surjection, IsInjective, Range
  <1>4. QED
    BY <1>1, <1>3, FS_CountingElements DEF ExistsBijection

\* FlattenSeq is what its recursive definition says.
LEMMA Flattened ==
  ASSUME NEW T, NEW f \in Seq(Seq(T)), f # <<>>
  PROVE  \E g \in [1..Len(f) -> Seq(T)] :
           /\ FlattenSeq(f) = g[Len(f)] /\ g[1] = f[1]
           /\ \A i \in 1..Len(f) : i > 1 => g[i] = g[i - 1] \o f[i]
  <1> DEFINE n == Len(f)
             X == Seq(T)
             step == [k \in Nat |-> [x \in X |-> IF k \in 2..n THEN x \o f[k] ELSE f[1]]]
             IsFlat(g) == g = [i \in 1..n |-> IF i = 1 THEN f[i] ELSE g[i - 1] \o f[i]]
  <1>1. n \in Nat \ {0} /\ \A i \in 1..n : f[i] \in X
    BY EmptySeq
  <1>2. step \in Steps(X) /\ <<>> \in X
    <2>1. \A k \in 2..n, x \in X : x \o f[k] \in X
      BY <1>1
    <2>2. f[1] \in X
      BY <1>1
    <2>3. QED
      BY <2>1, <2>2 DEF Steps
  <1>3. PICK h : Iterates(h, X, <<>>, step)
    <2> HIDE DEF step, X
    <2>1. QED
      BY <1>2, Recursion
  <1> DEFINE g == [i \in 1..n |-> h[i]]
  <1>4. h \in [Nat -> X] /\ \A k \in Nat : h[k + 1] = step[k + 1][h[k]]
    BY <1>3 DEF Iterates
  <1>5. h[1] = f[1]
    <2>1. h[0] \in X /\ 0 + 1 = 1 /\ 0 \in Nat /\ 1 \notin 2..n /\ 1 \in Nat
      BY <1>1, <1>4
    <2>2. h[1] = step[1][h[0]]
      <3> HIDE DEF step
      <3>1. QED
        BY <1>4, <2>1
    <2> HIDE DEF X
    <2>3. step[1][h[0]] = f[1]
      BY <2>1
    <2>4. QED
      BY <2>2, <2>3
  <1>6. ASSUME NEW i \in 2..n
        PROVE  h[i] = h[i - 1] \o f[i]
    <2>1. i - 1 \in Nat /\ (i - 1) + 1 = i /\ h[i - 1] \in X
      BY <1>1, <1>4
    <2>2. h[i] = step[i][h[i - 1]]
      BY <1>4, <2>1
    <2>3. i \in Nat
      BY <1>1
    <2> HIDE DEF X
    <2>4. step[i][h[i - 1]] = h[i - 1] \o f[i]
      BY <2>1, <2>3
    <2>5. QED
      BY <2>2, <2>4
  <1>7. IsFlat(g)
    <2>1. ASSUME NEW i \in 1..n
          PROVE  g[i] = IF i = 1 THEN f[i] ELSE g[i - 1] \o f[i]
      <3>1. CASE i = 1
        BY <1>5, <3>1
      <3>2. CASE i # 1
        <4>1. i \in 2..n /\ i - 1 \in 1..n
          BY <1>1, <3>2
        <4>2. g[i] = h[i] /\ g[i - 1] = h[i - 1]
          BY <4>1
        <4>3. QED
          BY <1>6, <3>2, <4>1, <4>2
      <3>3. QED
        BY <3>1, <3>2
    <2> HIDE DEF g
    <2>2. DOMAIN g = 1..n /\ g = [i \in 1..n |-> g[i]]
      BY DEF g
    <2>3. QED
      BY <2>1, <2>2
  <1> DEFINE c == CHOOSE x : IsFlat(x)
  <1>8. IsFlat(c)
    <2> HIDE DEF IsFlat
    <2>1. QED
      BY <1>7
  <1>9. FlattenSeq(f) = c[n]
    BY <1>1 DEF FlattenSeq
  <1> HIDE DEF c
  <1>10. c[1] = f[1] /\ \A i \in 1..n : i > 1 => c[i] = c[i - 1] \o f[i]
    <2> DEFINE d == [i \in 1..n |-> IF i = 1 THEN f[i] ELSE c[i - 1] \o f[i]]
    <2>1. c = d
      BY <1>8
    <2>2. d[1] = f[1]
      <3>1. 1 \in 1..n
        BY <1>1
      <3>2. QED
        BY <3>1
    <2>3. ASSUME NEW i \in 1..n, i > 1
          PROVE  d[i] = c[i - 1] \o f[i]
      <3>1. i # 1
        BY <1>1, <2>3
      <3> HIDE DEF n
      <3>2. QED
        BY <3>1
    <2> HIDE DEF d
    <2>4. QED
      BY <2>1, <2>2, <2>3
  <1> DEFINE P == {i \in Nat : i + 1 <= n => c[i + 1] \in X}
  <1>11. 0 \in P
    BY <1>1, <1>10
  <1>12. ASSUME NEW i \in P
         PROVE  i + 1 \in P
    <2>1. CASE i + 2 <= n
      <3>1. i + 2 \in 1..n /\ i + 2 > 1 /\ (i + 2) - 1 = i + 1 /\ c[i + 1] \in X /\ f[i + 2] \in X
        BY <1>1, <2>1
      <3>2. c[i + 2] = c[i + 1] \o f[i + 2]
        BY <1>10, <3>1
      <3>3. c[i + 2] \in X
        BY <3>1, <3>2
      <3>4. QED
        BY <3>3
    <2>2. QED
      BY <1>1, <2>1
  <1>13. P = Nat
    <2> HIDE DEF P
    <2>1. P \in SUBSET Nat
      BY DEF P
    <2>2. QED
      BY <1>11, <1>12, <2>1, NatSet
  <1>14. \A i \in 1..n : c[i] \in X
    <2>1. ASSUME NEW i \in 1..n
          PROVE  c[i] \in X
      <3>1. i - 1 \in Nat /\ (i - 1) + 1 = i /\ i <= n
        BY <1>1
      <3>2. i - 1 \in P
        <4> HIDE DEF P
        <4>1. QED
          BY <1>13, <3>1
      <3>3. QED
        BY <3>1, <3>2
    <2>2. QED
      BY <2>1
  <1>15. c \in [1..n -> X]
    <2>1. c = [i \in 1..n |-> c[i]]
      BY <1>8
    <2>2. QED
      BY <1>14, <2>1
  <1>16. QED
    BY <1>9, <1>10, <1>15

\* The sequence s is the first m parts of f one after the other, as far as is needed: it has
\* their elements, those of an earlier part first, those of a part in its order.
InOrder(f, m, x, y) ==
  \E p, q \in 1..m : \E i \in 1..Len(f[p]), k \in 1..Len(f[q]) :
    x = f[p][i] /\ y = f[q][k] /\ (p < q \/ (p = q /\ i < k))
Joined(f, m, s) ==
  /\ \A i \in 1..Len(s) : \E p \in 1..m : \E k \in 1..Len(f[p]) : s[i] = f[p][k]
  /\ \A p \in 1..m : \A k \in 1..Len(f[p]) : \E i \in 1..Len(s) : s[i] = f[p][k]
  /\ \A i, k \in 1..Len(s) : i < k => InOrder(f, m, s[i], s[k])

LEMMA JoinNext ==
  ASSUME NEW T, NEW f \in Seq(Seq(T)), NEW m \in 1..Len(f), m + 1 <= Len(f),
         NEW s \in Seq(T), Joined(f, m, s)
  PROVE  Joined(f, m + 1, s \o f[m + 1])
  <1> DEFINE t == f[m + 1]
             c == s \o t
  <1>1. m \in Nat /\ m + 1 \in 1..Len(f) /\ t \in Seq(T) /\ Len(s) \in Nat /\ Len(t) \in Nat
    OBVIOUS
  <1>2. c \in Seq(T) /\ Len(c) = Len(s) + Len(t)
    BY <1>1
  <1>3. ASSUME NEW i \in 1..Len(s)
        PROVE  i \in 1..Len(c) /\ c[i] = s[i]
    BY <1>1, <1>2
  <1>4. ASSUME NEW i \in 1..Len(t)
        PROVE  Len(s) + i \in 1..Len(c) /\ c[Len(s) + i] = t[i]
    BY <1>1, <1>2
  <1>5. ASSUME NEW i \in 1..Len(c), i \notin 1..Len(s)
        PROVE  i - Len(s) \in 1..Len(t) /\ c[i] = t[i - Len(s)]
    BY <1>1, <1>2, <1>5
  <1>6. 1..m \subseteq 1..(m + 1) /\ m + 1 \in 1..(m + 1)
    BY <1>1
  <1>t. t = f[m + 1]
    OBVIOUS
  <1> HIDE DEF c, t
  <1>7. ASSUME NEW i \in 1..Len(c)
        PROVE  \E p \in 1..(m + 1) : \E k \in 1..Len(f[p]) : c[i] = f[p][k]
    <2>1. CASE i \in 1..Len(s)
      <3>1. PICK p \in 1..m : \E k \in 1..Len(f[p]) : s[i] = f[p][k]
        BY <2>1 DEF Joined
      <3>2. p \in 1..(m + 1) /\ c[i] = s[i]
        BY <1>3, <1>6, <2>1
      <3>3. QED
        BY <3>1, <3>2
    <2>2. CASE i \notin 1..Len(s)
      <3>1. i - Len(s) \in 1..Len(f[m + 1]) /\ c[i] = f[m + 1][i - Len(s)]
        BY <1>5, <1>t, <2>2
      <3>2. QED
        BY <3>1, <1>6
    <2>3. QED
      BY <2>1, <2>2
  <1>8. ASSUME NEW p \in 1..(m + 1), NEW k \in 1..Len(f[p])
        PROVE  \E i \in 1..Len(c) : c[i] = f[p][k]
    <2>1. CASE p \in 1..m
      <3>1. PICK i \in 1..Len(s) : s[i] = f[p][k]
        BY <2>1 DEF Joined
      <3>2. QED
        BY <1>3, <3>1
    <2>2. CASE p = m + 1
      BY <1>4, <1>t, <2>2
    <2>3. QED
      BY <1>1, <2>1, <2>2
  <1>9. ASSUME NEW i \in 1..Len(c), NEW k \in 1..Len(c), i < k
        PROVE  InOrder(f, m + 1, c[i], c[k])
    <2>1. CASE k \in 1..Len(s)
      <3>1. i \in 1..Len(s) /\ c[i] = s[i] /\ c[k] = s[k]
        BY <1>1, <1>2, <1>3, <1>9, <2>1
      <3>2. InOrder(f, m, c[i], c[k])
        BY <1>9, <2>1, <3>1 DEF Joined
      <3>3. QED
        BY <3>2, <1>6 DEF InOrder
    <2>2. CASE k \notin 1..Len(s) /\ i \in 1..Len(s)
      <3>1. k - Len(s) \in 1..Len(f[m + 1]) /\ c[k] = f[m + 1][k - Len(s)]
        BY <1>5, <1>t, <2>2
      <3>5. PICK p \in 1..m : \E j \in 1..Len(f[p]) : s[i] = f[p][j]
        BY <2>2 DEF Joined
      <3>2. PICK j \in 1..Len(f[p]) : s[i] = f[p][j]
        BY <3>5
      <3>3. p < m + 1 /\ p \in 1..(m + 1) /\ c[i] = f[p][j]
        BY <1>1, <1>3, <2>2, <3>2
      <3>4. \E a \in 1..Len(f[p]), b \in 1..Len(f[m + 1]) :
              c[i] = f[p][a] /\ c[k] = f[m + 1][b] /\ (p < m + 1 \/ (p = m + 1 /\ a < b))
        BY <3>1, <3>2, <3>3
      <3>6. QED
        BY <1>6, <3>3, <3>4 DEF InOrder
    <2>3. CASE k \notin 1..Len(s) /\ i \notin 1..Len(s)
      <3>1. /\ k - Len(s) \in 1..Len(f[m + 1]) /\ c[k] = f[m + 1][k - Len(s)]
            /\ i - Len(s) \in 1..Len(f[m + 1]) /\ c[i] = f[m + 1][i - Len(s)]
        BY <1>5, <1>t, <2>3
      <3>2. i - Len(s) < k - Len(s)
        BY <1>1, <1>2, <1>9
      <3>3. QED
        BY <1>6, <3>1, <3>2 DEF InOrder
    <2>4. QED
      BY <2>1, <2>2, <2>3
  <1>10. QED
    BY <1>7, <1>8, <1>9, <1>t DEF Joined, c

LEMMA FlattenJoins ==
  ASSUME NEW T, NEW f \in Seq(Seq(T)), f # <<>>
  PROVE  FlattenSeq(f) \in Seq(T) /\ Joined(f, Len(f), FlattenSeq(f))
  <1>1. Len(f) \in Nat \ {0} /\ \A i \in 1..Len(f) : f[i] \in Seq(T)
    BY EmptySeq
  <1>2. PICK g \in [1..Len(f) -> Seq(T)] :
          /\ FlattenSeq(f) = g[Len(f)] /\ g[1] = f[1]
          /\ \A i \in 1..Len(f) : i > 1 => g[i] = g[i - 1] \o f[i]
    BY Flattened
  <1> DEFINE P == {i \in Nat : i + 1 <= Len(f) => Joined(f, i + 1, g[i + 1])}
  <1>3. Joined(f, 1, g[1])
    <2>1. 1 \in 1..1 /\ g[1] = f[1]
      BY <1>2
    <2>2. QED
      BY <2>1 DEF Joined, InOrder
  <1>4. 0 \in P
    BY <1>3
  <1>5. ASSUME NEW i \in P
        PROVE  i + 1 \in P
    <2>1. CASE i + 2 <= Len(f)
      <3>0. i \in Nat /\ (i + 1 <= Len(f) => Joined(f, i + 1, g[i + 1]))
        OBVIOUS
      <3> HIDE DEF P
      <3>1. /\ i + 1 \in 1..Len(f) /\ i + 2 \in 1..Len(f) /\ i + 2 > 1 /\ (i + 2) - 1 = i + 1
            /\ (i + 1) + 1 = i + 2 /\ i + 1 <= Len(f) /\ i + 1 \in Nat
        BY <1>1, <2>1, <3>0
      <3>2. Joined(f, i + 1, g[i + 1]) /\ g[i + 1] \in Seq(T)
        BY <3>0, <3>1
      <3>3. g[i + 2] = g[i + 1] \o f[i + 2]
        BY <1>2, <3>1
      <3>4. Joined(f, (i + 1) + 1, g[i + 1] \o f[(i + 1) + 1])
        <4>1. (i + 1) + 1 <= Len(f)
          BY <2>1, <3>1
        <4>2. QED
          BY <4>1, <3>1, <3>2, JoinNext
      <3>5. Joined(f, (i + 1) + 1, g[(i + 1) + 1])
        BY <3>1, <3>3, <3>4
      <3>6. QED
        BY <3>1, <3>5 DEF P
    <2>2. CASE ~ (i + 2 <= Len(f))
      BY <1>1, <2>2
    <2>3. QED
      BY <2>1, <2>2
  <1>6. P = Nat
    <2> HIDE DEF P
    <2>1. P \in SUBSET Nat
      BY DEF P
    <2>2. QED
      BY <1>4, <1>5, <2>1, NatSet
  <1>7. Len(f) - 1 \in Nat /\ (Len(f) - 1) + 1 = Len(f) /\ Len(f) \in 1..Len(f)
    BY <1>1
  <1>8. Len(f) - 1 \in P
    <2> HIDE DEF P
    <2>1. QED
      BY <1>6, <1>7
  <1>9. Joined(f, Len(f), g[Len(f)])
    BY <1>7, <1>8
  <1>10. QED
    BY <1>2, <1>7, <1>9

-----------------------------------------------------------------------------
(* The comparison. *)

\* The names of a card on a path, the first of them, and a control device below it.
CardsAt(a) == {i \in 1 .. Len(a) - 2 : a[i] = "sound" /\ a[i + 1] \in Card}
FirstCard(a) == CHOOSE i \in CardsAt(a) : \A j \in CardsAt(a) : i <= j
Controls(a, p) == \E i \in FirstCard(a) + 1 .. Len(p) : p[i] \in Control
SoundEqual(a, b) ==
  \/ CardsAt(a) = {} \/ Len(b) < FirstCard(a)
  \/ SubSeq(a, 1, FirstCard(a) - 1) # SubSeq(b, 1, FirstCard(a) - 1)
  \/ Controls(a, a) = Controls(a, b)

LEMMA SoundCompare ==
  ASSUME NEW a, NEW b
  PROVE  sound_device_compare(a, b) =
           IF SoundEqual(a, b) THEN "Equal" ELSE IF Controls(a, a) THEN "Greater" ELSE "Less"
  BY DEF sound_device_compare, SoundEqual, Controls, FirstCard, CardsAt

LEMMA FirstCardAt ==
  ASSUME NEW a \in Dev, CardsAt(a) # {}
  PROVE  FirstCard(a) \in 1 .. Len(a) - 2
  <1>1. Len(a) - 2 \in Int
    BY Paths
  <1>2. CardsAt(a) \in SUBSET (1 .. Len(a) - 2)
    BY DEF CardsAt
  <1>3. \E i \in CardsAt(a) : \A j \in CardsAt(a) : i <= j
    BY <1>1, <1>2, LeastPosition
  <1>4. FirstCard(a) \in CardsAt(a)
    BY <1>3 DEF FirstCard
  <1>5. QED
    BY <1>2, <1>4

\* A device does not come before the directory above it.
LEMMA ParentNotAfter ==
  ASSUME NEW a \in Dev, NEW b \in Dev, Front(a) = b
  PROVE  ~ device_compare(a, b)
  <1>1. /\ Len(a) \in Nat \ {0} /\ Len(b) \in Nat \ {0} /\ Len(a) = Len(b) + 1
        /\ DOMAIN b = 1..Len(b) /\ DOMAIN a = 1..Len(a)
        /\ \A i \in 1..Len(b) : a[i] = b[i] /\ Rank[b[i]] \in Nat
    BY Paths DEF Front
  <1>2. sound_device_compare(a, b) # "Less"
    <2>1. CASE SoundEqual(a, b)
      BY <2>1, SoundCompare
    <2>2. CASE ~ SoundEqual(a, b)
      <3>1. CardsAt(a) # {} /\ Controls(a, a) # Controls(a, b)
        BY <2>2 DEF SoundEqual
      <3>2. FirstCard(a) \in 1 .. Len(a) - 2
        BY <3>1, FirstCardAt
      <3>3. ASSUME NEW i \in FirstCard(a) + 1 .. Len(b), b[i] \in Control
            PROVE  i \in FirstCard(a) + 1 .. Len(a) /\ a[i] \in Control
        BY <1>1, <3>2, <3>3
      <3>4. Controls(a, b) => Controls(a, a)
        BY <3>3 DEF Controls
      <3>5. Controls(a, a) \in BOOLEAN /\ Controls(a, b) \in BOOLEAN
        BY DEF Controls
      <3>6. Controls(a, a)
        BY <3>1, <3>4, <3>5
      <3>7. QED
        BY <2>2, <3>6, SoundCompare
    <2>3. QED
      BY <2>1, <2>2
  <1>3. devpath_is_late_block(b) => devpath_is_late_block(a)
    BY <1>1 DEF devpath_is_late_block
  <1>4. ~ PathLess(a, b)
    <2>1. ~ IsPrefix(a, b)
      BY <1>1 DEF IsPrefix
    <2>2. ASSUME NEW i \in DOMAIN a \cap DOMAIN b
          PROVE  ~ (Rank[a[i]] < Rank[b[i]])
      BY <1>1
    <2>3. QED
      BY <2>1, <2>2 DEF PathLess
  <1>5. QED
    BY <1>2, <1>3, <1>4 DEF device_compare

\* md and dm are compared by their names only with one another.
LEMMA LateAfter ==
  ASSUME NEW a \in Dev, NEW b \in Dev, device_compare(a, b), devpath_is_late_block(a)
  PROVE  devpath_is_late_block(b)
  <1>1. CardsAt(a) = {}
    BY SysfsAssumption DEF CardsAt, Dev
  <1>2. sound_device_compare(a, b) = "Equal"
    BY <1>1, SoundCompare DEF SoundEqual
  <1>3. QED
    BY <1>2 DEF device_compare

\* The control device of a card comes before nothing else of its card.
LEMMA ControlAfter ==
  ASSUME NEW a \in Dev, NEW b \in Dev, device_compare(a, b), Name(a) \in Control, IsPrefix(Front(a), b)
  PROVE  Name(b) \in Control
  <1> DEFINE k == FirstCard(a)
  <1>1. SUFFICES ASSUME Name(b) \notin Control
                 PROVE  FALSE
    OBVIOUS
  <1>2. Len(a) \in Nat \ {0} /\ Len(b) \in Nat \ {0} /\ a \in Seq(DOMAIN Rank)
    BY Paths, SysfsAssumption DEF Dev
  <1>3. a[Len(a)] \in Control /\ b[Len(b)] \notin Control
    BY <1>1 DEF Name, Last
  <1>4. Len(a) > 2 /\ a[Len(a) - 2] = "sound" /\ a[Len(a) - 1] \in Card
    BY <1>2, <1>3, SysfsAssumption DEF Dev
  <1>5. Len(a) - 2 \in 1 .. Len(a) - 2 /\ (Len(a) - 2) + 1 = Len(a) - 1
    BY <1>2, <1>4
  <1>6. CardsAt(a) # {}
    BY <1>4, <1>5 DEF CardsAt
  <1>7. k \in 1 .. Len(a) - 2
    BY <1>6, FirstCardAt
  <1>8. Front(a) \in Seq(DOMAIN Rank) /\ Len(Front(a)) = Len(a) - 1 /\ \A i \in 1..(Len(a) - 1) : Front(a)[i] = a[i]
    <2> DEFINE n == Len(a) - 1
    <2>1. n \in Nat /\ 1 \in Int /\ n \in Int /\ n - 1 + 1 = n
      BY <1>2
    <2>2. \A i \in 1..n : a[i] \in DOMAIN Rank
      BY <1>2
    <2> HIDE DEF n
    <2>3. /\ SubSeq(a, 1, n) \in Seq(DOMAIN Rank)
          /\ Len(SubSeq(a, 1, n)) = IF 1 <= n THEN n - 1 + 1 ELSE 0
          /\ \A i \in 1..(n - 1 + 1) : SubSeq(a, 1, n)[i] = a[1 + i - 1]
      BY <2>1, <2>2, SubSeqProperties
    <2>4. Len(SubSeq(a, 1, n)) = n /\ \A i \in 1..n : SubSeq(a, 1, n)[i] = a[i]
      BY <2>1, <2>3
    <2>5. QED
      BY <2>3, <2>4 DEF Front, n
  <1>9. /\ Len(a) - 1 <= Len(b)
        /\ \A i \in 0..(Len(a) - 1) : SubSeq(b, 1, i) = SubSeq(Front(a), 1, i)
    BY <1>8, PrefixNames
  <1> HIDE DEF k
  <1>10. SubSeq(Front(a), 1, k - 1) = SubSeq(a, 1, k - 1)
    BY <1>2, <1>7, <1>8
  <1>11. ~ (Len(b) < k) /\ SubSeq(a, 1, k - 1) = SubSeq(b, 1, k - 1)
    BY <1>2, <1>7, <1>9, <1>10
  <1>12. Controls(a, a)
    <2>1. Len(a) \in k + 1 .. Len(a)
      BY <1>2, <1>7
    <2>2. QED
      BY <1>3, <2>1 DEF Controls, k
  <1>13. ~ Controls(a, b)
    <2>1. ASSUME NEW i \in k + 1 .. Len(b), b[i] \in Control
          PROVE  FALSE
      <3>1. i \in 1..Len(b)
        BY <1>2, <1>7
      <3>2. i = Len(b)
        BY <2>1, <3>1, SysfsAssumption DEF Dev
      <3>3. QED
        BY <1>3, <2>1, <3>2
    <2>2. QED
      BY <2>1 DEF Controls, k
  <1>14. ~ SoundEqual(a, b)
    BY <1>6, <1>11, <1>12, <1>13 DEF SoundEqual, k
  <1>15. sound_device_compare(a, b) = "Greater"
    BY <1>12, <1>14, SoundCompare
  <1>16. QED
    BY <1>15 DEF device_compare

-----------------------------------------------------------------------------
(* The parts of the list. *)

LEMMA PrioritizedWithin ==
  ASSUME NEW M \in SUBSET Dev, NEW s
  PROVE  prioritized(M, s) \subseteq M
  <1> DEFINE above(d) == {SubSeq(d, 1, i) : i \in {j \in 1 .. Len(d) - 1 :
                            \A k \in j .. Len(d) - 1 : SubSeq(d, 1, k) \in M}}
  <1>1. ASSUME NEW d \in M PROVE above(d) \subseteq M
    <2>1. Len(d) \in Nat
      BY Paths
    <2>2. ASSUME NEW j \in 1 .. Len(d) - 1, \A k \in j .. Len(d) - 1 : SubSeq(d, 1, k) \in M
          PROVE  SubSeq(d, 1, j) \in M
      <3>1. j \in j .. Len(d) - 1
        BY <2>1
      <3>2. QED
        BY <2>2, <3>1
    <2>3. QED
      BY <2>2
  <1>2. QED
    BY <1>1 DEF prioritized

\* What stands directly above a prioritized device goes with it.
LEMMA PrioritizedClosed ==
  ASSUME NEW M \in SUBSET Dev, NEW s, NEW a \in prioritized(M, s), Front(a) \in M
  PROVE  Front(a) \in prioritized(M, s)
  <1> DEFINE own == {d \in M : get_subsystem(d) = s}
             pos(d) == {j \in 1 .. Len(d) - 1 : \A k \in j .. Len(d) - 1 : SubSeq(d, 1, k) \in M}
             above(d) == {SubSeq(d, 1, i) : i \in pos(d)}
  <1>1. prioritized(M, s) = own \cup UNION {above(d) : d \in own}
    BY DEF prioritized
  <1>2. a \in Dev /\ Front(a) \in Dev
    BY PrioritizedWithin
  <1>3. Len(a) \in Nat /\ Len(a) - 1 >= 1 /\ Front(a) = SubSeq(a, 1, Len(a) - 1)
    <2>1. Len(a) \in Nat \ {0} /\ a \in Seq(DOMAIN Rank) /\ Front(a) # <<>>
      BY <1>2, Paths, SysfsAssumption DEF Dev
    <2>2. Len(a) # 1
      <3>1. SUFFICES ASSUME Len(a) = 1 PROVE FALSE
        OBVIOUS
      <3>2. Front(a) = SubSeq(a, 1, 0)
        BY <3>1 DEF Front
      <3>3. SubSeq(a, 1, 0) = <<>>
        BY SubSeqEmpty
      <3>4. QED
        BY <2>1, <3>2, <3>3
    <2>3. QED
      BY <2>1, <2>2 DEF Front
  <1>4. ASSUME NEW d \in own, NEW j \in pos(d), d \in Dev, j - 1 >= 1, SubSeq(d, 1, j - 1) \in M
        PROVE  j - 1 \in pos(d)
    <2>1. Len(d) \in Nat
      BY <1>4, Paths
    <2>2. QED
      BY <1>4, <2>1
  <1>5. CASE a \in own
    <2>1. Len(a) - 1 \in pos(a)
      BY <1>3
    <2>2. Front(a) \in above(a)
      BY <1>3, <2>1
    <2>3. QED
      BY <1>1, <1>5, <2>2
  <1>6. CASE a \in UNION {above(d) : d \in own}
    <2>1. PICK d \in own : a \in above(d)
      BY <1>6
    <2>2. PICK j \in pos(d) : a = SubSeq(d, 1, j)
      BY <2>1
    <2>3. d \in Dev /\ Len(d) \in Nat /\ d \in Seq(DOMAIN Rank) /\ j \in 1 .. Len(d) - 1
      BY Paths, SysfsAssumption DEF Dev
    <2>4. Len(a) = j
      BY <2>2, <2>3
    <2>5. SubSeq(a, 1, j - 1) = SubSeq(d, 1, j - 1)
      BY <2>2, <2>3
    <2>6. Front(a) = SubSeq(d, 1, j - 1) /\ j - 1 >= 1
      BY <1>3, <2>4, <2>5
    <2>7. j - 1 \in pos(d)
      BY <1>4, <2>3, <2>6
    <2>8. Front(a) \in above(d)
      BY <2>6, <2>7
    <2> HIDE DEF above
    <2>9. QED
      BY <1>1, <2>8
  <1>7. QED
    BY <1>1, <1>5, <1>6

\* The devices of the first i prioritized subsystems.
Part(v) == CHOOSE g : g = [i \in 0 .. Len(v.prio) |->
             IF i = 0 THEN {} ELSE g[i - 1] \cup prioritized(v.map \ g[i - 1], v.prio[i])]

LEMMA PartFacts ==
  ASSUME NEW v, v.map \in SUBSET Dev, v.prio \in Seq(Prioritized)
  PROVE  /\ Part(v)[0] = {}
         /\ \A i \in 1..Len(v.prio) :
              Part(v)[i] = Part(v)[i - 1] \cup prioritized(v.map \ Part(v)[i - 1], v.prio[i])
         /\ \A i \in 0..Len(v.prio) : Part(v)[i] \in SUBSET v.map
  <1> DEFINE n == Len(v.prio)
             X == SUBSET v.map
             step == [k \in Nat |-> [x \in X |-> IF k \in 1..n THEN x \cup prioritized(v.map \ x, v.prio[k]) ELSE x]]
             IsPart(g) == g = [i \in 0..n |-> IF i = 0 THEN {} ELSE g[i - 1] \cup prioritized(v.map \ g[i - 1], v.prio[i])]
  <1>1. n \in Nat
    OBVIOUS
  <1>2. ASSUME NEW x \in X, NEW s
        PROVE  x \cup prioritized(v.map \ x, s) \in X
    <2>1. v.map \ x \in SUBSET Dev
      OBVIOUS
    <2>2. prioritized(v.map \ x, s) \subseteq v.map \ x
      BY <2>1, PrioritizedWithin
    <2>3. QED
      BY <2>2
  <1>3. step \in Steps(X) /\ {} \in X
    <2>1. {} \in X
      OBVIOUS
    <2> HIDE DEF X
    <2>2. \A k \in Nat : \A x \in X : (IF k \in 1..n THEN x \cup prioritized(v.map \ x, v.prio[k]) ELSE x) \in X
      BY <1>2
    <2>3. QED
      BY <2>1, <2>2 DEF Steps
  <1>4. PICK h : Iterates(h, X, {}, step)
    <2> HIDE DEF step, X
    <2>1. QED
      BY <1>3, Recursion
  <1> DEFINE g == [i \in 0..n |-> h[i]]
  <1>5. h \in [Nat -> X] /\ h[0] = {} /\ \A k \in Nat : h[k + 1] = step[k + 1][h[k]]
    BY <1>4 DEF Iterates
  <1>6. ASSUME NEW i \in 1..n
        PROVE  h[i] = h[i - 1] \cup prioritized(v.map \ h[i - 1], v.prio[i])
    <2>1. i - 1 \in Nat /\ (i - 1) + 1 = i /\ i \in Nat
      BY <1>1
    <2>2. h[i] = step[i][h[i - 1]] /\ h[i - 1] \in X
      <3> HIDE DEF step, X
      <3>1. QED
        BY <1>5, <2>1
    <2> HIDE DEF X
    <2>3. step[i][h[i - 1]] = h[i - 1] \cup prioritized(v.map \ h[i - 1], v.prio[i])
      BY <2>1, <2>2
    <2>4. QED
      BY <2>2, <2>3
  <1>7. IsPart(g)
    <2>1. ASSUME NEW i \in 0..n
          PROVE  g[i] = IF i = 0 THEN {} ELSE g[i - 1] \cup prioritized(v.map \ g[i - 1], v.prio[i])
      <3>1. CASE i = 0
        BY <1>5, <3>1
      <3>2. CASE i # 0
        <4>1. i \in 1..n /\ i - 1 \in 0..n
          BY <1>1, <3>2
        <4>2. g[i] = h[i] /\ g[i - 1] = h[i - 1]
          BY <4>1
        <4>3. QED
          BY <1>6, <3>2, <4>1, <4>2
      <3>3. QED
        BY <3>1, <3>2
    <2> HIDE DEF g
    <2>2. DOMAIN g = 0..n /\ g = [i \in 0..n |-> g[i]]
      BY DEF g
    <2>3. QED
      BY <2>1, <2>2
  <1> DEFINE c == Part(v)
  <1>8. IsPart(c)
    <2>1. c = CHOOSE x : IsPart(x)
      BY DEF Part
    <2> HIDE DEF IsPart, c
    <2>2. QED
      BY <1>7, <2>1
  <1> HIDE DEF c
  <1>9. c[0] = {} /\ \A i \in 1..n : c[i] = c[i - 1] \cup prioritized(v.map \ c[i - 1], v.prio[i])
    <2> DEFINE d == [i \in 0..n |-> IF i = 0 THEN {} ELSE c[i - 1] \cup prioritized(v.map \ c[i - 1], v.prio[i])]
    <2>1. c = d
      BY <1>8
    <2>2. d[0] = {}
      <3>1. 0 \in 0..n
        BY <1>1
      <3>2. QED
        BY <3>1
    <2>3. ASSUME NEW i \in 1..n
          PROVE  d[i] = c[i - 1] \cup prioritized(v.map \ c[i - 1], v.prio[i])
      <3>1. i # 0 /\ i \in 0..n
        BY <1>1
      <3> HIDE DEF n
      <3>2. QED
        BY <3>1
    <2> HIDE DEF d
    <2>4. QED
      BY <2>1, <2>2, <2>3
  <1> DEFINE P == {i \in Nat : i <= n => c[i] \in X}
  <1>10. 0 \in P
    BY <1>9
  <1>11. ASSUME NEW i \in P
         PROVE  i + 1 \in P
    <2>0. i \in Nat /\ (i <= n => c[i] \in X)
      OBVIOUS
    <2> HIDE DEF P
    <2>1. CASE i + 1 <= n
      <3>1. i + 1 \in 1..n /\ (i + 1) - 1 = i /\ i <= n
        BY <1>1, <2>0, <2>1
      <3>2. c[i + 1] = c[i] \cup prioritized(v.map \ c[i], v.prio[i + 1])
        BY <1>9, <3>1
      <3> HIDE DEF X
      <3>3. c[i + 1] \in X
        BY <1>2, <2>0, <3>1, <3>2
      <3>4. QED
        BY <2>0, <3>3 DEF P
    <2>2. CASE ~ (i + 1 <= n)
      BY <1>1, <2>0, <2>2 DEF P
    <2>3. QED
      BY <2>1, <2>2
  <1>12. P = Nat
    <2> HIDE DEF P
    <2>1. P \in SUBSET Nat
      BY DEF P
    <2>2. QED
      BY <1>10, <1>11, <2>1, NatSet
  <1>13. \A i \in 0..n : c[i] \in X
    BY <1>1, <1>12
  <1>14. QED
    BY <1>9, <1>13 DEF c

PartsOf(v) == [i \in 1 .. Len(v.prio) + 1 |->
                 IF i > Len(v.prio) THEN v.map \ Part(v)[Len(v.prio)] ELSE Part(v)[i] \ Part(v)[i - 1]]

LEMMA PartGrows ==
  ASSUME NEW v, v.map \in SUBSET Dev, v.prio \in Seq(Prioritized)
  PROVE  \A i, k \in 0..Len(v.prio) : i <= k => Part(v)[i] \subseteq Part(v)[k]
  <1> DEFINE n == Len(v.prio)
  <1>1. n \in Nat
    OBVIOUS
  <1>2. ASSUME NEW i \in 0..n
        PROVE  \A k \in i..n : Part(v)[i] \subseteq Part(v)[k]
    <2> DEFINE P == {j \in Nat : i + j <= n => Part(v)[i] \subseteq Part(v)[i + j]}
    <2>1. 0 \in P
      <3>1. i + 0 = i
        BY <1>1
      <3>2. QED
        BY <3>1
    <2>2. ASSUME NEW j \in P
          PROVE  j + 1 \in P
      <3>0. j \in Nat /\ (i + j <= n => Part(v)[i] \subseteq Part(v)[i + j])
        OBVIOUS
      <3> HIDE DEF P
      <3>1. CASE i + (j + 1) <= n
        <4>1. i + (j + 1) \in 1..n /\ (i + (j + 1)) - 1 = i + j /\ i + j <= n
          BY <1>1, <3>0, <3>1
        <4>2. Part(v)[i + j] \subseteq Part(v)[i + (j + 1)]
          <5>0. \A k \in 1..n : Part(v)[k] = Part(v)[k - 1] \cup prioritized(v.map \ Part(v)[k - 1], v.prio[k])
            BY PartFacts
          <5>1. \A k \in 1..n : Part(v)[k - 1] \subseteq Part(v)[k]
            BY <5>0
          <5> HIDE DEF n
          <5>2. Part(v)[(i + (j + 1)) - 1] \subseteq Part(v)[i + (j + 1)]
            BY <4>1, <5>1
          <5>3. QED
            BY <4>1, <5>2
        <4>3. QED
          BY <3>0, <4>1, <4>2 DEF P
      <3>2. CASE ~ (i + (j + 1) <= n)
        BY <3>0, <3>2 DEF P
      <3>3. QED
        BY <3>1, <3>2
    <2>3. P = Nat
      <3> HIDE DEF P
      <3>1. P \in SUBSET Nat
        BY DEF P
      <3>2. QED
        BY <2>1, <2>2, <3>1, NatSet
    <2>4. ASSUME NEW k \in i..n
          PROVE  Part(v)[i] \subseteq Part(v)[k]
      <3>1. k - i \in Nat /\ i + (k - i) = k /\ k <= n
        BY <1>1
      <3>2. k - i \in P
        <4> HIDE DEF P
        <4>1. QED
          BY <2>3, <3>1
      <3>3. QED
        BY <3>1, <3>2
    <2>5. QED
      BY <2>4
  <1>3. QED
    BY <1>1, <1>2

\* The parts divide the map, and no device is in an earlier part than the directory above it.
LEMMA PartsDivide ==
  ASSUME NEW v, v.map \in SUBSET Dev, v.prio \in Seq(Prioritized)
  PROVE  /\ \A i \in 1 .. Len(v.prio) + 1 : PartsOf(v)[i] \in SUBSET v.map
         /\ \A d \in v.map : \E i \in 1 .. Len(v.prio) + 1 : d \in PartsOf(v)[i]
         /\ \A i, k \in 1 .. Len(v.prio) + 1 : i < k => PartsOf(v)[i] \cap PartsOf(v)[k] = {}
         /\ \A i, k \in 1 .. Len(v.prio) + 1 : i < k =>
              \A a \in PartsOf(v)[i], b \in PartsOf(v)[k] : Front(a) # b
  <1> DEFINE n == Len(v.prio)
             c == Part(v)
             q == PartsOf(v)
  <1>1. n \in Nat
    OBVIOUS
  <1>2. /\ c[0] = {} /\ \A i \in 0..n : c[i] \in SUBSET v.map
        /\ \A i \in 1..n : c[i] = c[i - 1] \cup prioritized(v.map \ c[i - 1], v.prio[i])
    BY PartFacts
  <1>3. \A i, k \in 0..n : i <= k => c[i] \subseteq c[k]
    BY PartGrows
  <1>4. \A i \in 1..n : q[i] = c[i] \ c[i - 1]
    BY <1>1 DEF PartsOf
  <1>5. q[n + 1] = v.map \ c[n]
    BY <1>1 DEF PartsOf
  <1> HIDE DEF c, q, n
  <1>6. ASSUME NEW i \in 1..(n + 1)
        PROVE  q[i] \in SUBSET v.map
    <2>1. CASE i \in 1..n
      BY <1>1, <1>2, <1>4, <2>1
    <2>2. CASE i = n + 1
      BY <1>5, <2>2
    <2>3. QED
      BY <1>1, <2>1, <2>2
  <1>7. ASSUME NEW k \in 1..(n + 1)
        PROVE  q[k] \cap c[k - 1] = {} /\ k - 1 \in 0..n
    <2>1. CASE k \in 1..n
      BY <1>1, <1>4, <2>1
    <2>2. CASE k = n + 1
      BY <1>1, <1>5, <2>2
    <2>3. QED
      BY <1>1, <2>1, <2>2
  <1>8. ASSUME NEW i \in 1..(n + 1), NEW k \in 1..(n + 1), i < k
        PROVE  i \in 1..n /\ q[i] \subseteq c[i] /\ c[i] \subseteq c[k - 1]
    BY <1>1, <1>3, <1>4, <1>7, <1>8
  <1>9. ASSUME NEW i \in 1..(n + 1), NEW k \in 1..(n + 1), i < k
        PROVE  q[i] \cap q[k] = {}
    BY <1>7, <1>8, <1>9
  <1>10. ASSUME NEW i \in 1..(n + 1), NEW k \in 1..(n + 1), i < k, NEW a \in q[i], NEW b \in q[k], Front(a) = b
         PROVE  FALSE
    <2>1. i \in 1..n /\ i - 1 \in 0..n /\ i \in 0..n
      BY <1>1, <1>8, <1>10
    <2>2. b \in v.map /\ b \notin c[i]
      BY <1>6, <1>7, <1>8, <1>10
    <2>3. c[i] = c[i - 1] \cup prioritized(v.map \ c[i - 1], v.prio[i])
      BY <1>2, <2>1
    <2>4. a \in prioritized(v.map \ c[i - 1], v.prio[i])
      BY <1>4, <2>1, <2>3
    <2>5. b \in v.map \ c[i - 1] /\ v.map \ c[i - 1] \in SUBSET Dev
      BY <2>2, <2>3
    <2>6. b \in prioritized(v.map \ c[i - 1], v.prio[i])
      BY <1>10, <2>4, <2>5, PrioritizedClosed
    <2>7. QED
      BY <2>2, <2>3, <2>6
  <1>11. ASSUME NEW d \in v.map
         PROVE  \E i \in 1..(n + 1) : d \in q[i]
    <2> DEFINE P == {i \in Nat : i <= n /\ d \in c[i] => \E k \in 1..n : d \in q[k]}
    <2>1. 0 \in P
      BY <1>2
    <2>2. ASSUME NEW i \in P
          PROVE  i + 1 \in P
      <3>0. i \in Nat /\ (i <= n /\ d \in c[i] => \E k \in 1..n : d \in q[k])
        OBVIOUS
      <3> HIDE DEF P
      <3>1. CASE i + 1 <= n /\ d \in c[i + 1] /\ d \notin c[i]
        <4>1. i + 1 \in 1..n /\ (i + 1) - 1 = i
          BY <1>1, <3>0, <3>1
        <4>2. d \in q[i + 1]
          BY <1>4, <3>1, <4>1
        <4>3. QED
          BY <3>0, <4>1, <4>2 DEF P
      <3>2. CASE ~ (i + 1 <= n /\ d \in c[i + 1] /\ d \notin c[i])
        <4>1. i + 1 <= n => i <= n
          BY <1>1, <3>0
        <4>2. QED
          BY <3>0, <3>2, <4>1 DEF P
      <3>3. QED
        BY <3>1, <3>2
    <2>3. P = Nat
      <3> HIDE DEF P
      <3>1. P \in SUBSET Nat
        BY DEF P
      <3>2. QED
        BY <2>1, <2>2, <3>1, NatSet
    <2>4. n \in P /\ n <= n
      <3> HIDE DEF P
      <3>1. QED
        BY <1>1, <2>3
    <2>5. CASE d \in c[n]
      <3>1. \E k \in 1..n : d \in q[k]
        BY <2>4, <2>5
      <3>2. QED
        BY <1>1, <3>1
    <2>6. CASE d \notin c[n]
      <3>1. n + 1 \in 1..(n + 1) /\ d \in q[n + 1]
        BY <1>1, <1>5, <2>6
      <3>2. QED
        BY <3>1
    <2>7. QED
      BY <2>5, <2>6
  <1>12. QED
    BY <1>6, <1>9, <1>10, <1>11 DEF c, q, n

LEMMA SortedPart ==
  ASSUME NEW S \in SUBSET Dev, NEW s \in sort_by(S)
  PROVE  /\ s \in Seq(S) /\ DOMAIN s = 1..Len(s) /\ Range(s) = S
         /\ \A i, k \in DOMAIN s : i # k => s[i] # s[k]
         /\ Consistent(S) => \A i, k \in DOMAIN s : i < k => device_compare(s[i], s[k])
  <1>1. IsFiniteSet(S)
    BY FS_Subset, SysfsAssumption DEF Dev
  <1>2. CASE Consistent(S)
    <2>1. s = [i \in 1..Cardinality(S) |->
                 CHOOSE a \in S : Cardinality({b \in S : device_compare(b, a)}) = i - 1]
      BY <1>2 DEF sort_by
    <2>2. s \in SetToSeqs(S) /\ \A i, k \in DOMAIN s : i < k => device_compare(s[i], s[k])
      BY <1>2, <2>1, Ranked
    <2>3. QED
      BY <1>1, <2>2, Listing
  <1>3. CASE ~ Consistent(S)
    <2>1. s \in SetToSeqs(S)
      BY <1>3 DEF sort_by
    <2>2. QED
      BY <1>1, <1>3, <2>1, Listing
  <1>4. QED
    BY <1>2, <1>3

\* What ParentsFirst says of the list q.
ListOrder(q, prio) ==
  \A i, k \in DOMAIN q : i < k =>
    /\ Front(q[i]) # q[k]
    /\ prio = <<>> /\ devpath_is_late_block(q[i]) => devpath_is_late_block(q[k])
    /\ prio = <<>> /\ Name(q[i]) \in Control /\ IsPrefix(Front(q[i]), q[k]) => Name(q[k]) \in Control

\* A list of the devices of M, each once, in order if there is an order.
ListOf(q, M, prio) ==
  /\ q \in Seq(Dev) /\ Range(q) = M
  /\ \A i, k \in DOMAIN q : i < k => q[i] # q[k]
  /\ Consistent(M) => ListOrder(q, prio)

LEMMA OrderedPair ==
  ASSUME NEW a \in Dev, NEW b \in Dev, device_compare(a, b)
  PROVE  /\ Front(a) # b
         /\ devpath_is_late_block(a) => devpath_is_late_block(b)
         /\ Name(a) \in Control /\ IsPrefix(Front(a), b) => Name(b) \in Control
  BY ParentNotAfter, LateAfter, ControlAfter

LEMMA SortResult ==
  ASSUME NEW v, v.map \in SUBSET Dev, v.prio \in Seq(Prioritized), NEW l \in sort_devices(v)
  PROVE  \E q : /\ l = [v EXCEPT !.devices = q, !.sorted = TRUE, !.index = 0]
                /\ ListOf(q, v.map, v.prio)
  <1> DEFINE n == Len(v.prio) + 1
             p == PartsOf(v)
  <1>1. n \in Nat \ {0} /\ DOMAIN p = 1..n
    BY DEF PartsOf
  <1>2. \E f \in [1..n -> UNION {sort_by(p[i]) : i \in 1..n}] :
          /\ \A i \in 1..n : f[i] \in sort_by(p[i])
          /\ l = [v EXCEPT !.devices = FlattenSeq(f), !.sorted = TRUE, !.index = 0]
    BY <1>1 DEF sort_devices, PartsOf, Part
  <1>3. PICK f \in [1..n -> UNION {sort_by(p[i]) : i \in 1..n}] :
          /\ \A i \in 1..n : f[i] \in sort_by(p[i])
          /\ l = [v EXCEPT !.devices = FlattenSeq(f), !.sorted = TRUE, !.index = 0]
    BY <1>2
  <1>4. /\ \A i \in 1..n : p[i] \in SUBSET v.map
        /\ \A d \in v.map : \E i \in 1..n : d \in p[i]
        /\ \A i, k \in 1..n : i < k => p[i] \cap p[k] = {}
        /\ \A i, k \in 1..n : i < k => \A a \in p[i], b \in p[k] : Front(a) # b
    BY PartsDivide
  <1>n. n = 1 <=> v.prio = <<>>
    BY EmptySeq
  <1> DEFINE q == FlattenSeq(f)
  <1> HIDE DEF n, p, q
  <1>5. ASSUME NEW i \in 1..n
        PROVE  /\ f[i] \in Seq(Dev) /\ f[i] \in Seq(p[i]) /\ DOMAIN f[i] = 1..Len(f[i]) /\ Range(f[i]) = p[i]
               /\ \A j, k \in 1..Len(f[i]) : j # k => f[i][j] # f[i][k]
               /\ Consistent(p[i]) => \A j, k \in 1..Len(f[i]) : j < k => device_compare(f[i][j], f[i][k])
    <2>1. p[i] \in SUBSET Dev /\ f[i] \in sort_by(p[i])
      BY <1>3, <1>4
    <2>2. f[i] \in Seq(p[i]) /\ DOMAIN f[i] = 1..Len(f[i])
      BY <2>1, SortedPart
    <2>3. f[i] \in Seq(Dev)
      BY <2>1, <2>2, SeqMonotonic
    <2>4. QED
      BY <2>1, <2>2, <2>3, SortedPart
  <1>6. f \in Seq(Seq(Dev)) /\ Len(f) = n /\ f # <<>>
    <2>1. f \in [1..n -> Seq(Dev)] /\ n \in Nat
      BY <1>1, <1>3, <1>5
    <2>2. f \in Seq(Seq(Dev)) /\ Len(f) = n
      <3> DEFINE T == Seq(Dev)
      <3>1. f \in [1..n -> T] /\ n \in Nat
        BY <2>1
      <3> HIDE DEF n, p, T
      <3>2. f \in Seq(T) /\ Len(f) = n
        BY <3>1
      <3>3. QED
        BY <3>2 DEF T
    <2>3. QED
      BY <1>1, <2>2
  <1>7. q \in Seq(Dev) /\ Joined(f, n, q)
    BY <1>6, FlattenJoins DEF q
  <1>8. Range(q) = v.map
    <2>1. DOMAIN q = 1..Len(q)
      BY <1>7
    <2>2. ASSUME NEW x \in Range(q)
          PROVE  x \in v.map
      <3>1. PICK i \in 1..Len(q) : x = q[i]
        BY <2>1 DEF Range
      <3>2. PICK j \in 1..n : \E k \in 1..Len(f[j]) : q[i] = f[j][k]
        BY <1>7, <3>1 DEF Joined
      <3>3. x \in Range(f[j])
        BY <1>5, <3>1, <3>2 DEF Range
      <3>4. QED
        BY <1>4, <1>5, <3>3
    <2>3. ASSUME NEW x \in v.map
          PROVE  x \in Range(q)
      <3>1. PICK j \in 1..n : x \in p[j]
        BY <1>4
      <3>5. x \in Range(f[j]) /\ DOMAIN f[j] = 1..Len(f[j])
        BY <1>5, <3>1
      <3>2. PICK k \in 1..Len(f[j]) : x = f[j][k]
        BY <3>5 DEF Range
      <3>3. PICK i \in 1..Len(q) : q[i] = f[j][k]
        BY <1>7 DEF Joined
      <3>4. QED
        BY <2>1, <3>2, <3>3 DEF Range
    <2>4. QED
      BY <2>2, <2>3
  <1>9. ASSUME NEW i \in DOMAIN q, NEW k \in DOMAIN q, i < k
        PROVE  /\ q[i] # q[k]
               /\ Consistent(v.map) =>
                    /\ Front(q[i]) # q[k]
                    /\ n = 1 => device_compare(q[i], q[k])
    <2>0. i \in 1..Len(q) /\ k \in 1..Len(q)
      BY <1>7
    <2>1. InOrder(f, n, q[i], q[k])
      BY <1>7, <1>9, <2>0 DEF Joined
    <2>2. PICK s \in 1..n, t \in 1..n :
            \E j \in 1..Len(f[s]), m \in 1..Len(f[t]) :
              q[i] = f[s][j] /\ q[k] = f[t][m] /\ (s < t \/ (s = t /\ j < m))
      BY <2>1 DEF InOrder
    <2>3. PICK j \in 1..Len(f[s]), m \in 1..Len(f[t]) :
            q[i] = f[s][j] /\ q[k] = f[t][m] /\ (s < t \/ (s = t /\ j < m))
      BY <2>2
    <2>4. q[i] \in p[s] /\ q[k] \in p[t] /\ q[i] \in Dev /\ q[k] \in Dev
      BY <1>4, <1>5, <2>3 DEF Range
    <2>5. CASE s < t
      <3>1. q[i] # q[k] /\ Front(q[i]) # q[k]
        BY <1>4, <2>4, <2>5
      <3>2. n # 1
        BY <1>1, <2>5
      <3>3. QED
        BY <3>1, <3>2
    <2>6. CASE s = t /\ j < m
      <3>1. j # m /\ j \in 1..Len(f[s]) /\ m \in 1..Len(f[s]) /\ q[k] = f[s][m]
        BY <1>5, <2>3, <2>6
      <3>2. q[i] # q[k]
        BY <1>5, <2>3, <3>1
      <3>3. ASSUME Consistent(v.map)
            PROVE  device_compare(q[i], q[k]) /\ Front(q[i]) # q[k]
        <4>1. Consistent(p[s])
          BY <1>4, <3>3 DEF Consistent
        <4>2. device_compare(q[i], q[k])
          BY <1>5, <2>3, <2>6, <3>1, <4>1
        <4>3. QED
          BY <2>4, <4>2, ParentNotAfter
      <3>4. QED
        BY <3>2, <3>3
    <2>7. QED
      BY <2>3, <2>5, <2>6
  <1>10. ASSUME Consistent(v.map)
         PROVE  ListOrder(q, v.prio)
    <2>1. ASSUME NEW i \in DOMAIN q, NEW k \in DOMAIN q, i < k
          PROVE  /\ Front(q[i]) # q[k]
                 /\ v.prio = <<>> /\ devpath_is_late_block(q[i]) => devpath_is_late_block(q[k])
                 /\ v.prio = <<>> /\ Name(q[i]) \in Control /\ IsPrefix(Front(q[i]), q[k]) => Name(q[k]) \in Control
      <3>1. Front(q[i]) # q[k] /\ (v.prio = <<>> => device_compare(q[i], q[k]))
        BY <1>9, <1>10, <1>n, <2>1
      <3>2. q[i] \in Dev /\ q[k] \in Dev
        BY <1>7
      <3>3. QED
        BY <3>1, <3>2, OrderedPair
    <2>2. QED
      BY <2>1 DEF ListOrder
  <1>11. ListOf(q, v.map, v.prio)
    BY <1>7, <1>8, <1>9, <1>10 DEF ListOf
  <1>12. QED
    BY <1>3, <1>11 DEF q

-----------------------------------------------------------------------------
(* The scan. *)

ERec ==
  [etype : Etype, map : SUBSET Dev, devices : Seq(Dev), index : Nat, up : BOOLEAN, sorted : BOOLEAN,
   prio : Seq(Prioritized), sub : SUBSET SubPattern, nosub : SUBSET SubPattern, attr : BOOLEAN,
   prop : SUBSET ({"SUBSYSTEM", "ID_PATH"} \X ValuePattern), name : SUBSET NamePattern,
   noname : SUBSET NamePattern, tag : BOOLEAN, parent : SUBSET ParentDir,
   ph : {"open", "end", "err", "panic"}, out : Seq(Dev), scans : Nat, calls : Nat]

\* What the rules select, for the rules of v.
SelectedBy(v, d) ==
  /\ get_subsystem(d) \notin (UNION v.nosub) \cup {NoSub}
  /\ v.sub = {} \/ get_subsystem(d) \in UNION v.sub
  /\ Name(d) \notin UNION v.noname /\ (v.name = {} \/ Name(d) \in UNION v.name)
  /\ v.parent = {} \/ \E p \in v.parent : IsPrefix(p, d)

\* The rules do not change while a scan is on.
Rules(v) == <<v.sub, v.nosub, v.name, v.noname, v.parent, v.prop, v.attr, v.tag, v.prio>>
Kept(v, w) ==
  /\ Rules(w) = Rules(v) /\ w.etype = v.etype /\ w.devices = v.devices /\ w.index = v.index
  /\ w.up = v.up /\ w.out = v.out /\ w.scans = v.scans /\ w.calls = v.calls

\* A scan that is at v comes to w.
Scanned(v, w) ==
  /\ w \in ERec /\ Kept(v, w) /\ v.map \subseteq w.map /\ (w.sorted => v.sorted)
  /\ v.ph = "panic" => w.ph = "panic"
  /\ w.ph = "end" => v.ph = "end"
  /\ \A d \in w.map : d \in v.map \/ SelectedBy(v, d)

\* An entry the scan is to find.
Wanted(v, d) == from_syspath(d) /\ test_matches(v, d, ALL)

LEMMA SameRules ==
  ASSUME NEW v, NEW w, Rules(w) = Rules(v), NEW d
  PROVE  /\ SelectedBy(w, d) <=> SelectedBy(v, d)
         /\ Wanted(w, d) <=> Wanted(v, d)
         /\ \A s : match_subsystem(w, s) <=> match_subsystem(v, s)
  <1>1. /\ w.sub = v.sub /\ w.nosub = v.nosub /\ w.name = v.name /\ w.noname = v.noname
        /\ w.parent = v.parent /\ w.prop = v.prop
    BY DEF Rules
  <1>2. SelectedBy(w, d) <=> SelectedBy(v, d)
    BY <1>1 DEF SelectedBy
  <1>3. Wanted(w, d) <=> Wanted(v, d)
    BY <1>1 DEF Wanted, test_matches, match_sysname, match_subsystem, match_parent, match_property
  <1>4. QED
    BY <1>1, <1>2, <1>3 DEF match_subsystem

LEMMA ScannedOn ==
  ASSUME NEW u, NEW v, NEW w, Scanned(u, v), Scanned(v, w)
  PROVE  Scanned(u, w)
  <1>1. Rules(v) = Rules(u) /\ Rules(w) = Rules(u)
    BY DEF Scanned, Kept
  <1>2. Kept(u, w)
    BY <1>1 DEF Scanned, Kept
  <1>3. \A d : SelectedBy(v, d) <=> SelectedBy(u, d)
    BY <1>1, SameRules
  <1>4. QED
    BY <1>2, <1>3 DEF Scanned

LEMMA ScannedSelf ==
  ASSUME NEW v \in ERec
  PROVE  Scanned(v, v)
  BY DEF Scanned, Kept

LEMMA MatchSelects ==
  ASSUME NEW v, NEW d, match_sysname(v, Name(d)), test_matches(v, d, ALL \ {"SYSNAME"})
  PROVE  SelectedBy(v, d) /\ test_matches(v, d, ALL)
  <1>1. get_subsystem(d) # NoSub /\ match_subsystem(v, get_subsystem(d)) /\ match_parent(v, d) /\ match_property(v, d)
    BY DEF test_matches, ALL
  <1>2. SelectedBy(v, d)
    BY <1>1 DEF SelectedBy, match_sysname, match_subsystem, set_pattern_match, pattern_match, match_parent
  <1>3. QED
    BY <1>1, <1>2 DEF test_matches

LEMMA AllMatch ==
  ASSUME NEW v, NEW d, test_matches(v, d, ALL)
  PROVE  match_sysname(v, Name(d)) /\ test_matches(v, d, ALL \ {"SYSNAME"}) /\ SelectedBy(v, d)
  <1>1. match_sysname(v, Name(d)) /\ test_matches(v, d, ALL \ {"SYSNAME"})
    BY DEF test_matches, ALL
  <1>2. QED
    BY <1>1, MatchSelects

\* Devices that the rules select are entered.
LEMMA Entered ==
  ASSUME NEW v \in ERec, NEW A \in SUBSET Dev, NEW b \in BOOLEAN, \A d \in A : SelectedBy(v, d), NEW w,
         w = [v EXCEPT !.map = v.map \cup A, !.sorted = v.sorted /\ b]
  PROVE  Scanned(v, w) /\ w.ph = v.ph
  <1>1. v.map \in SUBSET Dev /\ v.sorted \in BOOLEAN
    BY DEF ERec
  <1>2. v.map \cup A \in SUBSET Dev /\ (v.sorted /\ b) \in BOOLEAN
    BY <1>1
  <1>3. w \in ERec
    BY <1>2 DEF ERec
  <1>4. Kept(v, w)
    BY DEF Kept, Rules, ERec
  <1>5. w.map = v.map \cup A /\ w.sorted = (v.sorted /\ b) /\ w.ph = v.ph
    BY DEF ERec
  <1>6. QED
    BY <1>3, <1>4, <1>5 DEF Scanned

LEMMA DeviceEntered ==
  ASSUME NEW v \in ERec, NEW d \in Dev, SelectedBy(v, d)
  PROVE  Scanned(v, add_device(v, d)) /\ d \in add_device(v, d).map
  <1> DEFINE A == {d}
             b == d \notin v.map
             w == add_device(v, d)
  <1>1. w = [v EXCEPT !.map = v.map \cup A, !.sorted = v.sorted /\ b]
    BY DEF add_device
  <1>2. A \in SUBSET Dev /\ \A x \in A : SelectedBy(v, x)
    OBVIOUS
  <1>3. b \in BOOLEAN
    OBVIOUS
  <1>4. d \in A
    OBVIOUS
  <1> HIDE DEF A, b, w
  <1>5. Scanned(v, w)
    BY <1>1, <1>2, <1>3, Entered
  <1>6. d \in w.map
    BY <1>1, <1>4 DEF ERec
  <1>7. QED
    BY <1>5, <1>6 DEF w

LEMMA ParentsEntered ==
  ASSUME NEW v \in ERec, NEW d \in Dir
  PROVE  Scanned(v, add_parent_devices(v, d)) /\ add_parent_devices(v, d).ph = v.ph
  <1> DEFINE up == {i \in 1 .. Len(d) - 1 : \A k \in i + 1 .. Len(d) : get_parent(SubSeq(d, 1, k)) # {}}
             match == {i \in up : test_matches(v, SubSeq(d, 1, i), ALL)}
             fresh == {i \in match : SubSeq(d, 1, i) \notin v.map}
             walked == {i \in match : \A k \in fresh : k <= i}
             added == {SubSeq(d, 1, i) : i \in walked}
  <1>1. add_parent_devices(v, d) = [v EXCEPT !.map = v.map \cup added, !.sorted = v.sorted /\ (added \cap v.map = {})]
    BY DEF add_parent_devices
  <1>2. ASSUME NEW i \in walked
        PROVE  SubSeq(d, 1, i) \in Dev /\ SelectedBy(v, SubSeq(d, 1, i))
    <2>1. i \in 1 .. Len(d) - 1 /\ test_matches(v, SubSeq(d, 1, i), ALL)
      OBVIOUS
    <2>2. d \in Seq(DOMAIN Rank) /\ Len(d) \in Nat /\ i \in Nat /\ i + 1 \in i + 1 .. Len(d) /\ i + 1 \in 1..Len(d)
      BY <2>1, SysfsAssumption
    <2>3. Front(SubSeq(d, 1, i + 1)) = SubSeq(d, 1, i)
      BY <2>2 DEF Front
    <2>4. from_syspath(SubSeq(d, 1, i))
      BY <2>2, <2>3 DEF get_parent
    <2>5. SubSeq(d, 1, i) \in Dir
      BY <2>1, SysfsAssumption
    <2>6. QED
      BY <2>1, <2>4, <2>5, AllMatch DEF Dev
  <1>3. added \in SUBSET Dev /\ \A x \in added : SelectedBy(v, x)
    BY <1>2
  <1> DEFINE b == added \cap v.map = {}
             w == add_parent_devices(v, d)
  <1>4. b \in BOOLEAN /\ w = [v EXCEPT !.map = v.map \cup added, !.sorted = v.sorted /\ b]
    BY <1>1
  <1> HIDE DEF added, b, w
  <1>5. Scanned(v, w) /\ w.ph = v.ph
    BY <1>3, <1>4, Entered
  <1>6. QED
    BY <1>5 DEF w

LEMMA EntryScanned ==
  ASSUME NEW v \in ERec, NEW d \in Dir
  PROVE  /\ Scanned(v, scan_entry(v, d))
         /\ scan_entry(v, d).ph # "panic" /\ Wanted(v, d) => d \in scan_entry(v, d).map
  <1> DEFINE w == scan_entry(v, d)
  <1>1. CASE v.ph = "panic" \/ ~ match_sysname(v, Name(d))
    <2>1. w = v
      BY <1>1 DEF scan_entry
    <2>2. w.ph # "panic" => ~ Wanted(v, d)
      BY <1>1, <2>1, AllMatch DEF Wanted
    <2>3. QED
      BY <2>1, <2>2, ScannedSelf
  <1>2. CASE v.ph # "panic" /\ match_sysname(v, Name(d)) /\ ~ from_syspath(d)
    <2>1. w = [v EXCEPT !.ph = "err"]
      BY <1>2 DEF scan_entry
    <2>2. w \in ERec /\ Kept(v, w) /\ w.map = v.map /\ w.sorted = v.sorted /\ w.ph = "err"
      BY <2>1 DEF ERec, Kept, Rules
    <2>3. Scanned(v, w)
      BY <1>2, <2>2 DEF Scanned
    <2>4. QED
      BY <1>2, <2>3 DEF Wanted
  <1>3. CASE v.ph # "panic" /\ match_sysname(v, Name(d)) /\ from_syspath(d) /\ ~ test_matches(v, d, ALL \ {"SYSNAME"})
    <2>1. w = v
      BY <1>3 DEF scan_entry
    <2>2. ~ Wanted(v, d)
      BY <1>3, AllMatch DEF Wanted
    <2>3. QED
      BY <2>1, <2>2, ScannedSelf
  <1>4. CASE v.ph # "panic" /\ match_sysname(v, Name(d)) /\ from_syspath(d) /\ test_matches(v, d, ALL \ {"SYSNAME"}) /\ v.attr
    <2>1. w = [v EXCEPT !.ph = "panic"]
      BY <1>4 DEF scan_entry, Panic
    <2>2. w \in ERec /\ Kept(v, w) /\ w.map = v.map /\ w.sorted = v.sorted /\ w.ph = "panic"
      BY <2>1 DEF ERec, Kept, Rules
    <2>3. QED
      BY <2>2 DEF Scanned
  <1>5. CASE v.ph # "panic" /\ match_sysname(v, Name(d)) /\ from_syspath(d) /\ test_matches(v, d, ALL \ {"SYSNAME"}) /\ ~ v.attr
    <2> DEFINE x == add_device(v, d)
    <2>1. w = add_parent_devices(x, d)
      BY <1>5 DEF scan_entry
    <2>3. SelectedBy(v, d)
      BY <1>5, MatchSelects
    <2> HIDE DEF x
    <2>4. Scanned(v, x) /\ d \in x.map
      <3>1. d \in Dev
        BY <1>5 DEF Dev
      <3>2. QED
        BY <2>3, <3>1, DeviceEntered DEF x
    <2>5. Scanned(x, w)
      BY <2>1, <2>4, ParentsEntered DEF Scanned
    <2> HIDE DEF w
    <2>6. Scanned(v, w) /\ d \in w.map
      BY <2>4, <2>5, ScannedOn DEF Scanned
    <2>7. QED
      BY <2>6 DEF w
  <1>6. QED
    BY <1>1, <1>2, <1>3, <1>4, <1>5

\* The entries of s one after the other.
LEMMA EntriesScanned ==
  ASSUME NEW v \in ERec, NEW s \in Seq(Dir)
  PROVE  /\ Scanned(v, scan_entries(v, s))
         /\ scan_entries(v, s).ph # "panic" =>
              \A i \in 1..Len(s) : Wanted(v, s[i]) => s[i] \in scan_entries(v, s).map
  <1> DEFINE n == Len(s)
             step == [k \in Nat |-> [x \in ERec |-> IF k \in 1..n THEN scan_entry(x, s[k]) ELSE x]]
             IsScan(g) == g = [k \in 0..n |-> IF k = 0 THEN v ELSE scan_entry(g[k - 1], s[k])]
  <1>1. n \in Nat /\ \A i \in 1..n : s[i] \in Dir
    OBVIOUS
  <1>2. ASSUME NEW x \in ERec, NEW k \in 1..n
        PROVE  scan_entry(x, s[k]) \in ERec
    BY <1>1, EntryScanned DEF Scanned
  <1>3. step \in Steps(ERec)
    <2> HIDE DEF n
    <2>1. \A k \in Nat : \A x \in ERec : (IF k \in 1..n THEN scan_entry(x, s[k]) ELSE x) \in ERec
      BY <1>2
    <2>2. QED
      BY <2>1 DEF Steps
  <1>4. PICK h : Iterates(h, ERec, v, step)
    <2> HIDE DEF step
    <2>1. QED
      BY <1>3, Recursion
  <1> DEFINE g == [i \in 0..n |-> h[i]]
  <1>5. h \in [Nat -> ERec] /\ h[0] = v /\ \A k \in Nat : h[k + 1] = step[k + 1][h[k]]
    BY <1>4 DEF Iterates
  <1>6. ASSUME NEW i \in 1..n
        PROVE  h[i] = scan_entry(h[i - 1], s[i])
    <2>1. i - 1 \in Nat /\ (i - 1) + 1 = i /\ i \in Nat
      BY <1>1
    <2>2. h[i] = step[i][h[i - 1]] /\ h[i - 1] \in ERec
      <3> HIDE DEF step
      <3>1. QED
        BY <1>5, <2>1
    <2>3. step[i][h[i - 1]] = scan_entry(h[i - 1], s[i])
      BY <2>1, <2>2
    <2>4. QED
      BY <2>2, <2>3
  <1>7. IsScan(g)
    <2>1. ASSUME NEW i \in 0..n
          PROVE  g[i] = IF i = 0 THEN v ELSE scan_entry(g[i - 1], s[i])
      <3>1. CASE i = 0
        BY <1>5, <3>1
      <3>2. CASE i # 0
        <4>1. i \in 1..n /\ i - 1 \in 0..n
          BY <1>1, <3>2
        <4>2. g[i] = h[i] /\ g[i - 1] = h[i - 1]
          BY <4>1
        <4>3. QED
          BY <1>6, <3>2, <4>1, <4>2
      <3>3. QED
        BY <3>1, <3>2
    <2> HIDE DEF g
    <2>2. DOMAIN g = 0..n /\ g = [i \in 0..n |-> g[i]]
      BY DEF g
    <2>3. QED
      BY <2>1, <2>2
  <1> DEFINE c == CHOOSE x : IsScan(x)
  <1>8. IsScan(c)
    <2> HIDE DEF IsScan
    <2>1. QED
      BY <1>7
  <1>9. scan_entries(v, s) = c[n]
    BY DEF scan_entries
  <1> HIDE DEF c
  <1>10. c[0] = v /\ \A i \in 1..n : c[i] = scan_entry(c[i - 1], s[i])
    <2> DEFINE d == [k \in 0..n |-> IF k = 0 THEN v ELSE scan_entry(c[k - 1], s[k])]
    <2>1. c = d
      BY <1>8
    <2>2. d[0] = v
      <3>1. 0 \in 0..n
        BY <1>1
      <3>2. QED
        BY <3>1
    <2>3. ASSUME NEW i \in 1..n
          PROVE  d[i] = scan_entry(c[i - 1], s[i])
      <3>1. i # 0 /\ i \in 0..n
        BY <1>1
      <3> HIDE DEF n
      <3>2. QED
        BY <3>1
    <2> HIDE DEF d
    <2>4. QED
      BY <2>1, <2>2, <2>3
  <1> DEFINE Good(i) == /\ Scanned(v, c[i])
                        /\ c[i].ph # "panic" => \A k \in 1..i : Wanted(v, s[k]) => s[k] \in c[i].map
             P == {i \in Nat : i <= n => Good(i)}
  <1>11. 0 \in P
    <2>1. Scanned(v, c[0])
      BY <1>10, ScannedSelf
    <2>2. QED
      BY <2>1
  <1>12. ASSUME NEW i \in P
         PROVE  i + 1 \in P
    <2>0. i \in Nat /\ (i <= n => Good(i))
      OBVIOUS
    <2> HIDE DEF P
    <2>1. CASE i + 1 <= n
      <3>1. i + 1 \in 1..n /\ (i + 1) - 1 = i /\ i <= n /\ i + 1 \in Nat
        BY <1>1, <2>0, <2>1
      <3>2. c[i + 1] = scan_entry(c[i], s[i + 1]) /\ s[i + 1] \in Dir
        BY <1>1, <1>10, <3>1
      <3>3. Scanned(v, c[i]) /\ c[i] \in ERec /\ Rules(c[i]) = Rules(v)
        BY <2>0, <3>1 DEF Scanned, Kept
      <3>4. /\ Scanned(c[i], c[i + 1])
            /\ c[i + 1].ph # "panic" /\ Wanted(c[i], s[i + 1]) => s[i + 1] \in c[i + 1].map
        BY <3>2, <3>3, EntryScanned
      <3>5. Scanned(v, c[i + 1])
        BY <3>3, <3>4, ScannedOn
      <3>6. ASSUME c[i + 1].ph # "panic", NEW k \in 1..(i + 1), Wanted(v, s[k])
            PROVE  s[k] \in c[i + 1].map
        <4>1. CASE k = i + 1
          BY <3>3, <3>4, <3>6, <4>1, SameRules
        <4>2. CASE k \in 1..i
          <5>1. c[i].ph # "panic" /\ c[i].map \subseteq c[i + 1].map
            BY <3>4, <3>6 DEF Scanned
          <5>2. s[k] \in c[i].map
            BY <2>0, <3>1, <3>6, <4>2, <5>1
          <5>3. QED
            BY <5>1, <5>2
        <4>3. QED
          BY <2>0, <4>1, <4>2
      <3>7. Good(i + 1)
        BY <3>5, <3>6
      <3> HIDE DEF Good
      <3>8. QED
        BY <3>1, <3>7 DEF P
    <2>2. CASE ~ (i + 1 <= n)
      BY <1>1, <2>0, <2>2 DEF P
    <2>3. QED
      BY <2>1, <2>2
  <1>13. P = Nat
    <2> HIDE DEF P
    <2>1. P \in SUBSET Nat
      BY DEF P
    <2>2. QED
      BY <1>11, <1>12, <2>1, NatSet
  <1>14. Good(n)
    <2>1. n \in P /\ n <= n
      <3> HIDE DEF P
      <3>1. QED
        BY <1>1, <1>13
    <2> HIDE DEF Good
    <2>2. QED
      BY <2>1
  <1>15. QED
    BY <1>9, <1>14

\* Every order in which the directories can be read has all of their entries.
LEMMA ReadsAll ==
  ASSUME NEW D, IsFiniteSet(D), NEW E, \A x \in D : E[x] \in SUBSET Dir, NEW s \in Reads(D, E)
  PROVE  /\ s \in Seq(Dir)
         /\ \A x \in D : \A d \in E[x] : \E i \in 1..Len(s) : s[i] = d
  <1> DEFINE F == {g \in [D -> UNION {SetToSeqs(E[x]) : x \in D}] : \A x \in D : g[x] \in SetToSeqs(E[x])}
  <1>1. PICK o \in SetToSeqs(D), f \in F : s = FlattenSeq([i \in DOMAIN o |-> f[o[i]]])
    BY DEF Reads
  <1> DEFINE q == [i \in DOMAIN o |-> f[o[i]]]
  <1>2. o \in Seq(D) /\ DOMAIN o = 1..Len(o) /\ Len(o) \in Nat /\ Range(o) = D
    BY Listing
  <1>3. ASSUME NEW x \in D
        PROVE  f[x] \in Seq(Dir) /\ DOMAIN f[x] = 1..Len(f[x]) /\ Range(f[x]) = E[x]
    <2>1. f[x] \in SetToSeqs(E[x]) /\ E[x] \in SUBSET Dir /\ IsFiniteSet(E[x])
      BY FS_Subset, SysfsAssumption
    <2>2. f[x] \in Seq(E[x]) /\ DOMAIN f[x] = 1..Len(f[x]) /\ Range(f[x]) = E[x]
      BY <2>1, Listing
    <2>3. QED
      BY <2>1, <2>2, SeqMonotonic
  <1>4. ASSUME NEW i \in 1..Len(o)
        PROVE  o[i] \in D /\ q[i] = f[o[i]] /\ q[i] \in Seq(Dir)
    <2>1. o[i] \in D
      BY <1>2
    <2>2. QED
      BY <1>2, <1>3, <2>1
  <1>5. q \in Seq(Seq(Dir)) /\ Len(q) = Len(o) /\ DOMAIN q = 1..Len(o)
    <2>1. DOMAIN q = 1..Len(o) /\ q = [i \in 1..Len(o) |-> q[i]]
      BY <1>2
    <2> HIDE DEF q
    <2>2. q \in [1..Len(o) -> Seq(Dir)]
      BY <1>4, <2>1
    <2>3. QED
      BY <1>2, <2>2
  <1>6. s = FlattenSeq(q)
    BY <1>1
  <1> HIDE DEF q, F
  <1>7. CASE q = <<>>
    <2>1. Len(q) = 0 /\ s = q
      BY <1>6, <1>7 DEF FlattenSeq
    <2>2. s \in Seq(Dir)
      BY <1>7, <2>1
    <2>3. D = {}
      BY <1>2, <1>5, <2>1 DEF Range
    <2>4. QED
      BY <2>2, <2>3
  <1>8. CASE q # <<>>
    <2>1. s \in Seq(Dir) /\ Joined(q, Len(o), s)
      BY <1>5, <1>6, <1>8, FlattenJoins
    <2>2. ASSUME NEW x \in D, NEW d \in E[x]
          PROVE  \E i \in 1..Len(s) : s[i] = d
      <3>1. PICK p \in 1..Len(o) : o[p] = x
        BY <1>2 DEF Range
      <3>2. PICK k \in 1..Len(f[x]) : d = f[x][k]
        BY <1>3 DEF Range
      <3>3. q[p] = f[x]
        BY <1>4, <3>1
      <3>4. QED
        BY <2>1, <3>1, <3>2, <3>3 DEF Joined
    <2>3. QED
      BY <2>1, <2>2
  <1>9. QED
    BY <1>7, <1>8

LEMMA DirScanned ==
  ASSUME NEW V \in SUBSET ERec, NEW E, IsFiniteSet(DOMAIN E), \A x \in DOMAIN E : E[x] \in SUBSET Dir,
         NEW subsystem, NEW w \in scan_dir(V, E, subsystem)
  PROVE  \E v \in V :
           /\ Scanned(v, w)
           /\ w.ph # "panic" =>
                \A x \in DOMAIN E : \A d \in E[x] :
                  match_subsystem(v, IF subsystem = NoSub THEN x ELSE subsystem) /\ Wanted(v, d) => d \in w.map
  <1> DEFINE named(x) == IF subsystem = NoSub THEN x ELSE subsystem
             D(v) == {x \in DOMAIN E : match_subsystem(v, named(x))}
  <1>1. PICK v \in V : w \in {scan_entries(v, s) : s \in Reads(D(v), E)}
    BY DEF scan_dir
  <1>2. PICK s \in Reads(D(v), E) : w = scan_entries(v, s)
    BY <1>1
  <1>3. IsFiniteSet(D(v)) /\ \A x \in D(v) : E[x] \in SUBSET Dir
    <2>1. D(v) \in SUBSET (DOMAIN E)
      OBVIOUS
    <2>2. QED
      BY <2>1, FS_Subset
  <1> DEFINE R == D(v)
  <1>r. \A x \in DOMAIN E : match_subsystem(v, named(x)) => x \in R
    OBVIOUS
  <1> HIDE DEF D, R
  <1>4. s \in Seq(Dir) /\ \A x \in R : \A d \in E[x] : \E i \in 1..Len(s) : s[i] = d
    BY <1>2, <1>3, ReadsAll DEF R
  <1>5. /\ Scanned(v, w)
        /\ w.ph # "panic" => \A i \in 1..Len(s) : Wanted(v, s[i]) => s[i] \in w.map
    BY <1>2, <1>4, EntriesScanned
  <1>6. ASSUME w.ph # "panic", NEW x \in DOMAIN E, NEW d \in E[x], match_subsystem(v, named(x)), Wanted(v, d)
        PROVE  d \in w.map
    <2>1. PICK i \in 1..Len(s) : s[i] = d
      BY <1>4, <1>6, <1>r
    <2>2. QED
      BY <1>5, <1>6, <2>1
  <1>7. QED
    BY <1>5, <1>6

LEMMA DevicesScanned ==
  ASSUME NEW u \in ERec, NEW w \in scan_devices_all({u})
  PROVE  /\ Scanned(u, w)
         /\ w.ph # "panic" => \A d \in Linked : Wanted(u, d) => d \in w.map
  <1> DEFINE X == scan_dir({u}, BusDev, NoSub)
  <1>1. \A b \in DOMAIN BusDev : BusDev[b] \in SUBSET Dir
    BY SysfsAssumption
  <1>2. \A c \in DOMAIN ClassDev : ClassDev[c] \in SUBSET Dir
    BY SysfsAssumption
  <1>3. IsFiniteSet(DOMAIN BusDev) /\ IsFiniteSet(DOMAIN ClassDev)
    BY SysfsAssumption
  <1>4. ASSUME NEW x \in X
        PROVE  /\ Scanned(u, x)
               /\ x.ph # "panic" => \A b \in DOMAIN BusDev : \A d \in BusDev[b] :
                    match_subsystem(u, b) /\ Wanted(u, d) => d \in x.map
    <2>1. {u} \in SUBSET ERec
      OBVIOUS
    <2>2. \E v \in {u} :
            /\ Scanned(v, x)
            /\ x.ph # "panic" => \A b \in DOMAIN BusDev : \A d \in BusDev[b] :
                 match_subsystem(v, IF NoSub = NoSub THEN b ELSE NoSub) /\ Wanted(v, d) => d \in x.map
      BY <1>1, <1>3, <2>1, DirScanned
    <2>3. QED
      BY <2>2
  <1>5. X \in SUBSET ERec
    BY <1>4 DEF Scanned
  <1>6. w \in scan_dir(X, ClassDev, NoSub)
    BY DEF scan_devices_all
  <1> HIDE DEF X
  <1>7. PICK x \in X :
          /\ Scanned(x, w)
          /\ w.ph # "panic" => \A c \in DOMAIN ClassDev : \A d \in ClassDev[c] :
               match_subsystem(x, IF NoSub = NoSub THEN c ELSE NoSub) /\ Wanted(x, d) => d \in w.map
    BY <1>2, <1>3, <1>5, <1>6, DirScanned
  <1>8. Scanned(u, x) /\ Rules(x) = Rules(u) /\ x.map \subseteq w.map /\ (x.ph = "panic" => w.ph = "panic")
    BY <1>4, <1>7 DEF Scanned, Kept
  <1>9. Scanned(u, w)
    BY <1>7, <1>8, ScannedOn
  <1>10. ASSUME w.ph # "panic", NEW d \in Linked, Wanted(u, d)
         PROVE  d \in w.map
    <2>1. match_subsystem(u, get_subsystem(d)) /\ "SUBSYSTEM" \in ALL
      BY <1>10 DEF Wanted, test_matches, ALL
    <2>2. CASE \E b \in DOMAIN BusDev : d \in BusDev[b]
      <3>1. PICK b \in DOMAIN BusDev : d \in BusDev[b]
        BY <2>2
      <3>2. match_subsystem(u, b)
        BY <2>1, <3>1, SysfsAssumption
      <3>3. QED
        BY <1>4, <1>8, <1>10, <3>1, <3>2
    <2>3. CASE \E c \in DOMAIN ClassDev : d \in ClassDev[c]
      <3>1. PICK c \in DOMAIN ClassDev : d \in ClassDev[c]
        BY <2>3
      <3>2. match_subsystem(u, c)
        BY <2>1, <3>1, SysfsAssumption
      <3>3. match_subsystem(x, c) /\ Wanted(x, d)
        BY <1>8, <1>10, <3>2, SameRules
      <3>4. QED
        BY <1>7, <1>10, <3>1, <3>3
    <2>4. QED
      BY <2>2, <2>3 DEF Linked
  <1>11. QED
    BY <1>9, <1>10

LEMMA BelowScanned ==
  ASSUME NEW v \in ERec, NEW p, NEW w \in scan_dir_and_add_devices({v}, Below(p))
  PROVE  Scanned(v, w)
  <1>1. PICK s \in SetToSeqs(Below(p)) : w = scan_entries(v, s)
    BY DEF scan_dir_and_add_devices
  <1>2. Below(p) \in SUBSET Dir
    BY DEF Below
  <1>3. IsFiniteSet(Below(p))
    BY <1>2, FS_Subset, SysfsAssumption
  <1>4. s \in Seq(Below(p))
    BY <1>3, Listing
  <1>5. s \in Seq(Dir)
    BY <1>2, <1>4, SeqMonotonic
  <1>6. QED
    BY <1>1, <1>5, EntriesScanned

LEMMA SubsystemsScanned ==
  ASSUME NEW V \in SUBSET ERec, NEW w \in scan_subsystems_all(V)
  PROVE  \E v \in V : Scanned(v, w)
  <1> DEFINE module(W) == UNION {IF match_subsystem(v, "module")
                             THEN scan_dir_and_add_devices({v}, Below(<<"module">>)) ELSE {v} : v \in W}
             bus(W)    == UNION {IF match_subsystem(v, "subsystem")
                             THEN scan_dir_and_add_devices({v}, Below(<<"bus">>)) ELSE {v} : v \in W}
             driver(W) == UNION {IF match_subsystem(v, "drivers")
                             THEN scan_dir({v}, BusDriver, "drivers") ELSE {v} : v \in W}
  <1>1. w \in driver(bus(module(V)))
    BY DEF scan_subsystems_all
  <1>2. ASSUME NEW W \in SUBSET ERec, NEW x \in module(W)
        PROVE  \E v \in W : Scanned(v, x)
    <2>1. PICK v \in W : x \in IF match_subsystem(v, "module")
                               THEN scan_dir_and_add_devices({v}, Below(<<"module">>)) ELSE {v}
      OBVIOUS
    <2>2. QED
      BY <2>1, BelowScanned, ScannedSelf
  <1>3. ASSUME NEW W \in SUBSET ERec, NEW x \in bus(W)
        PROVE  \E v \in W : Scanned(v, x)
    <2>1. PICK v \in W : x \in IF match_subsystem(v, "subsystem")
                               THEN scan_dir_and_add_devices({v}, Below(<<"bus">>)) ELSE {v}
      OBVIOUS
    <2>2. QED
      BY <2>1, BelowScanned, ScannedSelf
  <1>4. ASSUME NEW W \in SUBSET ERec, NEW x \in driver(W)
        PROVE  \E v \in W : Scanned(v, x)
    <2>1. PICK v \in W : x \in IF match_subsystem(v, "drivers")
                               THEN scan_dir({v}, BusDriver, "drivers") ELSE {v}
      OBVIOUS
    <2>2. IsFiniteSet(DOMAIN BusDriver) /\ \A b \in DOMAIN BusDriver : BusDriver[b] \in SUBSET Dir
      BY SysfsAssumption DEF BusDriver, Below
    <2>3. CASE x \in scan_dir({v}, BusDriver, "drivers")
      <3>1. {v} \in SUBSET ERec
        OBVIOUS
      <3>2. \E y \in {v} : Scanned(y, x)
        BY <2>2, <2>3, <3>1, DirScanned
      <3>3. QED
        BY <3>2
    <2>4. CASE x = v
      BY <2>4, ScannedSelf
    <2>5. QED
      BY <2>1, <2>3, <2>4
  <1>5. ASSUME NEW W \in SUBSET ERec
        PROVE  module(W) \in SUBSET ERec /\ bus(W) \in SUBSET ERec
    BY <1>2, <1>3 DEF Scanned
  <1> HIDE DEF module, bus, driver
  <1>6. PICK y \in bus(module(V)) : Scanned(y, w)
    BY <1>1, <1>4, <1>5
  <1>7. PICK x \in module(V) : Scanned(x, y)
    BY <1>3, <1>5
  <1>8. PICK v \in V : Scanned(v, x)
    BY <1>2
  <1>9. QED
    BY <1>6, <1>7, <1>8, ScannedOn

LEMMA ChildrenScanned ==
  ASSUME NEW v \in ERec, v.map = {}, v.ph # "panic"
  PROVE  Scanned(v, scan_devices_children(v))
  <1> DEFINE seen == parent_crawl_children(v)
             found == {d \in seen : parent_add_child(v, d)}
             twice == {d \in found : \E p, q \in v.parent : p # q /\ IsPrefix(p, d) /\ IsPrefix(q, d)}
             w == scan_devices_children(v)
  <1>1. found \in SUBSET Dev
    BY DEF parent_crawl_children, parent_add_child, Dev
  <1>2. ASSUME NEW d \in found
        PROVE  SelectedBy(v, d)
    <2>1. match_sysname(v, Name(d)) /\ \E p \in v.parent : IsPrefix(p, d)
      BY DEF parent_crawl_children
    <2>2. test_matches(v, d, ALL \ {"PARENT"})
      BY DEF parent_add_child
    <2>3. test_matches(v, d, ALL)
      BY <2>1, <2>2 DEF test_matches, ALL, match_parent
    <2>4. QED
      BY <2>3, AllMatch
  <1>3. CASE v.attr /\ found # {}
    <2>1. w = [v EXCEPT !.ph = "panic"]
      BY <1>3 DEF scan_devices_children, Panic
    <2>2. w \in ERec /\ Kept(v, w) /\ w.map = v.map /\ w.sorted = v.sorted /\ w.ph = "panic"
      BY <2>1 DEF ERec, Kept, Rules
    <2>3. QED
      BY <2>2 DEF Scanned
  <1>4. CASE ~ (v.attr /\ found # {})
    <2> DEFINE b == v.sorted /\ (twice = {})
               p == IF \A d \in seen : from_syspath(d) THEN v.ph ELSE "err"
    <2>1. w = [v EXCEPT !.map = found, !.sorted = b, !.ph = IF \A d \in seen : from_syspath(d) THEN @ ELSE "err"]
      BY <1>4 DEF scan_devices_children
    <2>2. w = [v EXCEPT !.map = found, !.sorted = b, !.ph = p]
      BY <2>1 DEF ERec
    <2>3. b \in BOOLEAN /\ (b => v.sorted)
      OBVIOUS
    <2>4. p \in {v.ph, "err"}
      OBVIOUS
    <2> HIDE DEF b, p, found, w
    <2>5. w \in ERec
      BY <1>1, <2>2, <2>3, <2>4 DEF ERec
    <2>6. Kept(v, w) /\ w.map = found /\ w.sorted = b /\ w.ph = p
      BY <2>2 DEF ERec, Kept, Rules
    <2>7. QED
      BY <1>2, <2>3, <2>4, <2>5, <2>6 DEF Scanned, w
  <1>5. QED
    BY <1>3, <1>4

LEMMA SelectedWanted ==
  ASSUME NEW v, NEW d \in Linked, v.parent = {}, v.prop = {}, SelectedBy(v, d)
  PROVE  Wanted(v, d)
  <1>1. from_syspath(d)
    BY SysfsAssumption DEF Linked
  <1>2. get_subsystem(d) # NoSub /\ match_subsystem(v, get_subsystem(d)) /\ match_sysname(v, Name(d))
    BY DEF SelectedBy, match_subsystem, match_sysname, set_pattern_match, pattern_match
  <1>3. match_parent(v, d) /\ match_property(v, d)
    BY DEF match_parent, match_property
  <1>4. QED
    BY <1>1, <1>2, <1>3 DEF Wanted, test_matches

\* A scan has found what the rules select, and no more.
Found(w) ==
  /\ \A d \in w.map : SelectedBy(w, d)
  /\ w.etype # "Subsystems" /\ w.parent = {} /\ w.prop = {} =>
       \A d \in Linked : SelectedBy(w, d) => d \in w.map

\* What a scan that starts at v leaves.
ScanOf(v, w) ==
  /\ w \in ERec /\ w.up /\ w.ph # "end"
  /\ w.ph # "panic" =>
       /\ Rules(w) = Rules(v) /\ w.devices = <<>> /\ w.out = <<>> /\ w.scans = v.scans + 1
       /\ w.sorted => v.sorted
       /\ Found(w)

LEMMA ClearedFacts ==
  ASSUME NEW v \in ERec, v.ph = "open"
  PROVE  LET c == Cleared(v) IN
         /\ c \in ERec /\ c.map = {} /\ c.ph = "open" /\ c.devices = <<>> /\ c.out = <<>>
         /\ c.scans = v.scans + 1 /\ c.sorted = v.sorted /\ Rules(c) = Rules(v)
  <1> DEFINE c == Cleared(v)
  <1>1. c = [v EXCEPT !.map = {}, !.devices = <<>>, !.out = <<>>, !.scans = @ + 1]
    BY DEF Cleared
  <1>2. <<>> \in Seq(Dev) /\ v.scans + 1 \in Nat
    BY DEF ERec
  <1>3. c \in ERec
    BY <1>1, <1>2 DEF ERec
  <1>4. /\ c.map = {} /\ c.ph = "open" /\ c.devices = <<>> /\ c.out = <<>>
        /\ c.scans = v.scans + 1 /\ c.sorted = v.sorted
    BY <1>1 DEF ERec
  <1>5. Rules(c) = Rules(v)
    BY <1>1 DEF ERec, Rules
  <1>6. QED
    BY <1>3, <1>4, <1>5

LEMMA Finished ==
  ASSUME NEW v \in ERec, v.ph = "open", NEW x, Scanned(Cleared(v), x), NEW t \in Etype,
         t # "Subsystems" /\ v.parent = {} /\ x.ph # "panic" =>
           \A d \in Linked : Wanted(Cleared(v), d) => d \in x.map,
         NEW w, w = [x EXCEPT !.up = TRUE, !.etype = t]
  PROVE  ScanOf(v, w)
  <1> DEFINE c == Cleared(v)
  <1>1. /\ c \in ERec /\ c.map = {} /\ c.ph = "open" /\ c.devices = <<>> /\ c.out = <<>>
        /\ c.scans = v.scans + 1 /\ c.sorted = v.sorted /\ Rules(c) = Rules(v)
    BY ClearedFacts
  <1> HIDE DEF c
  <1>2. Scanned(c, x)
    BY DEF c
  <1>3. x \in ERec
    BY <1>2 DEF Scanned
  <1>4. w \in ERec
    BY <1>3 DEF ERec
  <1>5. /\ w.up = TRUE /\ w.etype = t /\ w.ph = x.ph /\ w.map = x.map /\ w.devices = x.devices /\ w.out = x.out
        /\ w.scans = x.scans /\ w.sorted = x.sorted
    BY <1>3 DEF ERec
  <1>6. Rules(w) = Rules(x)
    BY <1>3 DEF ERec, Rules
  <1>7. Rules(w) = Rules(c) /\ w.devices = <<>> /\ w.out = <<>> /\ w.scans = v.scans + 1 /\ (w.sorted => v.sorted)
    BY <1>1, <1>2, <1>5, <1>6 DEF Scanned, Kept
  <1>8. w.ph # "end"
    BY <1>1, <1>2, <1>5 DEF Scanned
  <1>9. \A d \in w.map : SelectedBy(w, d)
    BY <1>1, <1>2, <1>5, <1>7, SameRules DEF Scanned
  <1>10. w.parent = v.parent /\ c.parent = v.parent /\ c.prop = w.prop
    BY <1>1, <1>7 DEF Rules
  <1>11. ASSUME w.ph # "panic", w.etype # "Subsystems", w.parent = {}, w.prop = {}, NEW d \in Linked, SelectedBy(w, d)
         PROVE  d \in w.map
    <2>1. SelectedBy(c, d)
      BY <1>7, <1>11, SameRules
    <2>2. Wanted(c, d)
      BY <1>10, <1>11, <2>1, SelectedWanted
    <2>3. QED
      BY <1>5, <1>10, <1>11, <2>2 DEF c
  <1>12. w.ph # "panic" => Found(w)
    BY <1>9, <1>11 DEF Found
  <1>13. QED
    BY <1>1, <1>4, <1>5, <1>7, <1>8, <1>12 DEF ScanOf

\* A match rule for tags ends the scan in todo!().
LEMMA Panicked ==
  ASSUME NEW v \in ERec, NEW t \in Etype, NEW w, w = [Panic(v) EXCEPT !.up = TRUE, !.etype = t]
  PROVE  ScanOf(v, w)
  <1>1. Panic(v) \in ERec /\ Panic(v).ph = "panic"
    BY DEF ERec, Panic
  <1>2. w \in ERec /\ w.up /\ w.ph = "panic"
    BY <1>1 DEF ERec
  <1>3. QED
    BY <1>2 DEF ScanOf

LEMMA ScanResult ==
  ASSUME NEW v \in ERec, v.ph = "open", NEW w \in scan(v)
  PROVE  ScanOf(v, w)
  <1> DEFINE c == Cleared(v)
  <1>1. /\ c \in ERec /\ c.map = {} /\ c.ph = "open"
    BY ClearedFacts
  <1> HIDE DEF c
  <1>2. Scanned(c, scan_devices_children(c))
    BY <1>1, ChildrenScanned
  <1>3. CASE v.etype = "Devices"
    <2>1. scan(v) = scan_devices(v)
      BY <1>3 DEF scan
    <2>2. PICK x \in IF v.tag THEN {Panic(v)}
                     ELSE IF v.parent # {} THEN {scan_devices_children(c)}
                     ELSE scan_devices_all({c}) : w = [x EXCEPT !.up = TRUE, !.etype = "Devices"]
      BY <2>1 DEF scan_devices, c
    <2>3. "Devices" \in Etype
      BY DEF Etype
    <2>4. CASE v.tag
      BY <2>2, <2>3, <2>4, Panicked
    <2>5. CASE ~ v.tag /\ v.parent # {}
      <3>1. x = scan_devices_children(c)
        BY <2>2, <2>5
      <3>2. QED
        BY <1>2, <2>2, <2>3, <2>5, <3>1, Finished DEF c
    <2>6. CASE ~ v.tag /\ v.parent = {}
      <3>1. x \in scan_devices_all({c})
        BY <2>2, <2>6
      <3>2. Scanned(c, x) /\ (x.ph # "panic" => \A d \in Linked : Wanted(c, d) => d \in x.map)
        BY <1>1, <3>1, DevicesScanned
      <3>3. QED
        BY <2>2, <2>3, <3>2, Finished DEF c
    <2>7. QED
      BY <2>4, <2>5, <2>6
  <1>4. CASE v.etype = "Subsystems"
    <2>1. scan(v) = scan_subsystems(v)
      BY <1>4 DEF scan
    <2>2. PICK x \in scan_subsystems_all({c}) : w = [x EXCEPT !.up = TRUE, !.etype = "Subsystems"]
      BY <2>1 DEF scan_subsystems, c
    <2>3. "Subsystems" \in Etype
      BY DEF Etype
    <2>4. Scanned(c, x)
      <3>1. {c} \in SUBSET ERec
        BY <1>1
      <3>2. \E y \in {c} : Scanned(y, x)
        BY <3>1, SubsystemsScanned
      <3>3. QED
        BY <3>2
    <2>5. QED
      BY <2>2, <2>3, <2>4, Finished DEF c
  <1>5. CASE v.etype = "All"
    <2>1. scan(v) = scan_devices_and_subsystems(v)
      BY <1>5 DEF scan
    <2>2. PICK x \in IF v.tag THEN {Panic(v)}
                     ELSE IF v.parent # {} THEN {scan_devices_children(c)}
                     ELSE scan_subsystems_all(scan_devices_all({c})) : w = [x EXCEPT !.up = TRUE, !.etype = "All"]
      BY <2>1 DEF scan_devices_and_subsystems, c
    <2>3. "All" \in Etype
      BY DEF Etype
    <2>4. CASE v.tag
      BY <2>2, <2>3, <2>4, Panicked
    <2>5. CASE ~ v.tag /\ v.parent # {}
      <3>1. x = scan_devices_children(c)
        BY <2>2, <2>5
      <3>2. QED
        BY <1>2, <2>2, <2>3, <2>5, <3>1, Finished DEF c
    <2>6. CASE ~ v.tag /\ v.parent = {}
      <3>1. x \in scan_subsystems_all(scan_devices_all({c}))
        BY <2>2, <2>6
      <3>2. scan_devices_all({c}) \in SUBSET ERec
        BY <1>1, DevicesScanned DEF Scanned
      <3>3. PICK y \in scan_devices_all({c}) : Scanned(y, x)
        BY <3>1, <3>2, SubsystemsScanned
      <3>4. Scanned(c, y) /\ (y.ph # "panic" => \A d \in Linked : Wanted(c, d) => d \in y.map)
        BY <1>1, DevicesScanned
      <3>5. Scanned(c, x)
        BY <3>3, <3>4, ScannedOn
      <3>6. x.ph # "panic" => \A d \in Linked : Wanted(c, d) => d \in x.map
        BY <3>3, <3>4 DEF Scanned
      <3>7. QED
        BY <2>2, <2>3, <3>5, <3>6, Finished DEF c
    <2>7. QED
      BY <2>4, <2>5, <2>6
  <1>6. QED
    BY <1>3, <1>4, <1>5 DEF ERec, Etype

-----------------------------------------------------------------------------
(* The calls. *)

\* The devices of the list up to index have been yielded.
Yielded(v) == ListOf(v.devices, v.map, v.prio) /\ v.index <= Len(v.devices) /\ v.out = SubSeq(v.devices, 1, v.index)

UpInv(v) ==
  /\ v.devices = <<>> \/ (v.sorted /\ ListOf(v.devices, v.map, v.prio))
  /\ v.scans = 1 => Found(v) /\ (v.sorted => Yielded(v)) /\ (~ v.sorted => v.out = <<>>)

StateInv(v) ==
  /\ v \in ERec
  /\ v.ph # "panic" /\ v.scans = 0 => ~ v.up /\ ~ v.sorted
  /\ v.ph = "end" => v.up /\ v.sorted /\ ~ (v.index < Len(v.devices))
  /\ v.ph # "panic" /\ v.up => UpInv(v)

LEMMA SameFound ==
  ASSUME NEW v, NEW w, Rules(w) = Rules(v), w.etype = v.etype, w.map = v.map, Found(v)
  PROVE  Found(w)
  <1>1. w.parent = v.parent /\ w.prop = v.prop
    BY DEF Rules
  <1>2. \A d : SelectedBy(w, d) <=> SelectedBy(v, d)
    BY SameRules
  <1>3. QED
    BY <1>1, <1>2 DEF Found

LEMMA ListMade ==
  ASSUME NEW s \in ERec, UpInv(s), NEW l \in IF s.sorted THEN {s} ELSE sort_devices(s)
  PROVE  l \in ERec /\ UpInv(l) /\ l.sorted /\ l.up = s.up /\ l.ph = s.ph /\ l.scans = s.scans
  <1>1. CASE s.sorted
    BY <1>1
  <1>2. CASE ~ s.sorted
    <2>1. l \in sort_devices(s) /\ s.map \in SUBSET Dev /\ s.prio \in Seq(Prioritized)
      BY <1>2 DEF ERec
    <2>2. PICK q : l = [s EXCEPT !.devices = q, !.sorted = TRUE, !.index = 0] /\ ListOf(q, s.map, s.prio)
      BY <2>1, SortResult
    <2>3. q \in Seq(Dev)
      BY <2>2 DEF ListOf
    <2>4. l \in ERec
      BY <2>2, <2>3 DEF ERec
    <2>5. /\ l.devices = q /\ l.sorted = TRUE /\ l.index = 0 /\ l.map = s.map /\ l.prio = s.prio /\ l.etype = s.etype
          /\ l.out = s.out /\ l.up = s.up /\ l.ph = s.ph /\ l.scans = s.scans
      BY <2>2 DEF ERec
    <2>6. Rules(l) = Rules(s)
      BY <2>2 DEF ERec, Rules
    <2>7. ASSUME l.scans = 1
          PROVE  Found(l) /\ Yielded(l)
      <3>1. Found(s) /\ s.out = <<>>
        BY <1>2, <2>5, <2>7 DEF UpInv
      <3>2. Found(l)
        BY <2>5, <2>6, <3>1, SameFound
      <3>3. Len(q) \in Nat /\ SubSeq(q, 1, 0) = <<>>
        BY <2>3
      <3>4. l.index <= Len(l.devices) /\ l.out = SubSeq(l.devices, 1, l.index)
        BY <2>5, <3>1, <3>3
      <3>5. ListOf(l.devices, l.map, l.prio)
        BY <2>2, <2>5
      <3>6. QED
        BY <3>2, <3>4, <3>5 DEF Yielded
    <2>8. UpInv(l)
      BY <2>2, <2>5, <2>7 DEF UpInv
    <2>9. QED
      BY <2>4, <2>5, <2>8
  <1>3. QED
    BY <1>1, <1>2 DEF ERec

LEMMA OneYielded ==
  ASSUME NEW l \in ERec, UpInv(l), l.sorted, l.up, l.scans # 0, l.index < Len(l.devices), NEW w,
         w = [l EXCEPT !.ph = "open", !.index = @ + 1, !.out = Append(@, l.devices[l.index + 1])]
  PROVE  StateInv(w)
  <1> DEFINE d == l.devices[l.index + 1]
             o == Append(l.out, d)
  <1>1. l.index \in Nat /\ Len(l.devices) \in Nat /\ l.devices \in Seq(Dev) /\ l.out \in Seq(Dev)
    BY DEF ERec
  <1>2. l.index + 1 \in 1..Len(l.devices) /\ l.index + 1 \in Nat
    BY <1>1
  <1>3. d \in Dev
    BY <1>1, <1>2
  <1>4. o \in Seq(Dev)
    BY <1>1, <1>3
  <1>5. w = [l EXCEPT !.ph = "open", !.index = l.index + 1, !.out = o]
    BY DEF ERec
  <1>s. l.scans = 1 => o = SubSeq(l.devices, 1, l.index + 1)
    <2>1. ASSUME l.scans = 1
          PROVE  l.out = SubSeq(l.devices, 1, l.index)
      BY <2>1 DEF UpInv, Yielded
    <2>2. Append(SubSeq(l.devices, 1, l.index), l.devices[l.index + 1]) = SubSeq(l.devices, 1, l.index + 1)
      <3> DEFINE a == Append(SubSeq(l.devices, 1, l.index), l.devices[l.index + 1])
                 b == SubSeq(l.devices, 1, l.index + 1)
      <3>1. SubSeq(l.devices, 1, l.index) \in Seq(Dev) /\ Len(SubSeq(l.devices, 1, l.index)) = l.index
        BY <1>1, <1>2
      <3>2. a \in Seq(Dev) /\ Len(a) = l.index + 1
        BY <1>3, <3>1
      <3>3. b \in Seq(Dev) /\ Len(b) = l.index + 1
        BY <1>1, <1>2
      <3>4. ASSUME NEW i \in 1..(l.index + 1)
            PROVE  a[i] = b[i]
        BY <1>1, <1>2, <3>1
      <3>5. QED
        BY <3>2, <3>3, <3>4, SeqEqual
    <2>3. QED
      BY <2>1, <2>2
  <1> HIDE DEF d, o
  <1>6. w \in ERec
    BY <1>2, <1>4, <1>5 DEF ERec
  <1>7. /\ w.devices = l.devices /\ w.sorted = l.sorted /\ w.index = l.index + 1 /\ w.map = l.map /\ w.prio = l.prio
        /\ w.etype = l.etype /\ w.out = o /\ w.up = l.up /\ w.ph = "open" /\ w.scans = l.scans
    BY <1>5 DEF ERec
  <1>8. Rules(w) = Rules(l)
    BY <1>5 DEF ERec, Rules
  <1>9. l.devices # <<>>
    BY <1>1
  <1>10. ListOf(l.devices, l.map, l.prio)
    BY <1>9 DEF UpInv
  <1>11. w.scans = 1 => Found(w) /\ Yielded(w)
    <2>1. ASSUME w.scans = 1
          PROVE  Found(w) /\ Yielded(w)
      <3>1. Found(w)
        BY <1>7, <1>8, <2>1, SameFound DEF UpInv
      <3>2. w.index <= Len(w.devices) /\ w.out = SubSeq(w.devices, 1, w.index)
        <4>1. l.scans = 1
          BY <1>7, <2>1
        <4>2. o = SubSeq(l.devices, 1, l.index + 1)
          BY <1>s, <4>1
        <4>3. l.index + 1 <= Len(l.devices)
          BY <1>2
        <4>4. w.index <= Len(w.devices)
          BY <1>7, <4>3
        <4>5. w.out = SubSeq(w.devices, 1, w.index)
          BY <1>7, <4>2
        <4>6. QED
          BY <4>4, <4>5
      <3>3. ListOf(w.devices, w.map, w.prio)
        BY <1>7, <1>10
      <3>4. QED
        BY <3>1, <3>2, <3>3 DEF Yielded
    <2>2. QED
      BY <2>1
  <1>12. UpInv(w)
    BY <1>7, <1>10, <1>11 DEF UpInv
  <1>13. QED
    BY <1>6, <1>7, <1>12 DEF StateInv

LEMMA AtEnd ==
  ASSUME NEW l \in ERec, UpInv(l), l.sorted, l.up, l.scans # 0, ~ (l.index < Len(l.devices)), NEW w,
         w = [l EXCEPT !.ph = "end"]
  PROVE  StateInv(w)
  <1>1. w \in ERec
    BY DEF ERec
  <1>2. /\ w.devices = l.devices /\ w.sorted = l.sorted /\ w.index = l.index /\ w.map = l.map /\ w.prio = l.prio
        /\ w.etype = l.etype /\ w.out = l.out /\ w.up = l.up /\ w.ph = "end" /\ w.scans = l.scans
    BY DEF ERec
  <1>3. Rules(w) = Rules(l)
    BY DEF ERec, Rules
  <1>4. UpInv(w)
    BY <1>2, <1>3, SameFound DEF UpInv, Yielded
  <1>5. QED
    BY <1>1, <1>2, <1>4 DEF StateInv

\* What next does with a scan behind it.
LEMMA GoesOn ==
  ASSUME NEW s \in ERec, UpInv(s), s.up, s.scans # 0, NEW l \in IF s.sorted THEN {s} ELSE sort_devices(s), NEW w,
         w = IF l.index < Len(l.devices)
             THEN [l EXCEPT !.ph = "open", !.index = @ + 1, !.out = Append(@, l.devices[l.index + 1])]
             ELSE [l EXCEPT !.ph = "end"]
  PROVE  StateInv(w)
  <1>1. l \in ERec /\ UpInv(l) /\ l.sorted /\ l.up /\ l.scans # 0
    BY ListMade
  <1>2. CASE l.index < Len(l.devices)
    BY <1>1, <1>2, OneYielded
  <1>3. CASE ~ (l.index < Len(l.devices))
    BY <1>1, <1>3, AtEnd
  <1>4. QED
    BY <1>2, <1>3

LEMMA NextKeeps ==
  ASSUME StateInv(e), next
  PROVE  StateInv(e')
  <1>1. PICK s \in IF e.up THEN {e} ELSE scan([e EXCEPT !.ph = "open"]) :
          IF s.ph = "panic" THEN e' = s
          ELSE IF ~ e.up /\ s.ph = "err" THEN e' = s
          ELSE \E l \in IF s.sorted THEN {s} ELSE sort_devices(s) :
               e' = IF l.index < Len(l.devices)
                    THEN [l EXCEPT !.ph = "open", !.index = @ + 1, !.out = Append(@, l.devices[l.index + 1])]
                    ELSE [l EXCEPT !.ph = "end"]
    BY DEF next
  <1>2. e \in ERec /\ e.ph \notin {"panic", "end"}
    BY DEF StateInv, next
  <1>3. ASSUME UpInv(s), s \in ERec, s.up, s.scans # 0, s.ph # "panic", e.up \/ s.ph # "err"
        PROVE  StateInv(e')
    <2>1. PICK l \in IF s.sorted THEN {s} ELSE sort_devices(s) :
               e' = IF l.index < Len(l.devices)
                    THEN [l EXCEPT !.ph = "open", !.index = @ + 1, !.out = Append(@, l.devices[l.index + 1])]
                    ELSE [l EXCEPT !.ph = "end"]
      BY <1>1, <1>3
    <2>2. QED
      BY <1>3, <2>1, GoesOn
  <1>4. CASE e.up
    <2>1. s = e
      BY <1>1, <1>4
    <2>2. QED
      BY <1>2, <1>3, <1>4, <2>1 DEF StateInv
  <1>5. CASE ~ e.up
    <2> DEFINE v == [e EXCEPT !.ph = "open"]
    <2>1. v \in ERec /\ v.ph = "open" /\ v.scans = e.scans /\ v.sorted = e.sorted
      BY <1>2 DEF ERec
    <2>2. s \in scan(v)
      BY <1>1, <1>5
    <2> HIDE DEF v
    <2>3. ScanOf(v, s)
      BY <2>1, <2>2, ScanResult
    <2>4. s \in ERec /\ s.up /\ s.ph # "end"
      BY <2>3 DEF ScanOf
    <2>5. CASE s.ph = "panic"
      BY <1>1, <2>4, <2>5 DEF StateInv
    <2>6. CASE s.ph # "panic"
      <3>1. s.devices = <<>> /\ s.out = <<>> /\ s.scans = e.scans + 1 /\ (s.sorted => e.sorted) /\ Found(s)
        BY <2>1, <2>3, <2>6 DEF ScanOf
      <3>2. e.scans \in Nat /\ (e.scans = 0 => ~ e.sorted)
        BY <1>2 DEF ERec, StateInv
      <3>3. s.scans # 0 /\ (s.scans = 1 => ~ s.sorted)
        BY <3>1, <3>2
      <3>4. UpInv(s)
        BY <3>1, <3>3 DEF UpInv
      <3>5. CASE s.ph = "err"
        <4>1. e' = s
          BY <1>1, <1>5, <2>6, <3>5
        <4>2. QED
          BY <2>4, <3>3, <3>4, <4>1 DEF StateInv
      <3>6. CASE s.ph # "err"
        BY <1>3, <2>4, <2>6, <3>3, <3>4, <3>6
      <3>7. QED
        BY <3>5, <3>6
    <2>7. QED
      BY <2>5, <2>6
  <1>6. QED
    BY <1>4, <1>5

\* A call that adds a rule.
LEMMA RuleKeeps ==
  ASSUME StateInv(e), Calls, NEW v \in ERec, v.sorted = e.sorted, v.scans = e.scans, Rule(v)
  PROVE  StateInv(e')
  <1>1. e' = [v EXCEPT !.up = FALSE, !.ph = "open", !.calls = @ + 1]
    BY DEF Rule
  <1>2. v.calls + 1 \in Nat
    BY DEF ERec
  <1>3. e' \in ERec
    BY <1>1, <1>2 DEF ERec
  <1>4. e'.up = FALSE /\ e'.ph = "open" /\ e'.sorted = v.sorted /\ e'.scans = v.scans
    BY <1>1 DEF ERec
  <1>5. e.ph # "panic"
    BY DEF Calls
  <1>6. QED
    BY <1>3, <1>4, <1>5 DEF StateInv

LEMMA StateInit ==
  StateInv(new)
  <1>1. {} \in SUBSET Dev /\ <<>> \in Seq(Dev) /\ <<>> \in Seq(Prioritized) /\ 0 \in Nat /\ "Devices" \in Etype
    BY DEF Etype
  <1>2. new \in ERec
    BY <1>1 DEF new, ERec
  <1>3. new.ph = "open" /\ new.up = FALSE /\ new.sorted = FALSE
    BY DEF new
  <1>4. QED
    BY <1>2, <1>3 DEF StateInv

LEMMA StateStep ==
  ASSUME StateInv(e), [ENNext]_e
  PROVE  StateInv(e')
  <1>0. e \in ERec
    BY DEF StateInv
  <1>1. CASE set_enumerator_type
    <2>1. PICK t \in Etype : Calls /\ Rule([e EXCEPT !.etype = t])
      BY <1>1 DEF set_enumerator_type
    <2> DEFINE v == [e EXCEPT !.etype = t]
    <2>2. v \in ERec /\ v.sorted = e.sorted /\ v.scans = e.scans
      BY <1>0 DEF ERec
    <2> HIDE DEF v
    <2>3. QED
      BY <2>1, <2>2, RuleKeeps DEF v
  <1>2. CASE add_prioritized_subsystem
    <2>1. PICK s \in Prioritized : Calls /\ Rule([e EXCEPT !.prio = Append(@, s)])
      BY <1>2 DEF add_prioritized_subsystem
    <2> DEFINE q == Append(e.prio, s)
               v == [e EXCEPT !.prio = q]
    <2>2. q \in Seq(Prioritized)
      BY <1>0 DEF ERec
    <2>3. Rule(v)
      BY <2>1
    <2> HIDE DEF q
    <2>4. v \in ERec /\ v.sorted = e.sorted /\ v.scans = e.scans
      BY <1>0, <2>2 DEF ERec
    <2> HIDE DEF v
    <2>5. QED
      BY <2>1, <2>3, <2>4, RuleKeeps
  <1>3. CASE add_match_subsystem
    <2>1. PICK p \in SubPattern : Calls /\ (Rule([e EXCEPT !.sub = @ \cup {p}]) \/ Rule([e EXCEPT !.nosub = @ \cup {p}]))
      BY <1>3 DEF add_match_subsystem
    <2> DEFINE v == [e EXCEPT !.sub = e.sub \cup {p}]
               w == [e EXCEPT !.nosub = e.nosub \cup {p}]
    <2>2. v \in ERec /\ v.sorted = e.sorted /\ v.scans = e.scans
      BY <1>0 DEF ERec
    <2>3. w \in ERec /\ w.sorted = e.sorted /\ w.scans = e.scans
      BY <1>0 DEF ERec
    <2>4. Rule(v) \/ Rule(w)
      BY <2>1
    <2> HIDE DEF v, w
    <2>5. QED
      BY <2>1, <2>2, <2>3, <2>4, RuleKeeps
  <1>4. CASE add_match_sysname
    <2>1. PICK p \in NamePattern : Calls /\ (Rule([e EXCEPT !.name = @ \cup {p}]) \/ Rule([e EXCEPT !.noname = @ \cup {p}]))
      BY <1>4 DEF add_match_sysname
    <2> DEFINE v == [e EXCEPT !.name = e.name \cup {p}]
               w == [e EXCEPT !.noname = e.noname \cup {p}]
    <2>2. v \in ERec /\ v.sorted = e.sorted /\ v.scans = e.scans
      BY <1>0 DEF ERec
    <2>3. w \in ERec /\ w.sorted = e.sorted /\ w.scans = e.scans
      BY <1>0 DEF ERec
    <2>4. Rule(v) \/ Rule(w)
      BY <2>1
    <2> HIDE DEF v, w
    <2>5. QED
      BY <2>1, <2>2, <2>3, <2>4, RuleKeeps
  <1>5. CASE add_match_sysattr
    <2> DEFINE v == [e EXCEPT !.attr = TRUE]
    <2>1. Calls /\ Rule(v)
      BY <1>5 DEF add_match_sysattr
    <2>2. v \in ERec /\ v.sorted = e.sorted /\ v.scans = e.scans
      BY <1>0 DEF ERec
    <2> HIDE DEF v
    <2>3. QED
      BY <2>1, <2>2, RuleKeeps
  <1>6. CASE add_match_tag
    <2> DEFINE v == [e EXCEPT !.tag = TRUE]
    <2>1. Calls /\ Rule(v)
      BY <1>6 DEF add_match_tag
    <2>2. v \in ERec /\ v.sorted = e.sorted /\ v.scans = e.scans
      BY <1>0 DEF ERec
    <2> HIDE DEF v
    <2>3. QED
      BY <2>1, <2>2, RuleKeeps
  <1>7. CASE add_match_property
    <2>1. PICK k \in {"SUBSYSTEM", "ID_PATH"}, p \in ValuePattern :
            Calls /\ Rule([e EXCEPT !.prop = {r \in @ : r[1] # k} \cup {<<k, p>>}])
      BY <1>7 DEF add_match_property
    <2> DEFINE q == {r \in e.prop : r[1] # k} \cup {<<k, p>>}
               v == [e EXCEPT !.prop = q]
    <2>2. q \in SUBSET ({"SUBSYSTEM", "ID_PATH"} \X ValuePattern)
      BY <1>0 DEF ERec
    <2>3. Rule(v)
      BY <2>1
    <2> HIDE DEF q
    <2>4. v \in ERec /\ v.sorted = e.sorted /\ v.scans = e.scans
      BY <1>0, <2>2 DEF ERec
    <2> HIDE DEF v
    <2>5. QED
      BY <2>1, <2>3, <2>4, RuleKeeps
  <1>8. CASE add_match_parent
    <2>1. PICK d \in ParentDir, keep \in BOOLEAN :
            Calls /\ Rule([e EXCEPT !.parent = {d} \cup IF keep THEN @ ELSE {}])
      BY <1>8 DEF add_match_parent
    <2> DEFINE q == {d} \cup IF keep THEN e.parent ELSE {}
               v == [e EXCEPT !.parent = q]
    <2>2. q \in SUBSET ParentDir
      BY <1>0 DEF ERec
    <2>3. Rule(v)
      BY <2>1
    <2> HIDE DEF q
    <2>4. v \in ERec /\ v.sorted = e.sorted /\ v.scans = e.scans
      BY <1>0, <2>2 DEF ERec
    <2> HIDE DEF v
    <2>5. QED
      BY <2>1, <2>3, <2>4, RuleKeeps
  <1>9. CASE add_match_is_initialized
    BY <1>0, <1>9, RuleKeeps DEF add_match_is_initialized
  <1>10. CASE next
    BY <1>10, NextKeeps
  <1>11. CASE leave
    BY <1>11, StateInit DEF leave
  <1>12. CASE UNCHANGED e
    BY <1>12
  <1>13. QED
    BY <1>1, <1>2, <1>3, <1>4, <1>5, <1>6, <1>7, <1>8, <1>9, <1>10, <1>11, <1>12 DEF ENNext

\* Between two calls of the process the list is that of the map, and what was yielded is its
\* beginning, whatever rules were added before.
THEOREM EnumerationState == ENSpec => []StateInv(e)
  <1>1. ENInit => StateInv(e)
    BY StateInit DEF ENInit
  <1>2. StateInv(e) /\ [ENNext]_e => StateInv(e)'
    BY StateStep
  <1>3. QED
    BY <1>1, <1>2, PTL DEF ENSpec

LEMMA EndSelected ==
  ASSUME StateInv(e)
  PROVE  EnumeratesSelected
  <1> SUFFICES ASSUME e.ph = "end", e.scans = 1
               PROVE  /\ Cardinality(Range(e.out)) = Len(e.out) /\ Range(e.out) = e.map
                      /\ \A d \in Range(e.out) : Selected(d)
                      /\ e.etype # "Subsystems" /\ e.parent = {} /\ e.prop = {} =>
                            \A d \in Linked : Selected(d) => d \in Range(e.out)
    BY DEF EnumeratesSelected
  <1>1. e \in ERec /\ e.sorted /\ ~ (e.index < Len(e.devices)) /\ UpInv(e)
    BY DEF StateInv
  <1>2. Found(e) /\ Yielded(e)
    BY <1>1 DEF UpInv
  <1>3. e.index \in Nat /\ e.devices \in Seq(Dev) /\ Len(e.devices) \in Nat
    BY <1>1 DEF ERec
  <1>4. e.index <= Len(e.devices) /\ e.out = SubSeq(e.devices, 1, e.index)
    BY <1>2 DEF Yielded
  <1>5. e.index = Len(e.devices)
    BY <1>1, <1>3, <1>4
  <1>6. SubSeq(e.devices, 1, Len(e.devices)) = e.devices
    BY <1>3, SubSeqFull
  <1>7. e.out = e.devices
    BY <1>4, <1>5, <1>6
  <1>8. Range(e.out) = e.map /\ \A i, k \in DOMAIN e.out : i < k => e.out[i] # e.out[k]
    BY <1>2, <1>7 DEF Yielded, ListOf
  <1>9. Cardinality(Range(e.out)) = Len(e.out)
    <2> DEFINE o == e.out
    <2>1. o \in Seq(Dev) /\ \A i, k \in DOMAIN o : i < k => o[i] # o[k]
      BY <1>3, <1>7, <1>8
    <2> HIDE DEF o
    <2>2. Cardinality(Range(o)) = Len(o)
      BY <2>1, OnceEach
    <2>3. QED
      BY <2>2 DEF o
  <1>10. \A d : Selected(d) <=> SelectedBy(e, d)
    BY DEF Selected, SelectedBy
  <1>11. QED
    BY <1>2, <1>8, <1>9, <1>10 DEF Found

LEMMA EndOrdered ==
  ASSUME StateInv(e)
  PROVE  ParentsFirst
  <1> SUFFICES ASSUME e.ph = "end", Consistent(Range(e.devices))
               PROVE  ListOrder(e.devices, e.prio)
    BY DEF ParentsFirst, ListOrder
  <1>1. UpInv(e)
    BY DEF StateInv
  <1>2. CASE e.devices = <<>>
    BY <1>2 DEF ListOrder
  <1>3. CASE ListOf(e.devices, e.map, e.prio)
    BY <1>3 DEF ListOf
  <1>4. QED
    BY <1>1, <1>2, <1>3 DEF UpInv

\* However the directories of /sys are read, an enumeration that comes to its end after one scan
\* has yielded each device it found once, only devices that the match rules select, and, when it
\* looked for devices without rules of other kinds, every selected device of a bus or a class.
THEOREM EnumerationSelected == ENSpec => []EnumeratesSelected
  <1>1. StateInv(e) => EnumeratesSelected
    BY EndSelected
  <1>2. QED
    BY <1>1, EnumerationState, PTL

\* The list of an enumeration that has ended has the directory above a device before the device,
\* wherever device_compare is an order, across the prioritized parts too; without prioritized
\* subsystems md and dm come last, and the control device of a card after the rest of it.
THEOREM EnumerationOrdered == ENSpec => []ParentsFirst
  <1>1. StateInv(e) => ParentsFirst
    BY EndOrdered
  <1>2. QED
    BY <1>1, EnumerationState, PTL
=============================================================================
