----------------------------- MODULE Devmaster -----------------------------
(***************************************************************************)
(* exts/devmaster: uevents become device jobs in a queue ordered by their  *)
(* sequence number; the worker manager hands them to worker threads over   *)
(* channels, and the threads answer over TCP.  The main thread runs the    *)
(* event loop; job_queue_start is followed job by job, since the workers   *)
(* run beside it.                                                          *)
(***************************************************************************)
EXTENDS Integers, Sequences, FiniteSets

CONSTANTS
    Seqnum,     \* the sequence numbers that uevents and `devctl test' carry
    Capacity,   \* workers_capacity
    MaxUevents, \* uevents and test commands in a behaviour
    MaxKills    \* `devctl kill' commands in a behaviour

VARIABLES
    jobs,     \* JobQueue::jobs: sequence number -> state and worker of the job
    workers,  \* WorkerManager::workers: id -> state and bound job
    timer,    \* the kill timer is running
    main,     \* the main thread is in job_queue_start, or in the loop
    chan,     \* the channels to the threads
    thread,   \* the job of each thread, Resting or Ended
    acks,     \* connections of the workers that the listener has not accepted
    uevents, kills

vars == <<jobs, workers, timer, main, chan, thread, acks, uevents, kills>>

Id == 0 .. Capacity - 1
Nothing == -1
Resting == -2
Ended == -3

ASSUME DevmasterAssumption ==
    /\ Seqnum \subseteq Nat
    /\ Capacity \in Nat \ {0} /\ MaxUevents \in Nat /\ MaxKills \in Nat

JobState == {"Queued", "Running"}
WorkerState == {"Idle", "Running", "Killing"}

DInit ==
    /\ jobs = << >>
    /\ workers = << >>
    /\ timer = FALSE
    /\ main = "loop"
    /\ chan = [i \in Id |-> << >>]
    /\ thread = [i \in Id |-> Ended]
    /\ acks = << >>
    /\ uevents = 0
    /\ kills = 0

without(f, x) == [y \in DOMAIN f \ {x} |-> f[y]]
with(f, x, v) == [y \in DOMAIN f \cup {x} |-> IF y = x THEN v ELSE f[y]]

-----------------------------------------------------------------------------
\* The queue.

\* A sequence number that is in the queue is refused.
job_queue_insert(js, n) ==
    IF n \in DOMAIN js THEN js ELSE with(js, n, [state |-> "Queued", worker |-> Nothing])

\* A job is found by its number and leaves the queue; nothing else knows it.
job_free(js, n) == without(js, n)

\* A job and its worker know each other.
bind(js, n, i) == [js EXCEPT ![n] = [state |-> "Running", worker |-> i]]

\* The queue is sorted: the first job that waits has the smallest number.
queued == {n \in DOMAIN jobs : jobs[n].state = "Queued"}
first_queued == CHOOSE n \in queued : \A k \in queued : n <= k

\* Any idle worker, or the first free id when there is none.
idle == {i \in DOMAIN workers : workers[i].state = "Idle"}
create_new_worker == {i \in Id \ DOMAIN workers : \A k \in Id \ DOMAIN workers : i <= k}

\* Mutant: the worker of the first id is taken, whatever it does.
candidates_first == IF idle # {} THEN idle ELSE {0}

candidates == IF idle # {} THEN idle ELSE create_new_worker

\* job_dispatch of the first queued job to worker i, and bind.
job_dispatch(i) ==
    LET n == first_queued
    IN  /\ workers' = with(workers, i, [state |-> "Running", job |-> n])
        /\ thread' = IF i \in DOMAIN workers THEN thread ELSE [thread EXCEPT ![i] = Resting]
        /\ chan' = [chan EXCEPT ![i] = Append(IF i \in DOMAIN workers THEN @ ELSE << >>, [kind |-> "job", n |-> n])]
        /\ jobs' = bind(jobs, n, i)
        /\ UNCHANGED <<timer, main, acks, uevents, kills>>

\* job_queue_start goes on to the next job until no worker can be had.
QueueStart ==
    /\ main = "start"
    /\ queued # {}
    /\ \E i \in candidates : job_dispatch(i)

QueueStarted ==
    /\ main = "start"
    /\ queued = {} \/ candidates = {}
    /\ main' = "loop"
    /\ UNCHANGED <<jobs, workers, timer, chan, thread, acks, uevents, kills>>

-----------------------------------------------------------------------------
\* The event sources of the main thread.

\* Monitor::dispatch, and the test command: insert, then start the queue.
Uevent(n) ==
    /\ main = "loop"
    /\ uevents < MaxUevents
    /\ uevents' = uevents + 1
    /\ jobs' = job_queue_insert(jobs, n)
    /\ main' = "start"
    /\ UNCHANGED <<workers, timer, chan, thread, acks, kills>>

\* The kill command starts the timer anew.
CmdKill ==
    /\ main = "loop"
    /\ kills < MaxKills
    /\ kills' = kills + 1
    /\ timer' = TRUE
    /\ UNCHANGED <<jobs, workers, main, chan, thread, acks, uevents>>

\* manager_kill_workers, from the timer: every worker, whatever it does.
KillWorkers ==
    /\ main = "loop"
    /\ timer
    /\ timer' = FALSE
    /\ workers' = [i \in DOMAIN workers |-> [workers[i] EXCEPT !.state = "Killing"]]
    /\ chan' = [i \in Id |-> IF i \in DOMAIN workers THEN Append(chan[i], [kind |-> "kill", n |-> Nothing]) ELSE chan[i]]
    /\ UNCHANGED <<jobs, main, thread, acks, uevents, kills>>

\* The killed worker is removed and its thread joined; the queue is not started.
dispose_killed(i) ==
    /\ workers' = without(workers, i)
    /\ UNCHANGED <<jobs, main>>

\* Mutant: the worker is idle again, but keeps the job.
finished_keeps_job(i) ==
    /\ workers' = [workers EXCEPT ![i].state = "Idle"]
    /\ jobs' = without(jobs, workers[i].job)
    /\ main' = "start"

\* The worker is idle again, its job is freed and the queue started.
dispose_finished(i) ==
    /\ workers' = [workers EXCEPT ![i] = [state |-> "Idle", job |-> Nothing]]
    /\ jobs' = job_free(jobs, workers[i].job)
    /\ main' = "start"

\* WorkerManager::dispatch: one connection, worker_response_dispose.
Ack ==
    /\ main = "loop"
    /\ acks # << >>
    /\ acks' = Tail(acks)
    /\ LET ack == Head(acks)
       IN  \/ ack.kind = "killed" /\ dispose_killed(ack.id)
           \/ ack.kind = "finished" /\ dispose_finished(ack.id)
    /\ UNCHANGED <<timer, chan, thread, uevents, kills>>

-----------------------------------------------------------------------------
\* The threads.

\* Mutant: the thread goes on after a kill.
take_survives(i) ==
    /\ thread[i] = Resting
    /\ chan[i] # << >>
    /\ chan' = [chan EXCEPT ![i] = Tail(@)]
    /\ \/ /\ Head(chan[i]).kind = "kill"
          /\ acks' = Append(acks, [kind |-> "killed", id |-> i])
          /\ UNCHANGED thread
       \/ /\ Head(chan[i]).kind = "job"
          /\ thread' = [thread EXCEPT ![i] = Head(chan[i]).n]
          /\ UNCHANGED acks
    /\ UNCHANGED <<jobs, workers, timer, main, uevents, kills>>

\* recv(): a job is taken up; a kill is answered and ends the thread.
Take(i) ==
    /\ thread[i] = Resting
    /\ chan[i] # << >>
    /\ chan' = [chan EXCEPT ![i] = Tail(@)]
    /\ \/ /\ Head(chan[i]).kind = "kill"
          /\ acks' = Append(acks, [kind |-> "killed", id |-> i])
          /\ thread' = [thread EXCEPT ![i] = Ended]
       \/ /\ Head(chan[i]).kind = "job"
          /\ thread' = [thread EXCEPT ![i] = Head(chan[i]).n]
          /\ UNCHANGED acks
    /\ UNCHANGED <<jobs, workers, timer, main, uevents, kills>>

\* The device is processed and broadcast, and the manager told.  Left out: a thread that
\* panics because the broadcast or the connection to the manager fails; it ends with its
\* job Running.
Process(i) ==
    /\ thread[i] \in Seqnum
    /\ acks' = Append(acks, [kind |-> "finished", id |-> i])
    /\ thread' = [thread EXCEPT ![i] = Resting]
    /\ UNCHANGED <<jobs, workers, timer, main, chan, uevents, kills>>

MainThread == QueueStart \/ QueueStarted \/ Ack
WorkerThread(i) == Take(i) \/ Process(i)

DNext ==
    \/ MainThread
    \/ KillWorkers
    \/ \E n \in Seqnum : Uevent(n)
    \/ CmdKill
    \/ \E i \in Id : WorkerThread(i)

\* The loop dispatches what is ready, the threads run, the timer fires.
DFairness ==
    /\ WF_vars(QueueStart \/ QueueStarted)
    /\ SF_vars(Ack)
    /\ SF_vars(KillWorkers)
    /\ \A i \in Id : WF_vars(WorkerThread(i))

DSpec == DInit /\ [][DNext]_vars /\ DFairness

-----------------------------------------------------------------------------
\* Properties.

\* What worker_response_dispose unwraps is there: a connection that waits comes
\* from a worker of the table, one that finished is bound to a job of the queue,
\* and nobody tells twice that he was killed.
AcksMeetTheirWorker ==
    \A k \in DOMAIN acks :
        /\ acks[k].id \in DOMAIN workers
        /\ acks[k].kind = "finished" =>
              /\ workers[acks[k].id].job \in DOMAIN jobs
              /\ \A l \in DOMAIN acks \ {k} : acks[l] # acks[k]
        /\ acks[k].kind = "killed" =>
              /\ thread[acks[k].id] = Ended
              /\ \A l \in DOMAIN acks : l > k => acks[l].id # acks[k].id

\* The job a worker is bound to is in the queue and bound to it, and a job is in the hands of at
\* most one thread: no device is processed by two workers.
OneWorkerPerJob ==
    /\ \A i \in DOMAIN workers : workers[i].job # Nothing =>
          /\ workers[i].job \in DOMAIN jobs
          /\ jobs[workers[i].job] = [state |-> "Running", worker |-> i]
    /\ \A i, k \in Id : i # k => thread[i] \notin Seqnum \/ thread[i] # thread[k]

\* Without a kill every job of the queue is processed and freed.
JobsProcessed == \A n \in Seqnum : n \in DOMAIN jobs ~> n \notin DOMAIN jobs \/ kills > 0

\* The comment on WorkerState::Killing: no job is given to a worker that was told
\* to end. A job behind a kill in the channel is never taken up.
KilledGetsNoJob ==
    \A i \in DOMAIN workers : \A k, l \in DOMAIN chan[i] :
        k < l => ~ (chan[i][k].kind = "kill" /\ chan[i][l].kind = "job")
=============================================================================
