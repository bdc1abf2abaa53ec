----------------------------- MODULE JobRunner -----------------------------
(***************************************************************************)
(* The HTTP job runner of ivis_import_async: a thread that keeps queues of *)
(* jobs per channel in memory (channels.py), is notified of every change   *)
(* of a row, marks a job as enqueued and asks a server worker to run it    *)
(* (runner.py, controllers/main.py).  Rows, queues and workers change      *)
(* independently; a notification only says which row to read again.        *)
(*                                                                         *)
(* Priorities, etas and throttling are left to JobChannels, the retries to *)
(* JobQueue.  The cron runner is taken to be switched off.                 *)
(***************************************************************************)
EXTENDS Naturals, FiniteSets

CONSTANTS
    Jobs, Workers, NoJob,
    Parents,            \* Parents[j]: jobs that j depends on
    Channels, Root,
    Ancestors,          \* Ancestors[c]: the channels downstream of c
    ChannelOf,          \* ChannelOf[j]
    Capacity,           \* Capacity[c]; 0 is unlimited
    Sequential,         \* channels that a failed job blocks
    MaxRequests         \* bound: HTTP requests for one job under way

VARIABLES
    state,      \* state[j]: the row; "none": not created yet
    notes,      \* jobs whose row changed since the runner last read it
    queue, running, failed,     \* per channel: the runner's sets of jobs
    requests,   \* requests[j]: HTTP requests for j the server has not looked at
    job,        \* job[w]: what worker w performs
    tail,       \* tail[w]: done, but what waits for it is not enqueued yet
    stale,      \* workers whose job's row was written by someone else meanwhile
    forced      \* history: jobs that were requeued by hand as started

manager == <<queue, running, failed>>
vars == <<state, notes, manager, requests, job, tail, stale, forced>>

ASSUME JobRunnerAssumption ==
    /\ IsFiniteSet(Jobs) /\ Parents \in [Jobs -> SUBSET Jobs] /\ NoJob \notin Jobs
    /\ Root \in Channels /\ Ancestors \in [Channels -> SUBSET Channels] /\ Ancestors[Root] = {}
    /\ \A c \in Channels \ {Root} : Root \in Ancestors[c] /\ c \notin Ancestors[c]
    /\ \A c \in Channels : \A d, e \in Ancestors[c] :      \* the channels are a tree
          Ancestors[d] \subseteq Ancestors[c] /\ (d = e \/ d \in Ancestors[e] \/ e \in Ancestors[d])
    /\ ChannelOf \in [Jobs -> Channels] /\ Capacity \in [Channels -> Nat]
    /\ Sequential \subseteq Channels /\ MaxRequests \in Nat

States == {"none", "wait_dependencies", "pending", "enqueued", "started", "done", "failed", "cancelled"}
Repended(j) == IF \A p \in Parents[j] : state[p] = "done" THEN "pending" ELSE "wait_dependencies"
-----------------------------------------------------------------------------
(* The runner's channels *)

Up(c) == {c} \cup Ancestors[c]

\* A channel without capacity yields nothing.
\* Variant: the running jobs may fill it to one more.
HasCapacity_OneMore(c) == Capacity[c] = 0 \/ Cardinality(running[c]) <= Capacity[c]
\* Variant: a failed job blocks any channel.
HasCapacity_Sequential(c) ==
    failed[c] = {} /\ (Capacity[c] = 0 \/ Cardinality(running[c]) < Capacity[c])
HasCapacity(c) ==
    /\ ~(c \in Sequential /\ failed[c] # {})
    /\ Capacity[c] = 0 \/ Cardinality(running[c]) < Capacity[c]

Without(sets, j, where) == [c \in Channels |-> IF c \in where THEN sets[c] \ {j} ELSE sets[c]]
With(sets, j, where) == [c \in Channels |-> IF c \in where THEN sets[c] \cup {j} ELSE sets[c]]

SetDone(j) ==
    LET up == Up(ChannelOf[j]) IN
    /\ queue' = Without(queue, j, up)
    /\ running' = Without(running, j, up)
    /\ failed' = Without(failed, j, up)

\* Back to the queue of its own channel, unless it is there.
\* Variant: it stays marked as running downstream.
SetPending_OwnOnly(j) ==
    LET c == ChannelOf[j] IN
    /\ queue' = With(queue, j, {c})
    /\ running' = Without(running, j, {c})
    /\ failed' = Without(failed, j, {c})
SetPending(j) ==
    LET c == ChannelOf[j] IN
    IF j \in queue[c] THEN UNCHANGED manager
    ELSE /\ queue' = With(Without(queue, j, Ancestors[c]), j, {c})
         /\ running' = Without(running, j, Up(c))
         /\ failed' = Without(failed, j, Up(c))

\* Running in its channel and downstream, up to the first where it already is.
SetRunning(j) ==
    LET c == ChannelOf[j]
        marked == {d \in Up(c) : \A e \in Up(c) : e = d \/ d \in Ancestors[e] => j \notin running[e]}
    IN /\ queue' = Without(queue, j, marked)
       /\ running' = With(running, j, marked)
       /\ failed' = Without(failed, j, marked)

SetFailed(j) ==
    LET c == ChannelOf[j] IN
    IF j \in failed[c] THEN UNCHANGED manager
    ELSE /\ queue' = Without(queue, j, Up(c))
         /\ running' = Without(running, j, Up(c))
         /\ failed' = With(Without(failed, j, Ancestors[c]), j, {c})

\* ChannelManager.notify with the state the row has now.
Notify(j) ==
    CASE state[j] \in {"done", "cancelled"}    -> SetDone(j)
      [] state[j] = "pending"                  -> SetPending(j)
      [] state[j] \in {"enqueued", "started"}  -> SetRunning(j)
      [] state[j] = "failed"                   -> SetFailed(j)
      [] OTHER                                 -> UNCHANGED manager
-----------------------------------------------------------------------------
Init == /\ state = [j \in Jobs |-> "none"]
        /\ notes = {}
        /\ queue = [c \in Channels |-> {}] /\ running = queue /\ failed = queue
        /\ requests = [j \in Jobs |-> 0]
        /\ job = [w \in Workers |-> NoJob] /\ tail = job
        /\ stale = {} /\ forced = {}

\* Every committed change of a row triggers a notification, and a worker that
\* performs the job will find its own copy of the row out of date.
Written(js, by) ==
    /\ notes' = notes \cup js
    /\ stale' = (stale \cup {w \in Workers \ by : job[w] \in js}) \ by

\* with_delay() of a job and of what it depends on has been committed.
Create(j) ==
    /\ state[j] = "none" /\ \A p \in Parents[j] : state[p] # "none"
    /\ state' = [state EXCEPT ![j] = Repended(j)]
    /\ Written({j}, {})
    /\ UNCHANGED <<manager, requests, job, tail, forced>>

(* The runner's thread *)

ProcessNotification(j) ==
    /\ j \in notes
    /\ notes' = notes \ {j}
    /\ Notify(j)
    /\ UNCHANGED <<state, requests, job, tail, stale, forced>>

\* A job waiting in the queue of c, with room in c, moves downstream to d.
Downstream(c, d) == d \in Ancestors[c] /\ \A e \in Ancestors[c] \ {d} : e \in Ancestors[d]
Promotable(c, j) == c # Root /\ HasCapacity(c) /\ j \in queue[c]
Promote(c, d, j) ==
    /\ Downstream(c, d) /\ Promotable(c, j)
    /\ queue' = [queue EXCEPT ![c] = @ \ {j}, ![d] = @ \cup {j}]
    /\ running' = [running EXCEPT ![c] = @ \cup {j}]
    /\ UNCHANGED <<state, notes, failed, requests, job, tail, stale, forced>>

\* The root yields a job once the other channels have moved what they could:
\* its row becomes enqueued, whatever it was, and a server is asked to run it.
RunJob(j) ==
    /\ \A c \in Channels, i \in Jobs : ~Promotable(c, i)
    /\ HasCapacity(Root) /\ j \in queue[Root]
    /\ requests[j] < MaxRequests
    /\ queue' = [queue EXCEPT ![Root] = @ \ {j}]
    /\ running' = [running EXCEPT ![Root] = @ \cup {j}]
    /\ state' = [state EXCEPT ![j] = "enqueued"]
    /\ requests' = [requests EXCEPT ![j] = @ + 1]
    /\ Written({j}, {})
    /\ UNCHANGED <<failed, job, tail, forced>>

\* A new connection after an error: what was known, and the notifications not
\* read, are forgotten, and every row that is not done is read.
Reinitialize ==
    LET in(c, states) == {j \in Jobs : c \in Up(ChannelOf[j]) /\ state[j] \in states} IN
    /\ notes' = {}
    /\ queue' = [c \in Channels |-> {j \in Jobs : ChannelOf[j] = c /\ state[j] = "pending"}]
    /\ running' = [c \in Channels |-> in(c, {"enqueued", "started"})]
    /\ failed' = [c \in Channels |-> {j \in Jobs : ChannelOf[j] = c /\ state[j] = "failed"}]
    /\ UNCHANGED <<state, requests, job, tail, stale, forced>>

\* set_job_pending: the GET met no answer in its second, or an error.
\* Variant: without the test of the state.
ResetIfEnqueued_Any(j) == state' = [state EXCEPT ![j] = "pending"] /\ Written({j}, {})
ResetIfEnqueued(j) ==
    IF state[j] = "enqueued"
    THEN state' = [state EXCEPT ![j] = "pending"] /\ Written({j}, {})
    ELSE UNCHANGED <<state, notes, stale>>

\* A worker may be performing by then, or the request reaches one later ...
TimeOut(j) ==
    /\ requests[j] > 0 \/ \E w \in Workers : job[w] = j
    /\ ResetIfEnqueued(j)
    /\ UNCHANGED <<manager, requests, job, tail, forced>>

\* ... or was refused; if the runner died with it, nobody resets the row.
Refuse(j) ==
    /\ requests[j] > 0
    /\ requests' = [requests EXCEPT ![j] = @ - 1]
    /\ ResetIfEnqueued(j) \/ UNCHANGED <<state, notes, stale>>
    /\ UNCHANGED <<manager, job, tail, forced>>

(* Server workers *)

\* runjob: the row is locked and tested; started is committed at once.
StartJob(w, j) ==
    /\ job[w] = NoJob /\ tail[w] = NoJob /\ requests[j] > 0
    /\ requests' = [requests EXCEPT ![j] = @ - 1]
    /\ IF state[j] = "enqueued"
       THEN /\ state' = [state EXCEPT ![j] = "started"]
            /\ job' = [job EXCEPT ![w] = j]
            /\ Written({j}, {w})
       ELSE UNCHANGED <<state, job, notes, stale>>
    /\ UNCHANGED <<manager, tail, forced>>

Finish(w, outcome) ==
    /\ job[w] # NoJob
    /\ state' = [state EXCEPT ![job[w]] = outcome]
    /\ job' = [job EXCEPT ![w] = NoJob]
    /\ Written({job[w]}, {w})
    /\ UNCHANGED <<manager, requests, forced>>

\* The job's work and its done state are committed together; then, in a second
\* transaction, the children whose parents are now all done are enqueued.
Succeed(w) == w \notin stale /\ Finish(w, "done") /\ tail' = [tail EXCEPT ![w] = job[w]]
EnqueueDependents(w) ==
    LET ready == {c \in Jobs : /\ tail[w] \in Parents[c] /\ state[c] = "wait_dependencies"
                               /\ \A p \in Parents[c] : state[p] = "done"}
    IN /\ tail[w] # NoJob
       /\ tail' = [tail EXCEPT ![w] = NoJob]
       /\ state' = [i \in Jobs |-> IF i \in ready THEN "pending" ELSE state[i]]
       /\ Written(ready, {})
       /\ UNCHANGED <<manager, requests, job, forced>>

\* RetryableJobError, or the row had been written since: everything the job did
\* is rolled back, and the copy read at the start is written over the row.
Postpone(w) == job[w] # NoJob /\ Finish(w, Repended(job[w])) /\ UNCHANGED tail

\* Any other error; here too the row is written from the old copy.
Fail(w) == Finish(w, "failed") /\ UNCHANGED tail

\* A worker that dies: the row stays started, or the children wait.
Die(w) ==
    /\ job[w] # NoJob \/ tail[w] # NoJob
    /\ job' = [job EXCEPT ![w] = NoJob] /\ tail' = [tail EXCEPT ![w] = NoJob]
    /\ stale' = stale \ {w}
    /\ UNCHANGED <<state, notes, manager, requests, forced>>

(* Rows written by others *)

\* The garbage collector cron finds a job enqueued for five minutes; it looks
\* at started jobs only when told to, which the cron does not.
RequeueStuck(j) ==
    /\ state[j] = "enqueued"
    /\ state' = [state EXCEPT ![j] = Repended(j)]
    /\ Written({j}, {})
    /\ UNCHANGED <<manager, requests, job, tail, forced>>

Requeue(j) ==
    /\ state[j] \notin {"none", "wait_dependencies"}
    /\ state' = [state EXCEPT ![j] = Repended(j)]
    /\ forced' = IF state[j] = "started" THEN forced \cup {j} ELSE forced
    /\ Written({j}, {})
    /\ UNCHANGED <<manager, requests, job, tail>>

SetCancelled(j) ==
    /\ state[j] \in {"pending", "failed", "enqueued"}
    /\ state' = [state EXCEPT ![j] = "cancelled"]
    /\ Written({j}, {})
    /\ UNCHANGED <<manager, requests, job, tail, forced>>
-----------------------------------------------------------------------------
Runner == \/ \E j \in Jobs : ProcessNotification(j) \/ RunJob(j)
          \/ \E c, d \in Channels, j \in Jobs : Promote(c, d, j)

Server(w) == \/ \E j \in Jobs : StartJob(w, j)
             \/ Succeed(w) \/ EnqueueDependents(w) \/ Postpone(w) \/ Fail(w)

Next == \/ Runner \/ Reinitialize
        \/ \E j \in Jobs : \/ Create(j) \/ TimeOut(j) \/ Refuse(j)
                           \/ RequeueStuck(j) \/ Requeue(j) \/ SetCancelled(j)
        \/ \E w \in Workers : Server(w) \/ Die(w)

\* The thread loops, the garbage collector runs every five minutes, servers
\* answer and jobs end.
Fairness == /\ \A j \in Jobs : WF_vars(ProcessNotification(j)) /\ WF_vars(RunJob(j)) /\ WF_vars(RequeueStuck(j))
            /\ \A c, d \in Channels, j \in Jobs : WF_vars(Promote(c, d, j))
            /\ \A w \in Workers : WF_vars(Server(w))

Spec == Init /\ [][Next]_vars
FairSpec == Spec /\ Fairness
-----------------------------------------------------------------------------
\* Where the runner has read the last change of a row, its channels say what
\* the row says: a pending job stands in exactly one queue on its way down and
\* runs in the channels before it, one that is enqueued or started takes a
\* place in every channel, one that is done or cancelled none.  Only a job that
\* waits for others is not looked at.
ChannelsMatchRows ==
    \A j \in Jobs \ notes :
        LET up == Up(ChannelOf[j])
            queued == {c \in up : j \in queue[c]}
        IN /\ state[j] = "pending" =>
                \E c \in up : /\ queued = {c} /\ j \notin running[c]
                              /\ \A d \in up \ {c} : j \in running[d] <=> c \in Ancestors[d]
           /\ state[j] \in {"enqueued", "started"} =>
                queued = {} /\ \A c \in up : j \in running[c]
           /\ state[j] \in {"done", "cancelled", "failed"} =>
                queued = {} /\ \A c \in up : j \notin running[c]

\* A channel is never filled beyond its capacity, also by what a new
\* connection finds already enqueued or started; and the limit is one of the
\* server too: no more jobs are performed at a time than the root channel has
\* places, whatever requests come late, unless a user requeued a started one.
CapacityKept ==
    /\ \A c \in Channels : Capacity[c] # 0 => Cardinality(running[c]) <= Capacity[c]
    /\ Capacity[Root] # 0 =>
          Cardinality({w \in Workers : job[w] \notin forced \cup {NoJob}}) <= Capacity[Root]

\* Two workers never perform one job at the same time, unless a user requeued
\* it while the first was at it.
OneWorkerPerJob ==
    \A v, w \in Workers : v # w /\ job[v] \notin forced \cup {NoJob} => job[v] # job[w]

\* A waiting job takes no place.  channels.py says: "Only jobs marked running
\* in the root channel are actually sent to Odoo for execution."
RunningMeansSent == \A j \in Jobs \ notes : j \in running[Root] => state[j] \in {"enqueued", "started"}

\* A job that can run ends (or, requeued, waits for another), if from some time
\* on requests arrive, nobody interferes and no job asks to be run again; unless
\* it is held up for good: by a failed job of a sequential channel on its way,
\* or by a place that a job keeps which is not performed, the started job of a
\* dead worker or one that was requeued into waiting.
HeldUp(j) == \/ \E c \in Up(ChannelOf[j]) \cap Sequential : failed[c] # {}
             \/ \E i \in running[Root] : \/ state[i] = "wait_dependencies"
                                         \/ state[i] = "started" /\ \A w \in Workers : job[w] # i
Lucky == /\ <>[][~\E j \in Jobs : \/ TimeOut(j) \/ Refuse(j) \/ Requeue(j) \/ SetCancelled(j)
                                   \/ (requests[j] > 0 /\ RequeueStuck(j))]_vars
         /\ <>[][~Reinitialize /\ ~\E w \in Workers : Postpone(w)]_vars
Settled == Lucky =>
    \A j \in Jobs : state[j] = "pending" ~> \/ state[j] \in {"done", "failed", "cancelled"}
                                            \/ state[j] = "wait_dependencies" \/ HeldUp(j)
=============================================================================
