------------------------------ MODULE JobQueue ------------------------------
(***************************************************************************)
(* Background jobs of ivis_import_async (queue.job) run by its cron:       *)
(* graphs of jobs that wait for one another, runners that take one job     *)
(* after the other, retries, and the operators' wizards.                   *)
(*                                                                         *)
(* A runner takes a job, performs it and stores the result in one          *)
(* transaction, commits, and enqueues the jobs that waited for it in the   *)
(* NEXT transaction, the one that takes and performs the next job.  Other  *)
(* transactions see the row of a taken job unchanged, and locked.          *)
(* Which of several pending jobs is taken first is left open.              *)
(***************************************************************************)
EXTENDS Naturals, FiniteSets

CONSTANTS
    Jobs,
    Graphs,         \* the sets of jobs that delay() stores together
    Parents,        \* Parents[j]: depends_on of j, jobs of the same graph
    Runners,        \* cron workers that may call _job_runner
    NoJob,
    MaxRetries,     \* max_retries of every job; 0 is: retry for ever
    MaxConflicts,   \* bound: serialization failures are met while retry is below it
    ByHand          \* bound: jobs that somebody may set to done by hand

VARIABLES
    state,      \* state[j], as committed; "none": not delayed yet, "deleted": vacuumed
    retry,      \* retry[j]
    postponed,  \* jobs whose eta is in the future
    task,       \* task[r]: the job r performs, or has just committed
    phase,      \* phase[r]: "idle", "perform" or "committed"
    freed,      \* freed[r]: children that r's open transaction sets to pending
    late,       \* late[r]: while r performs task[r], its parents that were not done in r's snapshot
    requeueing, \* requeueing[j]: state that a requeue of j, read but not written, decided on
    completed,  \* jobs that were done at some time
    performed   \* jobs whose work was committed since they were delayed or requeued

rows == <<state, retry, postponed>>
runners == <<task, phase, freed, late>>
history == <<completed, performed>>
vars == <<rows, runners, requeueing, history>>

ASSUME JobQueueAssumption ==
    /\ Parents \in [Jobs -> SUBSET Jobs]
    /\ Graphs \subseteq SUBSET Jobs
    /\ \A g \in Graphs : \A j \in g : Parents[j] \subseteq g
    /\ NoJob \notin Jobs
    /\ MaxRetries \in Nat /\ MaxConflicts \in Nat
    /\ ByHand \subseteq Jobs

\* "enqueued" and "started" are never committed when the cron runs the jobs.
States == {"none", "wait_dependencies", "pending", "done", "failed", "cancelled", "deleted"}
Exists(j) == state[j] \notin {"none", "deleted"}
Locked == {task[r] : r \in {q \in Runners : phase[q] = "perform"}} \cup UNION {freed[r] : r \in Runners}

\* Parents that Job.depends_on loads (a deleted one is ignored) and that are not done.
OpenParents(j) == {p \in Parents[j] : Exists(p) /\ state[p] # "done"}

\* What set_pending makes of a job with these open parents.
Repended(open) == IF open = {} THEN "pending" ELSE "wait_dependencies"

\* Variant: a plain SELECT, without the row lock.
Acquirable_NoLock(own) == {j \in Jobs : (state[j] = "pending" \/ j \in own) /\ j \notin postponed}
\* Jobs _acquire_one_job may take, given those the transaction itself released.
Acquirable(own) == {j \in Jobs : /\ state[j] = "pending" \/ j \in own
                                 /\ j \notin postponed
                                 /\ j \notin Locked \ own}
-----------------------------------------------------------------------------
Init == /\ state = [j \in Jobs |-> "none"]
        /\ retry = [j \in Jobs |-> 0]
        /\ postponed = {}
        /\ task = [r \in Runners |-> NoJob]
        /\ phase = [r \in Runners |-> "idle"]
        /\ freed = [r \in Runners |-> {}]
        /\ late = [r \in Runners |-> {}]
        /\ requeueing = [j \in Jobs |-> "none"]
        /\ completed = {}
        /\ performed = {}

\* A graph is stored in one transaction; a job with a parent waits.
Delay(g) ==
    /\ \A j \in g : state[j] = "none"
    /\ state' = [j \in Jobs |-> IF j \in g THEN Repended(Parents[j]) ELSE state[j]]
    /\ UNCHANGED <<retry, postponed, runners, requeueing, history>>

\* Time reaches the eta of a postponed job.
EtaPasses(j) ==
    /\ j \in postponed
    /\ postponed' = postponed \ {j}
    /\ UNCHANGED <<state, retry, runners, requeueing, history>>

(* Runners *)

\* r performs j in a transaction that has set the children own to pending.
Take(r, j, own) ==
    /\ j \in Acquirable(own)
    /\ task' = [task EXCEPT ![r] = j]
    /\ phase' = [phase EXCEPT ![r] = "perform"]
    /\ freed' = [freed EXCEPT ![r] = own]
    /\ late' = [late EXCEPT ![r] = OpenParents(j)]
    /\ UNCHANGED <<rows, requeueing, history>>

\* The cron calls _job_runner.
Wake(r) ==
    /\ phase[r] = "idle"
    /\ \E j \in Jobs : Take(r, j, {})

\* The commit of _process: the children released earlier and the outcome of the
\* job become visible together; requeues that had read the old rows start over.
Commit(r, outcome, tries) ==
    LET j == task[r] IN
    /\ phase[r] = "perform"
    /\ state' = [i \in Jobs |-> IF i = j THEN outcome
                                ELSE IF i \in freed[r] THEN "pending" ELSE state[i]]
    /\ retry' = [retry EXCEPT ![j] = tries]
    /\ requeueing' = [requeueing EXCEPT ![j] = "none"]
    /\ phase' = [phase EXCEPT ![r] = "committed"]
    /\ freed' = [freed EXCEPT ![r] = {}]
    /\ late' = [late EXCEPT ![r] = {}]
    /\ UNCHANGED task

\* The job returns, or has nothing to do.
\* Variant: the result is committed without the new state of the row.
Succeed_NotStored(r) ==
    /\ Commit(r, "pending", retry[task[r]] + 1)
    /\ completed' = completed \cup {task[r]}
    /\ performed' = performed \cup {task[r]}
    /\ UNCHANGED postponed
Succeed(r) ==
    /\ Commit(r, "done", retry[task[r]] + 1)
    /\ completed' = completed \cup {task[r]}
    /\ performed' = performed \cup {task[r]}
    /\ UNCHANGED postponed

\* RetryableJobError: postponed, until the retries are used up.
Exhausted(j) == MaxRetries # 0 /\ retry[j] + 1 >= MaxRetries
RaiseRetryable(r) ==
    /\ phase[r] = "perform" /\ ~Exhausted(task[r])
    /\ Commit(r, Repended(late[r]), retry[task[r]] + 1)
    /\ postponed' = postponed \cup {task[r]}
    /\ UNCHANGED history

\* A serialization failure inside the savepoint: postponed whatever the retries.
RaiseConflict(r) ==
    /\ phase[r] = "perform" /\ retry[task[r]] < MaxConflicts
    /\ Commit(r, Repended(late[r]), retry[task[r]] + 1)
    /\ postponed' = postponed \cup {task[r]}
    /\ UNCHANGED history

\* Any other error, FailedJobError of the last retry included.
RaiseError(r) ==
    /\ Commit(r, "failed", retry[task[r]] + 1)
    /\ UNCHANGED <<postponed, history>>

\* The children enqueue_waiting updates: every parent row it finds is done.
\* Variant: one parent that is done is enough.
Ready_AnyParent(j) == {c \in Jobs : /\ j \in Parents[c] /\ state[c] = "wait_dependencies"
                                    /\ state[j] = "done"}
Ready(j) == {c \in Jobs : /\ j \in Parents[c] /\ state[c] = "wait_dependencies"
                          /\ OpenParents(c) = {}}

\* The next transaction of the loop: release the children, take a job.
Continue(r) ==
    /\ phase[r] = "committed"
    /\ Ready(task[r]) \cap Locked = {}
    /\ \E j \in Jobs : Take(r, j, Ready(task[r]))

\* Nothing left to take: the released children are committed and the cron ends.
Stop(r) ==
    LET own == Ready(task[r]) IN
    /\ phase[r] = "committed"
    /\ own \cap Locked = {}
    /\ Acquirable(own) = {}
    /\ state' = [j \in Jobs |-> IF j \in own THEN "pending" ELSE state[j]]
    /\ phase' = [phase EXCEPT ![r] = "idle"]
    /\ task' = [task EXCEPT ![r] = NoJob]
    /\ UNCHANGED <<retry, postponed, freed, late, requeueing, history>>

\* The runner dies or its transaction is rolled back: what it had not
\* committed is undone, and nothing remembers the children to release.
Die(r) ==
    /\ phase[r] # "idle"
    /\ phase' = [phase EXCEPT ![r] = "idle"]
    /\ task' = [task EXCEPT ![r] = NoJob]
    /\ freed' = [freed EXCEPT ![r] = {}]
    /\ late' = [late EXCEPT ![r] = {}]
    /\ UNCHANGED <<rows, requeueing, history>>

\* Another runner holds a child that r is to release: r waits for that
\* transaction and fails on its commit.
LoseRace(r) ==
    /\ phase[r] = "committed"
    /\ Ready(task[r]) \cap Locked # {}
    /\ Die(r)

(* Operators *)

\* requeue() reads the job and its parents in the snapshot of its transaction ...
RequeueRead(j) ==
    /\ Exists(j) /\ state[j] # "wait_dependencies" /\ requeueing[j] = "none"
    /\ requeueing' = [requeueing EXCEPT ![j] = Repended(OpenParents(j))]
    /\ UNCHANGED <<rows, runners, history>>

\* ... and writes what it decided, if no one has written the row since.
RequeueWrite(j) ==
    /\ requeueing[j] # "none" /\ j \notin Locked
    /\ state' = [state EXCEPT ![j] = requeueing[j]]
    /\ retry' = [retry EXCEPT ![j] = 0]
    /\ requeueing' = [requeueing EXCEPT ![j] = "none"]
    /\ performed' = performed \ {j}
    /\ UNCHANGED <<postponed, runners, completed>>

\* The wizard keeps the jobs of these states.
SetCancelled(j) ==
    /\ state[j] \in {"pending", "failed"} /\ j \notin Locked
    /\ state' = [state EXCEPT ![j] = "cancelled"]
    /\ requeueing' = [requeueing EXCEPT ![j] = "none"]
    /\ UNCHANGED <<retry, postponed, runners, history>>

\* "Manually set to done": the children that waited for no other job are
\* released in the same transaction.
SetDone(j) ==
    LET own == {c \in Jobs : /\ j \in Parents[c] /\ state[c] = "wait_dependencies"
                             /\ OpenParents(c) \subseteq {j}} IN
    /\ j \in ByHand /\ Exists(j)
    /\ ({j} \cup own) \cap Locked = {}
    /\ state' = [i \in Jobs |-> IF i = j THEN "done" ELSE IF i \in own THEN "pending" ELSE state[i]]
    /\ requeueing' = [requeueing EXCEPT ![j] = "none"]
    /\ completed' = completed \cup {j}
    /\ UNCHANGED <<retry, postponed, runners, performed>>

\* Rows long done or cancelled are deleted, with all they hold.
Autovacuum(j) ==
    /\ state[j] \in {"done", "cancelled"} /\ j \notin Locked
    /\ state' = [state EXCEPT ![j] = "deleted"]
    /\ retry' = [retry EXCEPT ![j] = 0]
    /\ postponed' = postponed \ {j}
    /\ requeueing' = [requeueing EXCEPT ![j] = "none"]
    /\ UNCHANGED <<runners, history>>
-----------------------------------------------------------------------------
Work(r) == Wake(r) \/ Continue(r) \/ Stop(r)
Perform(r) == Succeed(r) \/ RaiseRetryable(r) \/ RaiseConflict(r) \/ RaiseError(r)

Calm == \/ \E g \in Graphs : Delay(g)
        \/ \E j \in Jobs : EtaPasses(j)
        \/ \E r \in Runners : Work(r) \/ Perform(r) \/ LoseRace(r)

Operate == \E j \in Jobs : \/ RequeueRead(j) \/ RequeueWrite(j)
                           \/ SetCancelled(j) \/ SetDone(j) \/ Autovacuum(j)

Next == Calm \/ Operate \/ \E r \in Runners : Die(r)

Spec == Init /\ [][Next]_vars

\* The cron is triggered whenever a job is or becomes pending, jobs return, time passes.
Fairness == /\ \A j \in Jobs : WF_vars(EtaPasses(j))
            /\ \A r \in Runners : WF_vars(Work(r)) /\ WF_vars(Perform(r))

\* No operator, but runners that may die, any number of times.
CrashSpec == Init /\ [][Calm \/ \E r \in Runners : Die(r)]_vars /\ Fairness
-----------------------------------------------------------------------------
\* The type invariant; a runner between two transactions holds no child.
TypeOK == /\ state \in [Jobs -> States]
          /\ retry \in [Jobs -> Nat]
          /\ postponed \subseteq Jobs
          /\ task \in [Runners -> Jobs \cup {NoJob}]
          /\ phase \in [Runners -> {"idle", "perform", "committed"}]
          /\ freed \in [Runners -> SUBSET Jobs]
          /\ late \in [Runners -> SUBSET Jobs]
          /\ requeueing \in [Jobs -> {"none", "pending", "wait_dependencies"}]
          /\ completed \subseteq Jobs /\ performed \subseteq Jobs
          /\ \A r \in Runners : phase[r] # "idle" => task[r] \in Jobs

\* Two runners never perform one job, nor does one perform a job another is
\* about to release: the row lock of _acquire_one_job reaches over the commit
\* of the job before.
OneRunnerPerJob ==
    \A q, r \in Runners : q # r /\ phase[q] = "perform" /\ phase[r] = "perform" =>
        /\ task[q] # task[r]
        /\ task[q] \notin freed[r]
        /\ freed[q] \cap freed[r] = {}

\* The work of a job whose effects are committed is not done again unless an
\* operator asked for it: through retries, crashes and requeues of other jobs.
NotPerformedAgain ==
    \A r \in Runners : phase[r] = "perform" => task[r] \notin performed

\* delay.py: a job that depends on others "can be executed only after" they
\* have been: whatever was requeued, cancelled or deleted in the meantime, each
\* of them was done, by a runner or by hand, or it was cancelled and its row
\* was deleted so that nothing knows of it any more.
StartsAfterParents ==
    \A r \in Runners : phase[r] = "perform" =>
        \A p \in Parents[task[r]] : p \in completed \/ state[p] = "deleted"

\* A job that waits for nothing any more does not wait for ever.
Released ==
    \A j \in Jobs : state[j] = "wait_dependencies" /\ OpenParents(j) = {} ~> state[j] # "wait_dependencies"
=============================================================================
