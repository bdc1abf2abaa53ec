---------------------------- MODULE JobChannels ----------------------------
(***************************************************************************)
(* Time and order in the channels of the job runner of ivis_import_async:  *)
(* priorities, jobs postponed to an eta, sequential and throttled          *)
(* channels, and the time the runner sleeps to (channels.py, runner.py).   *)
(* JobRunner has the requests, the workers and the dead servers; here a    *)
(* job that was asked for just ends, and all that a late answer, the       *)
(* garbage collector or a user do to it is that its row becomes pending.   *)
(***************************************************************************)
EXTENDS Naturals, FiniteSets

CONSTANTS
    Uuids,
    Rank,               \* Rank[u]: by priority, creation and sequence; least first
    Channels, Root,
    Ancestors,          \* Ancestors[c]: the channels downstream of c
    ChannelOf,          \* ChannelOf[u]
    Configurations,     \* what the channels may be configured as
    Delays,             \* how far ahead an eta lies
    MaxClock,           \* bound: the clock stops here
    Meddled, MaxMeddling    \* bounds: jobs set to pending or cancelled from outside, and how often

VARIABLES
    config,     \* config[c]: capacity (0: unlimited), sequential, throttle
    row,        \* row[u], as committed: state and eta; 0 is no eta
    notes,      \* jobs whose row changed since the runner last read it
    queue, running, failed,     \* per channel, as in JobRunner
    jobEta,     \* jobEta[u]: the eta that the runner still waits for; 0 is none
    pause,      \* pause[c]: _pause_until
    clock, at,  \* the time, and the time the last pass over the channels began
    loop,       \* "read", "run" or "sleep"
    left,       \* channels that the pass has not left yet
    wakeup,     \* the time to sleep to; 0: until something happens
    last,       \* history: last[c]: the pass in which c, throttled, last yielded a job
    meddled     \* times that a row was set to pending or cancelled from outside

manager == <<queue, running, failed, jobEta>>
runner == <<manager, pause, at, loop, left, wakeup, last>>
channelVars == <<config, row, notes, runner, clock, meddled>>

ASSUME JobChannelsAssumption ==
    /\ IsFiniteSet(Uuids)
    /\ Rank \in [Uuids -> Nat] /\ \A u, v \in Uuids : Rank[u] = Rank[v] => u = v
    /\ Root \in Channels /\ Ancestors \in [Channels -> SUBSET Channels] /\ Ancestors[Root] = {}
    /\ ChannelOf \in [Uuids -> Channels]
    /\ Configurations \subseteq [Channels -> [capacity : Nat, sequential : BOOLEAN, throttle : Nat]]
    /\ \A o \in Configurations, c \in Channels : o[c].sequential => o[c].capacity = 1
    /\ Delays \subseteq Nat \ {0} /\ {MaxClock, MaxMeddling} \subseteq Nat /\ Meddled \subseteq Uuids

ASSUME ChannelsFormATree ==
    /\ IsFiniteSet(Channels)
    /\ \A c \in Channels \ {Root} : Root \in Ancestors[c] /\ c \notin Ancestors[c]
    /\ \A c \in Channels : \A d \in Ancestors[c] : Ancestors[d] \subseteq Ancestors[c]

Up(c) == {c} \cup Ancestors[c]
Downstream(c, d) == d \in Ancestors[c] /\ \A e \in Ancestors[c] \ {d} : e \in Ancestors[d]
Sequential(c) == config[c].sequential
First(us) == {u \in us : \A v \in us : Rank[u] <= Rank[v]}
-----------------------------------------------------------------------------
(* A channel and its queue *)

\* Variant: a failed job does not block its sequential channel.
HasCapacity_FailedPasses(c) == config[c].capacity = 0 \/ Cardinality(running[c]) < config[c].capacity
HasCapacity(c) ==
    /\ ~(Sequential(c) /\ failed[c] # {})
    /\ config[c].capacity = 0 \/ Cardinality(running[c]) < config[c].capacity

Due(c, now) == {u \in queue[c] : jobEta[u] <= now}
Postponed(c, now) == queue[c] \ Due(c, now)
Earliest(us) == First({u \in us : \A v \in us : jobEta[u] <= jobEta[v]})

\* A sequential queue waits for the first postponed job if that comes before
\* the jobs that are due; the others that are postponed are not looked at.
WaitsForEta(c, now) ==
    /\ Sequential(c)
    /\ \E u \in Earliest(Postponed(c, now)), v \in First(Due(c, now)) : Rank[u] < Rank[v]

\* pop: at most one job.
Pop(c, now) == IF WaitsForEta(c, now) THEN {} ELSE First(Due(c, now))

\* Whatever it returns, the etas that have passed are forgotten.
EtasPassed(c, now) == [u \in Uuids |-> IF u \in Due(c, now) THEN 0 ELSE jobEta[u]]

\* What the channels want to be woken up for: the end of the pause or the first
\* eta of every channel that has capacity and can get a job to the root.
\* Variant: a paused channel asks for nothing.
WakeupTimes_NoPause(pauses, etas) ==
    LET asked == {c \in Channels : \A d \in Up(c) : HasCapacity(d) /\ pauses[d] = 0}
    IN (UNION {{etas[u] : u \in queue[c]} : c \in asked}) \ {0}
WakeupTimes(pauses, etas) ==
    LET asked == {c \in Channels : HasCapacity(c) /\ \A d \in Ancestors[c] : HasCapacity(d) /\ pauses[d] = 0}
    IN (UNION {IF pauses[c] # 0 THEN {pauses[c]} ELSE {etas[u] : u \in queue[c]} : c \in asked}) \ {0}
-----------------------------------------------------------------------------
Pending(eta) == [state |-> "pending", eta |-> eta]

ChannelsInit ==
    /\ config \in Configurations
    /\ row = [u \in Uuids |-> [state |-> "none", eta |-> 0]]
    /\ notes = {}
    /\ queue = [c \in Channels |-> {}] /\ running = queue /\ failed = queue
    /\ jobEta = [u \in Uuids |-> 0]
    /\ pause = [c \in Channels |-> 0] /\ last = pause
    /\ clock = 1 /\ at = 0
    /\ loop = "read" /\ left = {} /\ wakeup = 0 /\ meddled = 0

(* The runner's thread *)

\* A change of the row is read; if its eta is not the one waited for, the job is
\* first taken out of every channel.
\* set_running and set_failed do nothing where the job is there already; then it
\* is nowhere else, and the move leaves it as it is.
Notify(u) ==
    LET own == ChannelOf[u]
        out(sets) == IF row[u].eta = jobEta[u] THEN sets
                     ELSE [d \in Channels |-> IF d \in Up(own) THEN sets[d] \ {u} ELSE sets[d]]
        put(sets, into, from) == [d \in Channels |-> IF d \in into THEN sets[d] \cup {u}
                                                     ELSE IF d \in from THEN sets[d] \ {u} ELSE sets[d]]
        move(q, r, f) == /\ queue' = put(out(queue), q, Up(own))
                         /\ running' = put(out(running), r, Up(own))
                         /\ failed' = put(out(failed), f, Up(own))
    IN /\ jobEta' = [jobEta EXCEPT ![u] = row[u].eta]
       /\ CASE row[u].state \in {"done", "cancelled"} -> move({}, {}, {})
            [] row[u].state = "pending"  -> IF u \in out(queue)[own] THEN UNCHANGED <<queue, running, failed>>
                                            ELSE move({own}, {}, {})
            [] row[u].state = "enqueued" -> move({}, Up(own), {})
            [] row[u].state = "failed"   -> move({}, {}, {own})

ProcessNotification(u) ==
    /\ loop = "read" /\ u \in notes
    /\ notes' = notes \ {u}
    /\ Notify(u)
    /\ UNCHANGED <<config, row, pause, clock, at, loop, left, wakeup, last, meddled>>

StartPass ==
    /\ loop = "read" /\ notes = {}
    /\ loop' = "run" /\ left' = Channels /\ at' = clock
    /\ UNCHANGED <<config, row, notes, manager, pause, clock, wakeup, last, meddled>>

\* get_jobs_to_run visits the channels upstream before the one they lead to.
Visits(c) == loop = "run" /\ c \in left /\ \A d \in left : c \notin Ancestors[d]
\* Variant: a pause ends a second early.
Paused_Early(c) == config[c].throttle # 0 /\ at + 1 < pause[c]
Paused(c) == config[c].throttle # 0 /\ at < pause[c]

\* The channel yields a job to the one downstream; the root has it run.
Yield(c, u) ==
    /\ Visits(c) /\ ~Paused(c) /\ HasCapacity(c) /\ u \in Pop(c, at)
    /\ queue' = [d \in Channels |-> IF d = c THEN queue[d] \ {u}
                                    ELSE IF Downstream(c, d) THEN queue[d] \cup {u} ELSE queue[d]]
    /\ running' = [running EXCEPT ![c] = @ \cup {u}]
    /\ jobEta' = EtasPassed(c, at)
    /\ pause' = IF config[c].throttle = 0 THEN pause ELSE [pause EXCEPT ![c] = at + config[c].throttle]
    /\ last' = IF config[c].throttle = 0 THEN last ELSE [last EXCEPT ![c] = at]
    /\ IF c = Root THEN row' = [row EXCEPT ![u].state = "enqueued"] /\ notes' = notes \cup {u}
                   ELSE UNCHANGED <<row, notes>>
    /\ UNCHANGED <<config, failed, clock, at, loop, left, wakeup, meddled>>

\* wait_notification: unless something has happened, sleep to the first of the
\* times asked for.
Wait(times) ==
    IF notes # {} THEN loop' = "read" /\ at' = 0 /\ UNCHANGED wakeup
    ELSE /\ loop' = "sleep" /\ UNCHANGED at
         /\ wakeup' \in IF times = {} THEN {0} ELSE {t \in times : \A s \in times : t <= s}

\* It is paused, is full, or has nothing to yield; a pause that is over ends,
\* also where the channel is full.  After the root the runner waits.
Leave(c) ==
    /\ Visits(c)
    /\ Paused(c) \/ ~HasCapacity(c) \/ Pop(c, at) = {}
    /\ left' = left \ {c}
    /\ pause' = IF Paused(c) THEN pause ELSE [pause EXCEPT ![c] = 0]
    /\ jobEta' = IF Paused(c) \/ ~HasCapacity(c) THEN jobEta ELSE EtasPassed(c, at)
    /\ IF c = Root THEN Wait(WakeupTimes(pause', jobEta')) ELSE UNCHANGED <<loop, at, wakeup>>
    /\ UNCHANGED <<config, row, notes, queue, running, failed, clock, last, meddled>>

\* A notification, the time, or a timeout where there was no time to wait for.
WakeUp ==
    /\ loop = "sleep"
    /\ notes # {} \/ wakeup <= clock
    /\ loop' = "read" /\ wakeup' = 0 /\ at' = 0
    /\ UNCHANGED <<config, row, notes, manager, pause, clock, left, last, meddled>>

\* A connection is lost: all jobs are forgotten and read again, the pauses stay.
Reinitialize ==
    LET of(c, state) == {u \in Uuids : ChannelOf[u] = c /\ row[u].state = state} IN
    /\ notes' = {}
    /\ queue' = [c \in Channels |-> of(c, "pending")]
    /\ running' = [c \in Channels |-> UNION {of(d, "enqueued") : d \in {d \in Channels : c \in Up(d)}}]
    /\ failed' = [c \in Channels |-> of(c, "failed")]
    /\ jobEta' = [u \in Uuids |-> row[u].eta]
    /\ loop' = "read" /\ left' = {} /\ wakeup' = 0 /\ at' = 0
    /\ UNCHANGED <<config, row, pause, clock, last, meddled>>

(* The rows *)

Written(u, r) == /\ row' = [row EXCEPT ![u] = r] /\ notes' = notes \cup {u}
                 /\ UNCHANGED <<config, runner, clock>>

Etas == {clock + d : d \in Delays} \cap 1..MaxClock + 1
Create(u) == row[u].state = "none" /\ (\E e \in {0} \cup Etas : Written(u, Pending(e))) /\ UNCHANGED meddled

\* A job that is performed ends, or asks to be run again later.
Finish(u) ==
    /\ row[u].state = "enqueued"
    /\ \/ \E s \in {"done", "failed"} : Written(u, [row[u] EXCEPT !.state = s])
       \/ \E e \in Etas : Written(u, Pending(e))
    /\ UNCHANGED meddled

\* By a user, by the garbage collector, or after a request without an answer;
\* the eta stays.
Meddle(u) == u \in Meddled /\ meddled < MaxMeddling /\ meddled' = meddled + 1
WritePending(u) == Meddle(u) /\ row[u].state # "none" /\ Written(u, Pending(row[u].eta))
WriteCancelled(u) ==
    /\ Meddle(u)
    /\ row[u].state \in {"pending", "failed", "enqueued"}
    /\ Written(u, [row[u] EXCEPT !.state = "cancelled"])

Tick == clock < MaxClock /\ clock' = clock + 1 /\ UNCHANGED <<config, row, notes, runner, meddled>>
-----------------------------------------------------------------------------
ChannelsNext ==
    \/ \E u \in Uuids : \/ ProcessNotification(u) \/ Create(u) \/ Finish(u)
                        \/ WritePending(u) \/ WriteCancelled(u)
    \/ \E c \in Channels : Leave(c) \/ \E u \in Uuids : Yield(c, u)
    \/ StartPass \/ WakeUp \/ Reinitialize \/ Tick
ChannelsSpec == ChannelsInit /\ [][ChannelsNext]_channelVars
-----------------------------------------------------------------------------
\* The type invariant; only a job that exists is read about.
ChannelsTypeOK ==
    /\ config \in Configurations
    /\ row \in [Uuids -> [state : {"none", "pending", "enqueued", "done", "failed", "cancelled"}, eta : Nat]]
    /\ notes \subseteq {u \in Uuids : row[u].state # "none"}
    /\ queue \in [Channels -> SUBSET Uuids] /\ running \in [Channels -> SUBSET Uuids]
    /\ failed \in [Channels -> SUBSET Uuids]
    /\ jobEta \in [Uuids -> Nat]
    /\ pause \in [Channels -> Nat] /\ last \in [Channels -> Nat]
    /\ clock \in Nat /\ at \in Nat /\ wakeup \in Nat /\ meddled \in Nat
    /\ loop \in {"read", "run", "sleep"} /\ left \subseteq Channels

\* What the options promise: a job that is due goes all the way down if every
\* channel on the way has room, has rested and has nothing postponed before it.
OpenFor(u, c, now) ==
    /\ HasCapacity(c)
    /\ config[c].throttle # 0 => last[c] = 0 \/ last[c] + config[c].throttle <= now
    /\ ~\E v \in Postponed(c, now) : Sequential(c) /\ Rank[v] < Rank[u]
CouldRun(u, now) ==
    \E c \in Channels : u \in Due(c, now) /\ \A d \in Up(c) : OpenFor(u, d, now)

\* The runner never oversleeps and never spins: while it sleeps and nothing has
\* happened that it would hear of, no job could run before the time it has set
\* itself, and that time lies after the pass that found nothing more to do.
\* runner.py says of a wakeup time in the past "this should rarely happen
\* because of how get_wakeup_time is designed".
WakesInTime ==
    loop = "sleep" =>
        /\ wakeup # 0 => wakeup > at
        /\ notes = {} /\ (wakeup # 0 => clock < wakeup) => \A u \in Uuids : ~CouldRun(u, clock)

\* A throttled channel lets the seconds pass between two jobs, also when its
\* jobs are forgotten and read again in between.
ThrottleKept ==
    [][\A c \in left, u \in Uuids :
          Yield(c, u) /\ config[c].throttle # 0 => last[c] = 0 \/ at >= last[c] + config[c].throttle]_channelVars

\* A sequential channel yields a job only when the others, as the runner last
\* read them, are neither under way nor failed, and none that comes first is
\* pending, not even postponed -- except where a third one, postponed to an
\* earlier time, comes after: it is the only one pop compares with.
SequentialKept ==
    [][\A c \in left, u \in Uuids : Yield(c, u) /\ Sequential(c) =>
          \A v \in Uuids \ (notes \cup {u}) : ChannelOf[v] = c /\ ChannelOf[u] = c =>
             /\ row[v].state \notin {"enqueued", "failed"}
             /\ row[v].state = "pending" /\ Rank[v] < Rank[u] =>
                   \E w \in Postponed(c, at) : Rank[w] > Rank[u] /\ jobEta[w] <= row[v].eta]_channelVars
=============================================================================
