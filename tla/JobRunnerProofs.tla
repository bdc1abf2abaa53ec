-------------------------- MODULE JobRunnerProofs --------------------------
(***************************************************************************)
(* The runner's channels and the rows of the jobs agree wherever the       *)
(* runner has read the last change, no channel is filled beyond its        *)
(* capacity, and no job is performed twice at a time: for any tree of      *)
(* channels, any capacities and any number of jobs and workers.            *)
(*                                                                         *)
(* Why: whatever the notifications say and in whatever order they come, a  *)
(* job has one of four places: it waits in one queue and runs in the       *)
(* channels before it, it runs in all its channels, it has failed, or it   *)
(* is nowhere.  A row becomes enqueued only when the root yields the job,  *)
(* so a row that is enqueued or started always runs in all its channels.   *)
(***************************************************************************)
EXTENDS JobRunner, FiniteSetTheorems, TLAPS

\* The values the variables take.
Types ==
    /\ state \in [Jobs -> States]
    /\ notes \subseteq Jobs
    /\ queue \in [Channels -> SUBSET Jobs]
    /\ running \in [Channels -> SUBSET Jobs]
    /\ failed \in [Channels -> SUBSET Jobs]
    /\ requests \in [Jobs -> Nat]
    /\ job \in [Workers -> Jobs \cup {NoJob}]
    /\ tail \in [Workers -> Jobs \cup {NoJob}]
    /\ stale \subseteq Workers /\ forced \subseteq Jobs

\* The four places of a job: in a queue on its way, ...
Waits(j, c) ==
    /\ c \in Up(ChannelOf[j])
    /\ \A d \in Channels : /\ j \in queue[d] <=> d = c
                           /\ j \in running[d] <=> d \in Up(ChannelOf[j]) /\ c \in Ancestors[d]
                           /\ j \notin failed[d]
\* ... running, ...
Runs(j) ==
    \A d \in Channels : /\ j \notin queue[d]
                        /\ j \in running[d] <=> d \in Up(ChannelOf[j])
                        /\ j \notin failed[d]
\* ... failed, ...
Blocks(j) ==
    \A d \in Channels : /\ j \notin queue[d]
                        /\ j \notin running[d]
                        /\ j \in failed[d] <=> d = ChannelOf[j]
\* ... or nowhere.
Absent(j) == \A d \in Channels : j \notin queue[d] /\ j \notin running[d] /\ j \notin failed[d]

Placed == \A j \in Jobs : Runs(j) \/ Blocks(j) \/ Absent(j) \/ \E c \in Channels : Waits(j, c)

\* Also while the runner has not read the row: it runs.
BusyRuns == \A j \in Jobs : state[j] \in {"enqueued", "started"} => Runs(j)

Read ==
    \A j \in Jobs \ notes :
        /\ state[j] = "pending" => \E c \in Channels : Waits(j, c)
        /\ state[j] = "failed" => Blocks(j)
        /\ state[j] \in {"done", "cancelled"} => Absent(j)

NotOverfull == \A c \in Channels : Capacity[c] # 0 => Cardinality(running[c]) <= Capacity[c]

Performed ==
    \A w \in Workers : job[w] \notin forced \cup {NoJob} =>
        state[job[w]] = "started" /\ \A v \in Workers \ {w} : job[v] # job[w]

\* The inductive invariant.
IInv == Types /\ Placed /\ BusyRuns /\ Read /\ NotOverfull /\ Performed
-----------------------------------------------------------------------------
(* The tree of channels *)

\* The way from a channel to the root.
LEMMA Tree ==
    ASSUME NEW c \in Channels
    PROVE  /\ Up(c) \subseteq Channels /\ c \in Up(c) /\ Root \in Up(c)
           /\ Ancestors[c] \subseteq Channels /\ c \notin Ancestors[c]
           /\ \A d \in Ancestors[c] : c \notin Ancestors[d] /\ Ancestors[d] \subseteq Ancestors[c]
           /\ \A d, e \in Up(c) : d = e \/ d \in Ancestors[e] \/ e \in Ancestors[d]
<1>1. /\ Ancestors[c] \subseteq Channels /\ c \notin Ancestors[c]
      /\ c # Root => Root \in Ancestors[c]
      /\ \A d, e \in Ancestors[c] :
            Ancestors[d] \subseteq Ancestors[c] /\ (d = e \/ d \in Ancestors[e] \/ e \in Ancestors[d])
  BY JobRunnerAssumption
<1>2. \A d \in Ancestors[c] : c \notin Ancestors[d] /\ Ancestors[d] \subseteq Ancestors[c]
  BY <1>1
<1> QED BY <1>1, <1>2 DEF Up

\* The next channel downstream is the only one that comes between.
LEMMA NextDownstream ==
    ASSUME NEW leaf \in Channels, NEW c \in Up(leaf), NEW d, Downstream(c, d)
    PROVE  /\ d \in Up(leaf) /\ d \in Channels /\ d # c
           /\ \A e \in Up(leaf) : d \in Ancestors[e] <=> e = c \/ c \in Ancestors[e]
<1>1. c \in Channels /\ d \in Ancestors[c] /\ \A e \in Ancestors[c] \ {d} : e \in Ancestors[d]
  BY Tree DEF Downstream
<1>2. d \in Channels /\ d # c
  BY <1>1, Tree
<1>3. d \in Up(leaf)
  BY <1>1, Tree DEF Up
<1>4. ASSUME NEW e \in Up(leaf), d \in Ancestors[e]
      PROVE  e = c \/ c \in Ancestors[e]
  <2>1. e = c \/ e \in Ancestors[c] \/ c \in Ancestors[e]
    BY Tree
  <2>2. e \in Channels
    BY Tree
  <2>3. e # d /\ e \notin Ancestors[d]
    BY <1>2, <1>4, <2>2, Tree
  <2> QED BY <1>1, <2>1, <2>3
<1>5. ASSUME NEW e \in Up(leaf), e = c \/ c \in Ancestors[e]
      PROVE  d \in Ancestors[e]
  BY <1>1, <1>5, Tree
<1> QED BY <1>2, <1>3, <1>4, <1>5
-----------------------------------------------------------------------------
(* The places *)

\* What a step does to one job leaves the others where they are.
Stays(i) ==
    \A d \in Channels : /\ i \in queue'[d] <=> i \in queue[d]
                        /\ i \in running'[d] <=> i \in running[d]
                        /\ i \in failed'[d] <=> i \in failed[d]

\* A step that leaves a job where it is in all channels leaves it its place.
LEMMA SamePlace ==
    ASSUME NEW i \in Jobs, Stays(i)
    PROVE  /\ Runs(i) => Runs(i)'
           /\ Blocks(i) => Blocks(i)'
           /\ Absent(i) => Absent(i)'
           /\ \A c \in Channels : Waits(i, c) => Waits(i, c)'
BY DEF Stays, Runs, Blocks, Absent, Waits

\* A job is in one place only.
LEMMA OnePlace ==
    ASSUME NEW j \in Jobs, Placed
    PROVE  /\ \A c \in Channels : j \in queue[c] => Waits(j, c)
           /\ (\E c \in Channels : j \in failed[c]) => Blocks(j)
           /\ \A c \in Channels : Waits(j, c) => ~Runs(j)
<1>1. \A c \in Channels : Waits(j, c) => j \in queue[c]
  BY DEF Waits
<1> QED BY <1>1 DEF Placed, Runs, Blocks, Absent, Waits

\* SetDone, SetPending and SetFailed take a job out of every channel it was in.
LEMMA TakenOut ==
    ASSUME Types, NEW j \in Jobs, Placed
    PROVE  \A d \in Channels : d \notin Up(ChannelOf[j])
                => j \notin queue[d] /\ j \notin running[d] /\ j \notin failed[d]
<1>1. ChannelOf[j] \in Channels
  BY JobRunnerAssumption
<1>2. ChannelOf[j] \in Up(ChannelOf[j])
  BY DEF Up
<1> QED BY <1>2 DEF Placed, Runs, Blocks, Absent, Waits

ManagerTypes ==
    /\ queue \in [Channels -> SUBSET Jobs]
    /\ running \in [Channels -> SUBSET Jobs]
    /\ failed \in [Channels -> SUBSET Jobs]

\* What a notification about j may change.
Only(j) ==
    /\ ManagerTypes'
    /\ \A i \in Jobs \ {j} : Stays(i)
    /\ \A c \in Channels : running'[c] \subseteq running[c]

\* The sets of jobs without one of them.
LEMMA WithoutIn ==
    ASSUME NEW sets \in [Channels -> SUBSET Jobs], NEW j, NEW where
    PROVE  /\ Without(sets, j, where) \in [Channels -> SUBSET Jobs]
           /\ \A c \in Channels : \A i : i \in Without(sets, j, where)[c] <=> i \in sets[c] /\ ~(i = j /\ c \in where)
BY DEF Without

\* The sets of jobs with one more.
LEMMA WithIn ==
    ASSUME NEW sets \in [Channels -> SUBSET Jobs], NEW j \in Jobs, NEW where
    PROVE  /\ With(sets, j, where) \in [Channels -> SUBSET Jobs]
           /\ \A c \in Channels : \A i : i \in With(sets, j, where)[c] <=> i \in sets[c] \/ (i = j /\ c \in where)
BY DEF With

\* set_done moves a job out of all channels, whatever its place was.
LEMMA DoneIsAbsent ==
    ASSUME Types, Placed, NEW j \in Jobs, SetDone(j)
    PROVE  Only(j) /\ Absent(j)'
<1> DEFINE up == Up(ChannelOf[j])
<1>1. queue' = Without(queue, j, up) /\ running' = Without(running, j, up) /\ failed' = Without(failed, j, up)
  BY DEF SetDone
<1>2. /\ \A c \in Channels : \A i : i \in queue'[c] <=> i \in queue[c] /\ ~(i = j /\ c \in up)
      /\ \A c \in Channels : \A i : i \in running'[c] <=> i \in running[c] /\ ~(i = j /\ c \in up)
      /\ \A c \in Channels : \A i : i \in failed'[c] <=> i \in failed[c] /\ ~(i = j /\ c \in up)
      /\ ManagerTypes'
  BY <1>1, WithoutIn DEF Types, ManagerTypes
<1>3. \A d \in Channels : d \notin up => j \notin queue[d] /\ j \notin running[d] /\ j \notin failed[d]
  BY TakenOut
<1> HIDE DEF up
<1> QED BY <1>2, <1>3 DEF Only, Stays, Absent

\* set_pending moves it to a queue, whatever its place was.
LEMMA PendingWaits ==
    ASSUME Types, Placed, NEW j \in Jobs, SetPending(j)
    PROVE  Only(j) /\ \E c \in Channels : Waits(j, c)'
<1> DEFINE c == ChannelOf[j]
           up == Up(c)
<1>0. c \in Channels
  BY JobRunnerAssumption
<1>1. CASE j \in queue[c]
  <2>1. UNCHANGED manager
    BY <1>1 DEF SetPending
  <2>2. Waits(j, c)
    BY <1>0, <1>1, OnePlace
  <2> QED BY <1>0, <2>1, <2>2 DEF manager, Only, Stays, Waits, Types, ManagerTypes
<1>2. CASE j \notin queue[c]
  <2>1. /\ queue' = With(Without(queue, j, Ancestors[c]), j, {c})
        /\ running' = Without(running, j, up)
        /\ failed' = Without(failed, j, up)
    BY <1>2 DEF SetPending
  <2>2. /\ Without(queue, j, Ancestors[c]) \in [Channels -> SUBSET Jobs]
        /\ \A d \in Channels : \A i : i \in Without(queue, j, Ancestors[c])[d] <=> i \in queue[d] /\ ~(i = j /\ d \in Ancestors[c])
    BY WithoutIn DEF Types
  <2>3. /\ queue' \in [Channels -> SUBSET Jobs]
        /\ \A d \in Channels : \A i : i \in queue'[d]
              <=> i \in Without(queue, j, Ancestors[c])[d] \/ (i = j /\ d \in {c})
    <3> DEFINE left == Without(queue, j, Ancestors[c])
    <3>1. left \in [Channels -> SUBSET Jobs] /\ queue' = With(left, j, {c})
      BY <2>1, <2>2
    <3> HIDE DEF left
    <3>2. /\ queue' \in [Channels -> SUBSET Jobs]
          /\ \A d \in Channels : \A i : i \in queue'[d] <=> i \in left[d] \/ (i = j /\ d \in {c})
      BY <3>1, WithIn
    <3> QED BY <3>2 DEF left
  <2>4. /\ \A d \in Channels : \A i : i \in running'[d] <=> i \in running[d] /\ ~(i = j /\ d \in up)
        /\ \A d \in Channels : \A i : i \in failed'[d] <=> i \in failed[d] /\ ~(i = j /\ d \in up)
        /\ running' \in [Channels -> SUBSET Jobs] /\ failed' \in [Channels -> SUBSET Jobs]
    BY <2>1, WithoutIn DEF Types
  <2>5. \A d \in Channels : \A i : i \in queue'[d] <=> (i \in queue[d] /\ ~(i = j /\ d \in Ancestors[c])) \/ (i = j /\ d = c)
    BY <2>2, <2>3
  <2>6. \A d \in Channels : d \notin up => j \notin queue[d] /\ j \notin running[d] /\ j \notin failed[d]
    BY TakenOut
  <2>7. \A d \in up : c \notin Ancestors[d]
    BY <1>0, Tree DEF Up
  <2>8. \A d \in up : d = c \/ d \in Ancestors[c]
    BY DEF Up
  <2>9. c \in up /\ c \notin Ancestors[c]
    BY <1>0, Tree
  <2>10. Only(j)
    BY <2>3, <2>4, <2>5 DEF Only, Stays, ManagerTypes
  <2>11. ASSUME NEW d \in Channels
         PROVE  /\ j \in queue'[d] <=> d = c
                /\ j \in running'[d] <=> d \in up /\ c \in Ancestors[d]
                /\ j \notin failed'[d]
    BY <2>4, <2>5, <2>6, <2>7, <2>8, <2>9
  <2>12. Waits(j, c)'
    BY <2>9, <2>11 DEF Waits
  <2> QED BY <1>0, <2>10, <2>12
<1> QED BY <1>1, <1>2

\* set_failed moves it to the failed ones of its channel, whatever its place was.
LEMMA FailedBlocks ==
    ASSUME Types, Placed, NEW j \in Jobs, SetFailed(j)
    PROVE  Only(j) /\ Blocks(j)'
<1> DEFINE c == ChannelOf[j]
           up == Up(c)
<1>0. c \in Channels
  BY JobRunnerAssumption
<1>1. CASE j \in failed[c]
  <2>1. UNCHANGED manager
    BY <1>1 DEF SetFailed
  <2>2. Blocks(j)
    BY <1>0, <1>1, OnePlace
  <2> QED BY <2>1, <2>2 DEF manager, Only, Stays, Blocks, Types, ManagerTypes
<1>2. CASE j \notin failed[c]
  <2>1. /\ queue' = Without(queue, j, up)
        /\ running' = Without(running, j, up)
        /\ failed' = With(Without(failed, j, Ancestors[c]), j, {c})
    BY <1>2 DEF SetFailed
  <2>2. /\ Without(failed, j, Ancestors[c]) \in [Channels -> SUBSET Jobs]
        /\ \A d \in Channels : \A i : i \in Without(failed, j, Ancestors[c])[d] <=> i \in failed[d] /\ ~(i = j /\ d \in Ancestors[c])
    BY WithoutIn DEF Types
  <2>3. /\ failed' \in [Channels -> SUBSET Jobs]
        /\ \A d \in Channels : \A i : i \in failed'[d]
              <=> i \in Without(failed, j, Ancestors[c])[d] \/ (i = j /\ d \in {c})
    <3> DEFINE left == Without(failed, j, Ancestors[c])
    <3>1. left \in [Channels -> SUBSET Jobs] /\ failed' = With(left, j, {c})
      BY <2>1, <2>2
    <3> HIDE DEF left
    <3>2. /\ failed' \in [Channels -> SUBSET Jobs]
          /\ \A d \in Channels : \A i : i \in failed'[d] <=> i \in left[d] \/ (i = j /\ d \in {c})
      BY <3>1, WithIn
    <3> QED BY <3>2 DEF left
  <2>4. /\ \A d \in Channels : \A i : i \in running'[d] <=> i \in running[d] /\ ~(i = j /\ d \in up)
        /\ \A d \in Channels : \A i : i \in queue'[d] <=> i \in queue[d] /\ ~(i = j /\ d \in up)
        /\ running' \in [Channels -> SUBSET Jobs] /\ queue' \in [Channels -> SUBSET Jobs]
    BY <2>1, WithoutIn DEF Types
  <2>5. \A d \in Channels : \A i : i \in failed'[d] <=> (i \in failed[d] /\ ~(i = j /\ d \in Ancestors[c])) \/ (i = j /\ d = c)
    BY <2>2, <2>3
  <2>6. \A d \in Channels : d \notin up => j \notin queue[d] /\ j \notin running[d] /\ j \notin failed[d]
    BY TakenOut
  <2>7. \A d \in Channels : d \in up <=> d = c \/ d \in Ancestors[c]
    BY DEF Up
  <2>8. Only(j)
    BY <2>3, <2>4, <2>5 DEF Only, Stays, ManagerTypes
  <2>9. ASSUME NEW d \in Channels
        PROVE  j \notin queue'[d] /\ j \notin running'[d] /\ (j \in failed'[d] <=> d = c)
    BY <2>4, <2>5, <2>6, <2>7
  <2>10. Blocks(j)'
    BY <2>9 DEF Blocks
  <2> QED BY <2>8, <2>10
<1> QED BY <1>1, <1>2

\* A job whose row is enqueued or started runs already.
LEMMA RunningStays ==
    ASSUME Types, NEW j \in Jobs, Runs(j), SetRunning(j)
    PROVE  Only(j) /\ Runs(j)'
<1> DEFINE c == ChannelOf[j]
           marked == {d \in Up(c) : \A e \in Up(c) : e = d \/ d \in Ancestors[e] => j \notin running[e]}
<1>1. /\ queue' = Without(queue, j, marked) /\ running' = With(running, j, marked)
      /\ failed' = Without(failed, j, marked)
  BY DEF SetRunning
<1>2. marked = {}
  <2>1. c \in Channels
    BY JobRunnerAssumption
  <2>2. \A d \in Up(c) : j \in running[d]
    BY <2>1, Tree DEF Runs
  <2> QED BY <2>2
<1> HIDE DEF marked
<1>3. /\ \A d \in Channels : \A i : i \in queue'[d] <=> i \in queue[d]
      /\ \A d \in Channels : \A i : i \in failed'[d] <=> i \in failed[d]
      /\ queue' \in [Channels -> SUBSET Jobs] /\ failed' \in [Channels -> SUBSET Jobs]
  BY <1>1, <1>2, WithoutIn DEF Types
<1>4. /\ running' \in [Channels -> SUBSET Jobs]
      /\ \A d \in Channels : \A i : i \in running'[d] <=> i \in running[d]
  BY <1>1, <1>2, WithIn DEF Types
<1> QED BY <1>3, <1>4 DEF Only, Stays, ManagerTypes, Runs
-----------------------------------------------------------------------------
(* The runner's steps *)

\* Of the jobs that run there are finitely many.
LEMMA FiniteRunning ==
    ASSUME Types, NEW c \in Channels
    PROVE  IsFiniteSet(running[c]) /\ Cardinality(running[c]) \in Nat
BY JobRunnerAssumption, FS_Subset, FS_CardinalityType DEF Types

\* A channel from which jobs are taken stays within its capacity.
LEMMA FewerRun ==
    ASSUME Types, NotOverfull, NEW c \in Channels, NEW S, S \subseteq running[c], Capacity[c] # 0
    PROVE  Cardinality(S) <= Capacity[c]
<1>1. IsFiniteSet(running[c]) /\ Cardinality(running[c]) \in Nat
  BY FiniteRunning
<1>2. IsFiniteSet(S) /\ Cardinality(S) <= Cardinality(running[c]) /\ Cardinality(S) \in Nat
  BY <1>1, FS_Subset, FS_CardinalityType
<1>3. Capacity[c] \in Nat /\ Cardinality(running[c]) <= Capacity[c]
  BY JobRunnerAssumption DEF NotOverfull
<1> QED BY <1>1, <1>2, <1>3

\* A channel that has capacity can take one more.
LEMMA OneMoreRuns ==
    ASSUME Types, NEW c \in Channels, HasCapacity(c), Capacity[c] # 0, NEW j
    PROVE  Cardinality(running[c] \cup {j}) <= Capacity[c]
<1>1. IsFiniteSet(running[c]) /\ Cardinality(running[c]) \in Nat
  BY FiniteRunning
<1>2. Capacity[c] \in Nat /\ Cardinality(running[c]) < Capacity[c]
  BY JobRunnerAssumption DEF HasCapacity
<1>3. Cardinality(running[c] \cup {j}) \in {Cardinality(running[c]), Cardinality(running[c]) + 1}
  BY <1>1, FS_AddElement
<1> QED BY <1>1, <1>2, <1>3

\* Jobs other than j keep their places, j gets one that its row calls for.
LEMMA Replaced ==
    ASSUME IInv, NEW j \in Jobs, \A i \in Jobs \ {j} : Stays(i),
           state' = state, notes' \subseteq notes, notes \subseteq notes' \cup {j},
           (Runs(j) \/ Blocks(j) \/ Absent(j) \/ \E c \in Channels : Waits(j, c))',
           state[j] \in {"enqueued", "started"} => Runs(j)',
           j \notin notes' => /\ state[j] = "pending" => \E c \in Channels : Waits(j, c)'
                              /\ state[j] = "failed" => Blocks(j)'
                              /\ state[j] \in {"done", "cancelled"} => Absent(j)'
    PROVE  Placed' /\ BusyRuns' /\ Read'
<1>1. Placed /\ BusyRuns /\ Read
  BY DEF IInv
<1>2. ASSUME NEW i \in Jobs \ {j}
      PROVE  /\ (Runs(i) \/ Blocks(i) \/ Absent(i) \/ \E c \in Channels : Waits(i, c))'
             /\ state[i] \in {"enqueued", "started"} => Runs(i)'
             /\ i \notin notes' => /\ state[i] = "pending" => \E c \in Channels : Waits(i, c)'
                                   /\ state[i] = "failed" => Blocks(i)'
                                   /\ state[i] \in {"done", "cancelled"} => Absent(i)'
  <2>1. Stays(i) /\ i \in Jobs
    OBVIOUS
  <2>2. /\ Runs(i) => Runs(i)'
        /\ Blocks(i) => Blocks(i)'
        /\ Absent(i) => Absent(i)'
        /\ \A c \in Channels : Waits(i, c) => Waits(i, c)'
    BY <2>1, SamePlace
  <2>3. Runs(i) \/ Blocks(i) \/ Absent(i) \/ \E c \in Channels : Waits(i, c)
    BY <1>1, <2>1 DEF Placed
  <2>4. state[i] \in {"enqueued", "started"} => Runs(i)
    BY <1>1, <2>1 DEF BusyRuns
  <2>5. i \notin notes' => /\ state[i] = "pending" => \E c \in Channels : Waits(i, c)
                           /\ state[i] = "failed" => Blocks(i)
                           /\ state[i] \in {"done", "cancelled"} => Absent(i)
    BY <1>1, <2>1 DEF Read
  <2>6. (Runs(i) \/ Blocks(i) \/ Absent(i) \/ \E c \in Channels : Waits(i, c))'
    BY <2>2, <2>3
  <2>7. ASSUME i \notin notes'
        PROVE  /\ state[i] = "pending" => \E c \in Channels : Waits(i, c)'
               /\ state[i] = "failed" => Blocks(i)'
               /\ state[i] \in {"done", "cancelled"} => Absent(i)'
    <3>1. state[i] = "pending" => \E c \in Channels : Waits(i, c)
      BY <2>5, <2>7
    <3>2. (state[i] = "failed" => Blocks(i)) /\ (state[i] \in {"done", "cancelled"} => Absent(i))
      BY <2>5, <2>7
    <3>3. state[i] = "pending" => \E c \in Channels : Waits(i, c)'
      BY <2>2, <3>1
    <3> QED BY <2>2, <3>2, <3>3
  <2> QED BY <2>2, <2>4, <2>6, <2>7
<1>3. Placed'
  BY <1>2 DEF Placed
<1>4. BusyRuns'
  BY <1>2 DEF BusyRuns
<1>5. Read'
  <2>1. ASSUME NEW i \in Jobs \ notes'
        PROVE  /\ state'[i] = "pending" => \E c \in Channels : Waits(i, c)'
               /\ state'[i] = "failed" => Blocks(i)'
               /\ state'[i] \in {"done", "cancelled"} => Absent(i)'
    <3>1. CASE i = j
      BY <3>1 DEF Waits, Blocks, Absent
    <3>2. CASE i # j
      BY <1>2, <3>2
    <3> QED BY <3>1, <3>2
  <2> QED BY <2>1 DEF Read
<1> QED BY <1>3, <1>4, <1>5

\* A change of a row that is read puts the job where its row says.
LEMMA NotificationKeeps ==
    ASSUME IInv, NEW j \in Jobs, ProcessNotification(j)
    PROVE  IInv'
<1>1. /\ notes' = notes \ {j} /\ Notify(j)
      /\ UNCHANGED <<state, requests, job, tail, stale, forced>>
  BY DEF ProcessNotification
<1>2. Types /\ Placed /\ BusyRuns /\ Read /\ NotOverfull /\ Performed
  BY DEF IInv
<1>3. state[j] \in States
  BY <1>2 DEF Types
<1>4. /\ Only(j)
      /\ (Runs(j) \/ Blocks(j) \/ Absent(j) \/ \E c \in Channels : Waits(j, c))'
      /\ state[j] \in {"enqueued", "started"} => Runs(j)'
      /\ state[j] = "pending" => \E c \in Channels : Waits(j, c)'
      /\ state[j] = "failed" => Blocks(j)'
      /\ state[j] \in {"done", "cancelled"} => Absent(j)'
  <2>1. CASE state[j] \in {"done", "cancelled"}
    <3>1. SetDone(j)
      BY <1>1, <2>1 DEF Notify
    <3>2. Only(j) /\ Absent(j)'
      BY <1>2, <3>1, DoneIsAbsent
    <3> QED BY <2>1, <3>2
  <2>2. CASE state[j] = "pending"
    <3>1. SetPending(j)
      BY <1>1, <2>2 DEF Notify
    <3>2. Only(j) /\ \E c \in Channels : Waits(j, c)'
      BY <1>2, <3>1, PendingWaits
    <3> QED BY <2>2, <3>2
  <2>3. CASE state[j] \in {"enqueued", "started"}
    <3>1. SetRunning(j)
      BY <1>1, <2>3 DEF Notify
    <3>2. Only(j) /\ Runs(j)'
      BY <1>2, <2>3, <3>1, RunningStays DEF BusyRuns
    <3> QED BY <2>3, <3>2
  <2>4. CASE state[j] = "failed"
    <3>1. SetFailed(j)
      BY <1>1, <2>4 DEF Notify
    <3>2. Only(j) /\ Blocks(j)'
      BY <1>2, <3>1, FailedBlocks
    <3> QED BY <2>4, <3>2
  <2>5. CASE state[j] \in {"none", "wait_dependencies"}
    <3>1. UNCHANGED manager
      BY <1>1, <2>5 DEF Notify
    <3>2. Only(j) /\ Stays(j)
      BY <1>2, <3>1 DEF manager, Only, Stays, Types, ManagerTypes
    <3>3. Runs(j) \/ Blocks(j) \/ Absent(j) \/ \E c \in Channels : Waits(j, c)
      BY <1>2 DEF Placed
    <3>4. (Runs(j) \/ Blocks(j) \/ Absent(j) \/ \E c \in Channels : Waits(j, c))'
      BY <3>2, <3>3, SamePlace
    <3> QED BY <2>5, <3>2, <3>4
  <2> QED BY <1>3, <2>1, <2>2, <2>3, <2>4, <2>5 DEF States
<1>5. Types'
  BY <1>1, <1>2, <1>4 DEF Types, Only, ManagerTypes
<1>6. NotOverfull'
  BY <1>2, <1>4, FewerRun DEF NotOverfull, Only
<1>7. Placed' /\ BusyRuns' /\ Read'
  <2>1. \A i \in Jobs \ {j} : Stays(i)
    BY <1>4 DEF Only
  <2> QED BY <1>1, <1>4, <2>1, Replaced
<1>8. Performed'
  BY <1>1, <1>2 DEF Performed
<1> QED BY <1>5, <1>6, <1>7, <1>8 DEF IInv

\* A channel that yields a job to the next one: it waits there and runs here.
LEMMA PromotionKeeps ==
    ASSUME IInv, NEW c \in Channels, NEW d \in Channels, NEW j \in Jobs, Promote(c, d, j)
    PROVE  IInv'
<1> DEFINE up == Up(ChannelOf[j])
<1>1. /\ Downstream(c, d) /\ HasCapacity(c) /\ j \in queue[c]
      /\ queue' = [queue EXCEPT ![c] = @ \ {j}, ![d] = @ \cup {j}]
      /\ running' = [running EXCEPT ![c] = @ \cup {j}]
      /\ UNCHANGED <<state, notes, failed, requests, job, tail, stale, forced>>
  BY DEF Promote, Promotable
<1>2. Types /\ Placed /\ BusyRuns /\ Read /\ NotOverfull /\ Performed
  BY DEF IInv
<1>3. Waits(j, c) /\ ~Runs(j) /\ ~Blocks(j) /\ ~Absent(j)
  BY <1>1, <1>2, OnePlace DEF Blocks, Absent
<1>4. ChannelOf[j] \in Channels /\ c \in up
  BY <1>3, JobRunnerAssumption DEF Waits
<1>5. /\ d \in up /\ d # c
      /\ \A e \in up : d \in Ancestors[e] <=> e = c \/ c \in Ancestors[e]
  BY <1>1, <1>4, NextDownstream
<1>6. /\ \A e \in Channels : \A i : i \in queue'[e] <=> (i \in queue[e] /\ ~(i = j /\ e = c)) \/ (i = j /\ e = d)
      /\ \A e \in Channels : \A i : i \in running'[e] <=> i \in running[e] \/ (i = j /\ e = c)
      /\ queue' \in [Channels -> SUBSET Jobs] /\ running' \in [Channels -> SUBSET Jobs]
  BY <1>1, <1>2, <1>5 DEF Types
<1>7. ASSUME NEW e \in Channels
      PROVE  /\ j \in queue'[e] <=> e = d
             /\ j \in running'[e] <=> e \in up /\ d \in Ancestors[e]
             /\ j \notin failed'[e]
  BY <1>1, <1>3, <1>4, <1>5, <1>6 DEF Waits
<1>8. Waits(j, d)'
  BY <1>5, <1>7 DEF Waits
<1>9. \A i \in Jobs \ {j} : Stays(i)
  BY <1>1, <1>6 DEF Stays
<1>10. Placed' /\ BusyRuns' /\ Read'
  <2>1. state[j] \notin {"enqueued", "started"} /\ (j \notin notes => state[j] \notin {"failed", "done", "cancelled"})
    BY <1>2, <1>3 DEF BusyRuns, Read
  <2> QED BY <1>1, <1>8, <1>9, <2>1, Replaced
<1>11. NotOverfull'
  <2> SUFFICES ASSUME NEW e \in Channels, Capacity[e] # 0
               PROVE  Cardinality(running'[e]) <= Capacity[e]
    BY DEF NotOverfull
  <2>1. CASE e = c
    <3>1. running'[e] = running[c] \cup {j}
      BY <1>1, <1>2, <2>1 DEF Types
    <3> QED BY <1>1, <1>2, <2>1, <3>1, OneMoreRuns
  <2>2. CASE e # c
    <3>1. running'[e] = running[e]
      BY <1>1, <1>2, <2>2 DEF Types
    <3> QED BY <1>2, <3>1, FewerRun
  <2> QED BY <2>1, <2>2
<1>12. Types' /\ Performed'
  BY <1>1, <1>2, <1>6 DEF Types, Performed
<1> QED BY <1>10, <1>11, <1>12 DEF IInv

\* The root that yields a job: it runs everywhere, and its row becomes enqueued.
LEMMA RunJobKeeps ==
    ASSUME IInv, NEW j \in Jobs, RunJob(j)
    PROVE  IInv'
<1> DEFINE up == Up(ChannelOf[j])
<1>1. /\ HasCapacity(Root) /\ j \in queue[Root]
      /\ queue' = [queue EXCEPT ![Root] = @ \ {j}]
      /\ running' = [running EXCEPT ![Root] = @ \cup {j}]
      /\ state' = [state EXCEPT ![j] = "enqueued"]
      /\ requests' = [requests EXCEPT ![j] = @ + 1]
      /\ notes' = notes \cup {j} /\ stale' \subseteq Workers
      /\ UNCHANGED <<failed, job, tail, forced>>
  BY DEF RunJob, Written, IInv, Types
<1>2. Types /\ Placed /\ BusyRuns /\ Read /\ NotOverfull /\ Performed
  BY DEF IInv
<1>3. Root \in Channels /\ Ancestors[Root] = {}
  BY JobRunnerAssumption
<1>4. Waits(j, Root) /\ ~Runs(j)
  BY <1>1, <1>2, <1>3, OnePlace
<1>5. /\ \A e \in Channels : \A i : i \in queue'[e] <=> i \in queue[e] /\ ~(i = j /\ e = Root)
      /\ \A e \in Channels : \A i : i \in running'[e] <=> i \in running[e] \/ (i = j /\ e = Root)
      /\ queue' \in [Channels -> SUBSET Jobs] /\ running' \in [Channels -> SUBSET Jobs]
  BY <1>1, <1>2, <1>3 DEF Types
<1>6. \A e \in up : e \in Channels /\ (e = Root \/ Root \in Ancestors[e])
  BY JobRunnerAssumption, Tree
<1>7. ASSUME NEW e \in Channels
      PROVE  /\ j \notin queue'[e]
             /\ j \in running'[e] <=> e \in up
             /\ j \notin failed'[e]
  BY <1>1, <1>3, <1>4, <1>5, <1>6 DEF Waits
<1>8. Runs(j)'
  BY <1>7 DEF Runs
<1>9. ASSUME NEW i \in Jobs \ {j}
      PROVE  Stays(i) /\ state'[i] = state[i] /\ (i \notin notes' <=> i \notin notes)
  BY <1>1, <1>2, <1>5 DEF Stays, Types
<1>10. state'[j] = "enqueued" /\ j \in notes'
  BY <1>1, <1>2 DEF Types
<1>11. ASSUME NEW i \in Jobs \ {j}
       PROVE  /\ Runs(i) => Runs(i)'
              /\ Blocks(i) => Blocks(i)'
              /\ Absent(i) => Absent(i)'
              /\ \A c \in Channels : Waits(i, c) => Waits(i, c)'
  BY <1>9, SamePlace
<1>12. Placed'
  <2>1. ASSUME NEW i \in Jobs
        PROVE  Runs(i)' \/ Blocks(i)' \/ Absent(i)' \/ \E c \in Channels : Waits(i, c)'
    <3>1. CASE i = j
      BY <1>8, <3>1 DEF Runs
    <3>2. CASE i # j
      BY <1>2, <1>11, <3>2 DEF Placed
    <3> QED BY <3>1, <3>2
  <2> QED BY <2>1 DEF Placed
<1>13. BusyRuns'
  <2>1. ASSUME NEW i \in Jobs, state'[i] \in {"enqueued", "started"}
        PROVE  Runs(i)'
    <3>1. CASE i = j
      BY <1>8, <3>1 DEF Runs
    <3>2. CASE i # j
      BY <1>2, <1>9, <1>11, <2>1, <3>2 DEF BusyRuns
    <3> QED BY <3>1, <3>2
  <2> QED BY <2>1 DEF BusyRuns
<1>14. Read'
  <2>1. ASSUME NEW i \in Jobs \ notes'
        PROVE  /\ state'[i] = "pending" => \E c \in Channels : Waits(i, c)'
               /\ state'[i] = "failed" => Blocks(i)'
               /\ state'[i] \in {"done", "cancelled"} => Absent(i)'
    <3>1. i # j
      BY <1>10
    <3> QED BY <1>2, <1>9, <1>11, <3>1 DEF Read
  <2> QED BY <2>1 DEF Read
<1>15. NotOverfull'
  <2> SUFFICES ASSUME NEW e \in Channels, Capacity[e] # 0
               PROVE  Cardinality(running'[e]) <= Capacity[e]
    BY DEF NotOverfull
  <2>1. CASE e = Root
    <3>1. running'[e] = running[Root] \cup {j}
      BY <1>1, <1>2, <2>1 DEF Types
    <3> QED BY <1>1, <1>2, <2>1, <3>1, OneMoreRuns
  <2>2. CASE e # Root
    <3>1. running'[e] = running[e]
      BY <1>1, <1>2, <2>2 DEF Types
    <3> QED BY <1>2, <3>1, FewerRun
  <2> QED BY <2>1, <2>2
<1>16. Types'
  BY <1>1, <1>2, <1>5 DEF Types, States
<1>17. Performed'
  <2>1. state[j] # "started"
    BY <1>2, <1>4 DEF BusyRuns
  <2> QED BY <1>1, <1>2, <2>1 DEF Performed, Types
<1> QED BY <1>12, <1>13, <1>14, <1>15, <1>16, <1>17 DEF IInv

\* A lost connection: all jobs are forgotten and read again.
LEMMA ReinitializeKeeps == ASSUME IInv, Reinitialize PROVE IInv'
<1>1. /\ notes' = {}
      /\ queue' = [c \in Channels |-> {j \in Jobs : ChannelOf[j] = c /\ state[j] = "pending"}]
      /\ running' = [c \in Channels |-> {j \in Jobs : c \in Up(ChannelOf[j]) /\ state[j] \in {"enqueued", "started"}}]
      /\ failed' = [c \in Channels |-> {j \in Jobs : ChannelOf[j] = c /\ state[j] = "failed"}]
      /\ UNCHANGED <<state, requests, job, tail, stale, forced>>
  BY DEF Reinitialize
<1>2. Types /\ Placed /\ BusyRuns /\ Read /\ NotOverfull /\ Performed
  BY DEF IInv
<1>3. Types'
  BY <1>1, <1>2 DEF Types
<1>4. ASSUME NEW j \in Jobs
      PROVE  /\ state[j] = "pending" => Waits(j, ChannelOf[j])'
             /\ state[j] \in {"enqueued", "started"} => Runs(j)'
             /\ state[j] = "failed" => Blocks(j)'
             /\ state[j] \notin {"pending", "enqueued", "started", "failed"} => Absent(j)'
  <2>1. ChannelOf[j] \in Channels
    BY JobRunnerAssumption
  <2>2. /\ ChannelOf[j] \in Up(ChannelOf[j])
        /\ \A d \in Up(ChannelOf[j]) : ChannelOf[j] \notin Ancestors[d]
    BY <2>1, Tree DEF Up
  <2>3. ASSUME NEW d \in Channels
        PROVE  /\ j \in queue'[d] <=> ChannelOf[j] = d /\ state[j] = "pending"
               /\ j \in running'[d] <=> d \in Up(ChannelOf[j]) /\ state[j] \in {"enqueued", "started"}
               /\ j \in failed'[d] <=> ChannelOf[j] = d /\ state[j] = "failed"
    BY <1>1
  <2>4. CASE state[j] = "pending"
    BY <2>2, <2>3, <2>4 DEF Waits
  <2>5. CASE state[j] \in {"enqueued", "started"}
    BY <2>3, <2>5 DEF Runs
  <2>6. CASE state[j] = "failed"
    BY <2>3, <2>6 DEF Blocks
  <2>7. CASE state[j] \notin {"pending", "enqueued", "started", "failed"}
    BY <2>3, <2>7 DEF Absent
  <2> QED BY <2>4, <2>5, <2>6, <2>7
<1>5. \A j \in Jobs : ChannelOf[j] \in Channels
  BY JobRunnerAssumption
<1>6. Placed' /\ BusyRuns' /\ Read'
  BY <1>1, <1>4, <1>5 DEF Placed, BusyRuns, Read
<1>7. NotOverfull'
  <2> SUFFICES ASSUME NEW c \in Channels, Capacity[c] # 0
               PROVE  Cardinality(running'[c]) <= Capacity[c]
    BY DEF NotOverfull
  <2>1. running'[c] \subseteq running[c]
    BY <1>1, <1>2 DEF BusyRuns, Runs
  <2> QED BY <1>2, <2>1, FewerRun
<1>8. Performed'
  BY <1>1, <1>2 DEF Performed
<1> QED BY <1>3, <1>6, <1>7, <1>8 DEF IInv
-----------------------------------------------------------------------------
(* The steps that write rows *)

\* The runner hears of every row that is written, and none becomes one that
\* has to run.
LEMMA RowsKeep ==
    ASSUME IInv, UNCHANGED manager, state' \in [Jobs -> States], notes' \in SUBSET Jobs, notes \subseteq notes',
           \A j \in Jobs : state'[j] # state[j] => j \in notes',
           \A j \in Jobs : state'[j] \in {"enqueued", "started"} => state[j] \in {"enqueued", "started"}
    PROVE  Placed' /\ BusyRuns' /\ Read' /\ NotOverfull'
<1>1. Placed /\ BusyRuns /\ Read /\ NotOverfull
  BY DEF IInv
<1>2. ASSUME NEW j \in Jobs
      PROVE  /\ Runs(j) => Runs(j)'
             /\ Blocks(j) => Blocks(j)'
             /\ Absent(j) => Absent(j)'
             /\ \A c \in Channels : Waits(j, c) => Waits(j, c)'
  BY SamePlace DEF manager, Stays
<1>3. Placed'
  BY <1>1, <1>2 DEF Placed
<1>4. BusyRuns'
  BY <1>1, <1>2 DEF BusyRuns
<1>5. Read'
  <2>1. ASSUME NEW i \in Jobs \ notes'
        PROVE  /\ state'[i] = "pending" => \E c \in Channels : Waits(i, c)'
               /\ state'[i] = "failed" => Blocks(i)'
               /\ state'[i] \in {"done", "cancelled"} => Absent(i)'
    <3>1. i \in Jobs \ notes /\ state'[i] = state[i]
      OBVIOUS
    <3> QED BY <1>1, <1>2, <3>1 DEF Read
  <2> QED BY <2>1 DEF Read
<1>6. NotOverfull'
  BY <1>1 DEF NotOverfull, manager
<1> QED BY <1>3, <1>4, <1>5, <1>6

\* No row of a job that is performed is written but by its worker, or by hand.
LEMMA PerformedKeeps ==
    ASSUME Performed, job' = job, forced \subseteq forced',
           \A w \in Workers : job[w] \notin forced' \cup {NoJob} => state'[job[w]] = state[job[w]]
    PROVE  Performed'
BY DEF Performed

\* A job that is written again waits, for the runner or for its parents.
LEMMA RependedState == \A j : Repended(j) \in {"pending", "wait_dependencies"}
BY DEF Repended

\* One row written by someone who is not a worker.
LEMMA RowKeeps ==
    ASSUME IInv, UNCHANGED manager, NEW j \in Jobs, NEW new \in States \ {"enqueued", "started"},
           state' = [state EXCEPT ![j] = new], Written({j}, {}),
           job' = job, tail' = tail, requests' \in [Jobs -> Nat], forced' \subseteq Jobs, forced \subseteq forced',
           state[j] = "started" => j \in forced'
    PROVE  IInv'
<1>1. Types /\ Performed /\ BusyRuns
  BY DEF IInv
<1>2. /\ state' \in [Jobs -> States] /\ notes' = notes \cup {j} /\ notes' \in SUBSET Jobs /\ stale' \subseteq Workers
      /\ \A i \in Jobs : state'[i] = IF i = j THEN new ELSE state[i]
  BY <1>1 DEF Types, Written
<1>3. Types'
  BY <1>1, <1>2 DEF Types, manager
<1>4. Performed'
  <2>1. \A w \in Workers : job[w] \notin forced' \cup {NoJob} => job[w] # j
    BY <1>1 DEF Performed
  <2>2. \A w \in Workers : job[w] \in Jobs \cup {NoJob}
    BY <1>1 DEF Types
  <2> QED BY <1>1, <1>2, <2>1, <2>2, PerformedKeeps
<1>5. Placed' /\ BusyRuns' /\ Read' /\ NotOverfull'
  BY <1>2, RowsKeep
<1> QED BY <1>3, <1>4, <1>5 DEF IInv

\* A request that went away, with or without the row reset.
LEMMA ResetKeeps ==
    ASSUME IInv, UNCHANGED manager, NEW j \in Jobs, ResetIfEnqueued(j) \/ UNCHANGED <<state, notes, stale>>,
           UNCHANGED <<job, tail, forced>>, requests' \in [Jobs -> Nat]
    PROVE  IInv'
<1>1. CASE UNCHANGED <<state, notes, stale>>
  <2>1. Types /\ Performed
    BY DEF IInv
  <2>2. Types'
    BY <1>1, <2>1 DEF Types, manager
  <2>3. Placed' /\ BusyRuns' /\ Read' /\ NotOverfull'
    BY <1>1, <2>1, RowsKeep DEF Types
  <2>4. Performed'
    BY <1>1, <2>1 DEF Performed
  <2> QED BY <2>2, <2>3, <2>4 DEF IInv
<1>2. CASE state[j] = "enqueued" /\ state' = [state EXCEPT ![j] = "pending"] /\ Written({j}, {})
  <2>1. "pending" \in States \ {"enqueued", "started"}
    BY DEF States
  <2>2. forced' \subseteq Jobs /\ forced \subseteq forced'
    BY DEF IInv, Types
  <2> QED BY <1>2, <2>1, <2>2, RowKeeps
<1> QED BY <1>1, <1>2 DEF ResetIfEnqueued

\* What users, the garbage collector and requests without an answer write.
LEMMA OthersKeep ==
    ASSUME IInv, NEW j \in Jobs,
           Create(j) \/ TimeOut(j) \/ Refuse(j) \/ RequeueStuck(j) \/ Requeue(j) \/ SetCancelled(j)
    PROVE  IInv'
<1>1. Types
  BY DEF IInv
<1>2. /\ requests \in [Jobs -> Nat] /\ forced \subseteq Jobs /\ state[j] \in States
      /\ Repended(j) \in States \ {"enqueued", "started"} /\ "cancelled" \in States \ {"enqueued", "started"}
  BY <1>1, RependedState DEF Types, States
<1>3. CASE Create(j)
  <2>1. /\ state[j] = "none" /\ state' = [state EXCEPT ![j] = Repended(j)] /\ Written({j}, {})
        /\ UNCHANGED <<manager, requests, job, tail, forced>>
    BY <1>3 DEF Create
  <2> QED BY <1>2, <2>1, RowKeeps
<1>4. CASE TimeOut(j)
  BY <1>2, <1>4, ResetKeeps DEF TimeOut
<1>5. CASE Refuse(j)
  <2>1. requests' \in [Jobs -> Nat]
    <3>1. requests[j] - 1 \in Nat
      BY <1>2, <1>5 DEF Refuse
    <3> QED BY <1>2, <1>5, <3>1 DEF Refuse
  <2> QED BY <1>5, <2>1, ResetKeeps DEF Refuse
<1>6. CASE RequeueStuck(j)
  <2>1. /\ state[j] = "enqueued" /\ state' = [state EXCEPT ![j] = Repended(j)] /\ Written({j}, {})
        /\ UNCHANGED <<manager, requests, job, tail, forced>>
    BY <1>6 DEF RequeueStuck
  <2> QED BY <1>2, <2>1, RowKeeps
<1>7. CASE Requeue(j)
  <2>1. /\ state' = [state EXCEPT ![j] = Repended(j)] /\ Written({j}, {})
        /\ forced' = IF state[j] = "started" THEN forced \cup {j} ELSE forced
        /\ UNCHANGED <<manager, requests, job, tail>>
    BY <1>7 DEF Requeue
  <2>2. forced' \subseteq Jobs /\ forced \subseteq forced' /\ (state[j] = "started" => j \in forced')
    BY <1>2, <2>1
  <2> QED BY <1>2, <2>1, <2>2, RowKeeps
<1>8. CASE SetCancelled(j)
  <2>1. /\ state[j] # "started" /\ state' = [state EXCEPT ![j] = "cancelled"] /\ Written({j}, {})
        /\ UNCHANGED <<manager, requests, job, tail, forced>>
    BY <1>8 DEF SetCancelled
  <2> QED BY <1>2, <2>1, RowKeeps
<1> QED BY <1>3, <1>4, <1>5, <1>6, <1>7, <1>8
-----------------------------------------------------------------------------
(* The steps of a worker *)

\* A worker that takes a job: its row is enqueued, so that no other one has it.
LEMMA StartKeeps ==
    ASSUME IInv, NEW w \in Workers, NEW j \in Jobs, StartJob(w, j)
    PROVE  IInv'
<1>1. /\ job[w] = NoJob /\ requests[j] > 0 /\ requests' = [requests EXCEPT ![j] = @ - 1]
      /\ UNCHANGED <<manager, tail, forced>>
  BY DEF StartJob
<1>2. Types /\ Performed /\ BusyRuns
  BY DEF IInv
<1>3. requests' \in [Jobs -> Nat]
  <2>1. requests[j] - 1 \in Nat
    BY <1>1, <1>2 DEF Types
  <2> QED BY <1>1, <1>2, <2>1 DEF Types
<1>4. CASE state[j] = "enqueued"
  <2>1. /\ state' = [state EXCEPT ![j] = "started"] /\ job' = [job EXCEPT ![w] = j]
        /\ notes' = notes \cup {j} /\ stale' \subseteq Workers
    BY <1>2, <1>4 DEF StartJob, Written, Types
  <2>2. /\ state' \in [Jobs -> States] /\ notes' \in SUBSET Jobs /\ job' \in [Workers -> Jobs \cup {NoJob}]
        /\ \A i \in Jobs : state'[i] = IF i = j THEN "started" ELSE state[i]
        /\ \A v \in Workers : job'[v] = IF v = w THEN j ELSE job[v]
    BY <1>2, <2>1 DEF Types, States
  <2>3. Types'
    BY <1>1, <1>2, <1>3, <2>1, <2>2 DEF Types, manager
  <2>4. Placed' /\ BusyRuns' /\ Read' /\ NotOverfull'
    BY <1>1, <1>4, <2>1, <2>2, RowsKeep
  <2>5. ASSUME NEW v \in Workers, job'[v] \notin forced' \cup {NoJob}
        PROVE  state'[job'[v]] = "started" /\ \A u \in Workers \ {v} : job'[u] # job'[v]
    <3>1. \A u \in Workers : job[u] = j => j \in forced
      <4>1. j # NoJob
        BY JobRunnerAssumption
      <4> QED BY <1>2, <1>4, <4>1 DEF Performed
    <3>2. job'[v] \in Jobs /\ forced' = forced
      BY <1>1, <2>2, <2>5
    <3>3. CASE v = w
      BY <2>2, <2>5, <3>1, <3>2, <3>3
    <3>4. CASE v # w
      <4>1. job[v] = job'[v] /\ job[v] # j /\ state[job[v]] = "started" /\ \A u \in Workers \ {v} : job[u] # job[v]
        BY <1>2, <2>2, <2>5, <3>1, <3>2, <3>4 DEF Performed
      <4> QED BY <2>2, <3>2, <3>4, <4>1
    <3> QED BY <3>3, <3>4
  <2>6. Performed'
    BY <2>5 DEF Performed
  <2> QED BY <2>3, <2>4, <2>6 DEF IInv
<1>5. CASE state[j] # "enqueued"
  <2>1. UNCHANGED <<state, job, notes, stale>>
    BY <1>5 DEF StartJob
  <2> QED BY <1>1, <1>3, <2>1, ResetKeeps
<1> QED BY <1>4, <1>5

\* A worker that is done with a job, one way or another.
LEMMA FinishKeeps ==
    ASSUME IInv, NEW w \in Workers, NEW outcome \in States \ {"enqueued", "started"}, Finish(w, outcome),
           tail' \in [Workers -> Jobs \cup {NoJob}]
    PROVE  IInv'
<1> DEFINE j == job[w]
<1>1. Types /\ Performed /\ BusyRuns
  BY DEF IInv
<1>2. /\ j \in Jobs /\ state' = [state EXCEPT ![j] = outcome] /\ job' = [job EXCEPT ![w] = NoJob]
      /\ notes' = notes \cup {j} /\ stale' \subseteq Workers
      /\ UNCHANGED <<manager, requests, forced>>
  BY <1>1 DEF Finish, Written, Types
<1> HIDE DEF j
<1>3. /\ state' \in [Jobs -> States] /\ notes' \in SUBSET Jobs /\ job' \in [Workers -> Jobs \cup {NoJob}]
      /\ \A i \in Jobs : state'[i] = IF i = j THEN outcome ELSE state[i]
      /\ \A v \in Workers : job'[v] = IF v = w THEN NoJob ELSE job[v]
  BY <1>1, <1>2 DEF Types
<1>4. Types'
  BY <1>1, <1>2, <1>3 DEF Types, manager
<1>5. Placed' /\ BusyRuns' /\ Read' /\ NotOverfull'
  BY <1>2, <1>3, RowsKeep
<1>6. ASSUME NEW v \in Workers, job'[v] \notin forced' \cup {NoJob}
      PROVE  state'[job'[v]] = "started" /\ \A u \in Workers \ {v} : job'[u] # job'[v]
  <2>1. v # w /\ job'[v] = job[v] /\ forced' = forced
    BY <1>2, <1>3, <1>6
  <2>2. job[v] \in Jobs /\ state[job[v]] = "started" /\ \A u \in Workers \ {v} : job[u] # job[v]
    BY <1>1, <1>6, <2>1 DEF Performed, Types
  <2>3. job[v] # j
    BY <2>1, <2>2 DEF j
  <2>4. job[v] # NoJob
    BY <1>6, <2>1
  <2> QED BY <1>3, <2>1, <2>2, <2>3, <2>4
<1>7. Performed'
  BY <1>6 DEF Performed
<1> QED BY <1>4, <1>5, <1>7 DEF IInv

\* The jobs that waited for it are woken up.
LEMMA DependentsKeep == ASSUME IInv, NEW w \in Workers, EnqueueDependents(w) PROVE IInv'
<1>1. Types /\ Performed
  BY DEF IInv
<1>2. PICK ready \in SUBSET {c \in Jobs : state[c] = "wait_dependencies"} :
        /\ state' = [i \in Jobs |-> IF i \in ready THEN "pending" ELSE state[i]]
        /\ Written(ready, {})
        /\ tail' = [tail EXCEPT ![w] = NoJob]
        /\ UNCHANGED <<manager, requests, job, forced>>
  <2> DEFINE ready == {c \in Jobs : /\ tail[w] \in Parents[c] /\ state[c] = "wait_dependencies"
                                    /\ \A p \in Parents[c] : state[p] = "done"}
  <2>1. ready \in SUBSET {c \in Jobs : state[c] = "wait_dependencies"}
    OBVIOUS
  <2>2. /\ state' = [i \in Jobs |-> IF i \in ready THEN "pending" ELSE state[i]]
        /\ Written(ready, {})
        /\ tail' = [tail EXCEPT ![w] = NoJob]
        /\ UNCHANGED <<manager, requests, job, forced>>
    BY DEF EnqueueDependents
  <2> HIDE DEF ready
  <2> QED BY <2>1, <2>2
<1>3. /\ state' \in [Jobs -> States] /\ notes' = notes \cup ready /\ notes' \in SUBSET Jobs
      /\ stale' \subseteq Workers /\ tail' \in [Workers -> Jobs \cup {NoJob}]
      /\ \A i \in Jobs : state'[i] = IF i \in ready THEN "pending" ELSE state[i]
  BY <1>1, <1>2 DEF Types, Written, States
<1>4. Types'
  BY <1>1, <1>2, <1>3 DEF Types, manager
<1>5. Placed' /\ BusyRuns' /\ Read' /\ NotOverfull'
  BY <1>2, <1>3, RowsKeep
<1>6. Performed'
  <2>1. \A v \in Workers : job[v] \notin forced' \cup {NoJob} => state'[job[v]] = state[job[v]]
    <3> SUFFICES ASSUME NEW v \in Workers, job[v] \notin forced' \cup {NoJob}
                 PROVE  state'[job[v]] = state[job[v]]
      OBVIOUS
    <3>1. job[v] \in Jobs /\ state[job[v]] = "started"
      BY <1>1, <1>2 DEF Types, Performed
    <3>2. job[v] \notin ready
      BY <3>1
    <3> QED BY <1>3, <3>1, <3>2
  <2> QED BY <1>1, <1>2, <2>1, PerformedKeeps
<1> QED BY <1>4, <1>5, <1>6 DEF IInv

\* A worker dies.
LEMMA DeathKeeps == ASSUME IInv, NEW w \in Workers, Die(w) PROVE IInv'
<1>1. Types /\ Performed
  BY DEF IInv
<1>2. /\ job' = [job EXCEPT ![w] = NoJob] /\ tail' = [tail EXCEPT ![w] = NoJob] /\ stale' = stale \ {w}
      /\ UNCHANGED <<state, notes, manager, requests, forced>>
  BY DEF Die
<1>3. Types'
  BY <1>1, <1>2 DEF Types, manager
<1>4. Placed' /\ BusyRuns' /\ Read' /\ NotOverfull'
  BY <1>1, <1>2, RowsKeep DEF Types
<1>5. Performed'
  <2>1. \A v \in Workers : job'[v] = IF v = w THEN NoJob ELSE job[v]
    BY <1>1, <1>2 DEF Types
  <2>2. ASSUME NEW v \in Workers, job'[v] \notin forced' \cup {NoJob}
        PROVE  state'[job'[v]] = "started" /\ \A u \in Workers \ {v} : job'[u] # job'[v]
    <3>1. v # w /\ job'[v] = job[v] /\ job[v] \notin forced \cup {NoJob}
      BY <1>2, <2>1, <2>2
    <3>2. state[job[v]] = "started" /\ \A u \in Workers \ {v} : job[u] # job[v]
      BY <1>1, <3>1 DEF Performed
    <3> QED BY <1>2, <2>1, <3>1, <3>2
  <2> QED BY <2>2 DEF Performed
<1> QED BY <1>3, <1>4, <1>5 DEF IInv
-----------------------------------------------------------------------------
\* There are no jobs at first.
LEMMA Initially == Init => IInv
<1> SUFFICES ASSUME Init PROVE IInv
  OBVIOUS
<1>1. /\ state = [j \in Jobs |-> "none"] /\ notes = {}
      /\ queue = [c \in Channels |-> {}] /\ running = [c \in Channels |-> {}] /\ failed = [c \in Channels |-> {}]
      /\ requests = [j \in Jobs |-> 0]
      /\ job = [w \in Workers |-> NoJob] /\ tail = [w \in Workers |-> NoJob]
      /\ stale = {} /\ forced = {}
  BY DEF Init
<1>2. Types
  BY <1>1 DEF Types, States
<1>3. Placed /\ BusyRuns /\ Read
  BY <1>1 DEF Placed, Absent, BusyRuns, Read
<1>4. NotOverfull
  <2> SUFFICES ASSUME NEW c \in Channels PROVE Cardinality(running[c]) <= Capacity[c]
    BY DEF NotOverfull
  <2>1. running[c] = {} /\ Capacity[c] \in Nat
    BY <1>1, JobRunnerAssumption
  <2> QED BY <2>1, FS_EmptySet
<1>5. Performed
  BY <1>1 DEF Performed
<1> QED BY <1>2, <1>3, <1>4, <1>5 DEF IInv

\* Every step keeps the invariant.
LEMMA Inductive == IInv /\ [Next]_vars => IInv'
<1> SUFFICES ASSUME IInv, [Next]_vars PROVE IInv'
  OBVIOUS
<1>1. CASE Runner
  BY <1>1, NotificationKeeps, RunJobKeeps, PromotionKeeps DEF Runner
<1>2. CASE Reinitialize
  BY <1>2, ReinitializeKeeps
<1>3. ASSUME NEW j \in Jobs,
             Create(j) \/ TimeOut(j) \/ Refuse(j) \/ RequeueStuck(j) \/ Requeue(j) \/ SetCancelled(j)
      PROVE  IInv'
  BY <1>3, OthersKeep
<1>4. ASSUME NEW w \in Workers, Server(w) PROVE IInv'
  <2>1. Types /\ job[w] \in Jobs \cup {NoJob} /\ tail \in [Workers -> Jobs \cup {NoJob}]
    BY DEF IInv, Types
  <2>2. CASE \E j \in Jobs : StartJob(w, j)
    BY <2>2, StartKeeps
  <2>3. CASE Succeed(w)
    <3>1. Finish(w, "done") /\ tail' \in [Workers -> Jobs \cup {NoJob}]
      BY <2>1, <2>3 DEF Succeed
    <3>2. "done" \in States \ {"enqueued", "started"}
      BY DEF States
    <3> QED BY <3>1, <3>2, FinishKeeps
  <2>4. CASE EnqueueDependents(w)
    BY <2>4, DependentsKeep
  <2>5. CASE Postpone(w)
    <3>1. Finish(w, Repended(job[w])) /\ tail' = tail
      BY <2>5 DEF Postpone
    <3>2. Repended(job[w]) \in States \ {"enqueued", "started"}
      BY RependedState DEF States
    <3> QED BY <2>1, <3>1, <3>2, FinishKeeps
  <2>6. CASE Fail(w)
    <3>1. Finish(w, "failed") /\ tail' = tail /\ "failed" \in States \ {"enqueued", "started"}
      BY <2>6 DEF Fail, States
    <3> QED BY <2>1, <3>1, FinishKeeps
  <2> QED BY <1>4, <2>2, <2>3, <2>4, <2>5, <2>6 DEF Server
<1>5. ASSUME NEW w \in Workers, Die(w) PROVE IInv'
  BY <1>5, DeathKeeps
<1>6. CASE UNCHANGED vars
  <2>1. UNCHANGED manager /\ UNCHANGED <<state, notes, requests, job, tail, stale, forced>>
    BY <1>6 DEF vars
  <2>2. Types /\ Performed
    BY DEF IInv
  <2>3. Placed' /\ BusyRuns' /\ Read' /\ NotOverfull'
    BY <2>1, <2>2, RowsKeep DEF Types
  <2> QED BY <2>1, <2>2, <2>3 DEF IInv, Types, Performed, manager
<1> QED BY <1>1, <1>2, <1>3, <1>4, <1>5, <1>6 DEF Next

\* The invariant holds always.
LEMMA Invariant == Spec => []IInv
BY Initially, Inductive, PTL DEF Spec

\* Two workers never perform one job, unless it was requeued by hand.
THEOREM JobsArePerformedOnce == Spec => []OneWorkerPerJob
<1>1. IInv => OneWorkerPerJob
  BY DEF IInv, Performed, OneWorkerPerJob
<1> QED BY <1>1, Invariant, PTL

\* The jobs that are performed are different jobs of the root channel.
LEMMA FewPerform ==
    ASSUME IInv, Capacity[Root] # 0
    PROVE  Cardinality({w \in Workers : job[w] \notin forced \cup {NoJob}}) <= Capacity[Root]
<1> DEFINE performing == {w \in Workers : job[w] \notin forced \cup {NoJob}}
           f == [w \in performing |-> job[w]]
<1>1. Types /\ BusyRuns /\ NotOverfull /\ Performed /\ Root \in Channels
  BY JobRunnerAssumption DEF IInv
<1>2. ASSUME NEW w \in performing
      PROVE  job[w] \in running[Root] /\ \A v \in performing \ {w} : job[v] # job[w]
  <2>1. job[w] \in Jobs /\ state[job[w]] = "started" /\ \A v \in Workers \ {w} : job[v] # job[w]
    BY <1>1 DEF Performed, Types
  <2>2. Runs(job[w])
    BY <1>1, <2>1 DEF BusyRuns
  <2>3. Root \in Up(ChannelOf[job[w]])
    BY <2>1, JobRunnerAssumption, Tree
  <2> QED BY <1>1, <2>1, <2>2, <2>3 DEF Runs
<1>3. f \in Injection(performing, running[Root])
  BY <1>2 DEF Injection, IsInjective
<1>4. IsFiniteSet(running[Root]) /\ Cardinality(running[Root]) \in Nat
  BY <1>1, FiniteRunning
<1>5. Cardinality(performing) <= Cardinality(running[Root]) /\ Cardinality(performing) \in Nat
  BY <1>3, <1>4, FS_Injection, FS_CardinalityType
<1>6. Cardinality(running[Root]) <= Capacity[Root] /\ Capacity[Root] \in Nat
  BY <1>1, JobRunnerAssumption DEF NotOverfull
<1> QED BY <1>4, <1>5, <1>6

\* No channel is overfilled, and the server performs no more jobs than the root
\* has places.
THEOREM CapacityIsKept == Spec => []CapacityKept
<1>1. IInv => CapacityKept
  BY FewPerform DEF IInv, NotOverfull, CapacityKept
<1> QED BY <1>1, Invariant, PTL

\* The channels say what the rows say, wherever the last change was read.
THEOREM ChannelsFollowRows == Spec => []ChannelsMatchRows
<1>1. IInv => ChannelsMatchRows
  <2> SUFFICES ASSUME IInv, NEW j \in Jobs \ notes
               PROVE  LET up == Up(ChannelOf[j])
                          queued == {c \in up : j \in queue[c]}
                      IN /\ state[j] = "pending" =>
                              \E c \in up : /\ queued = {c} /\ j \notin running[c]
                                            /\ \A d \in up \ {c} : j \in running[d] <=> c \in Ancestors[d]
                         /\ state[j] \in {"enqueued", "started"} =>
                              queued = {} /\ \A c \in up : j \in running[c]
                         /\ state[j] \in {"done", "cancelled", "failed"} =>
                              queued = {} /\ \A c \in up : j \notin running[c]
    BY DEF ChannelsMatchRows
  <2> DEFINE up == Up(ChannelOf[j])
             queued == {c \in up : j \in queue[c]}
  <2>1. j \in Jobs /\ BusyRuns /\ Read
    BY DEF IInv
  <2>2. up \subseteq Channels
    BY JobRunnerAssumption, Tree
  <2>3. ASSUME state[j] = "pending"
        PROVE  \E c \in up : /\ queued = {c} /\ j \notin running[c]
                             /\ \A d \in up \ {c} : j \in running[d] <=> c \in Ancestors[d]
    <3>1. PICK c \in Channels : Waits(j, c)
      BY <2>1, <2>3 DEF Read
    <3>2. c \in up /\ c \notin Ancestors[c]
      BY <3>1, Tree DEF Waits
    <3>3. queued = {c} /\ j \notin running[c] /\ \A d \in up : j \in running[d] <=> c \in Ancestors[d]
      BY <2>2, <3>1, <3>2 DEF Waits
    <3> QED BY <3>2, <3>3
  <2>4. ASSUME state[j] \in {"enqueued", "started"}
        PROVE  queued = {} /\ \A c \in up : j \in running[c]
    BY <2>1, <2>2, <2>4 DEF BusyRuns, Runs
  <2>5. ASSUME state[j] \in {"done", "cancelled", "failed"}
        PROVE  queued = {} /\ \A c \in up : j \notin running[c]
    BY <2>1, <2>2, <2>5 DEF Read, Blocks, Absent
  <2> QED BY <2>3, <2>4, <2>5
<1> QED BY <1>1, Invariant, PTL
=============================================================================
