------------------------------- MODULE MCJobs -------------------------------
(* The graphs that are built, the cron runners that work one off, and the   *)
(* channels of the other runner: a behaviour is one of the three.           *)
EXTENDS MCJobQueue, JobGraph, JobChannels

CONSTANTS u1, u2, u3, root, sub

VARIABLE part

\* Three jobs of one channel, in the order of their names, over the root.
MCUuids == {u1, u2, u3}
MCRank == (u1 :> 1) @@ (u2 :> 2) @@ (u3 :> 3)
MCAncestors == (sub :> {root}) @@ (root :> {})
MCChannelOf == [u \in MCUuids |-> sub]

\* A sequential channel over a throttled root.
Options(capacity, sequential, throttle) ==
    [capacity |-> capacity, sequential |-> sequential, throttle |-> throttle]
MCConfigurations == {(root :> Options(1, FALSE, 2)) @@ (sub :> Options(1, TRUE, 0))}

jobsVars == <<part, vars, graphVars, channelVars>>

\* The parts that are not looked at stand still.
JobsInit == /\ part \in {"graph", "queue", "channels"}
            /\ Init /\ GraphInit /\ ChannelsInit
JobsNext == /\ UNCHANGED part
            /\ \/ part = "graph" /\ GraphNext /\ UNCHANGED <<vars, channelVars>>
               \/ part = "queue" /\ Next /\ UNCHANGED <<graphVars, channelVars>>
               \/ part = "channels" /\ ChannelsNext /\ UNCHANGED <<vars, graphVars>>
JobsSpec == JobsInit /\ [][JobsNext]_jobsVars
=============================================================================
