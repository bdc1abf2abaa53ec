------------------------------ MODULE JobGraph ------------------------------
(***************************************************************************)
(* How ivis_import_async turns jobs, chains and groups of jobs, connected  *)
(* with on_done(), into the edges between jobs that enqueue_waiting later  *)
(* follows.                                                                *)
(*                                                                         *)
(* Delayable, DelayableChain and DelayableGroup objects are numbered in    *)
(* the order of their creation; one is a part of at most one other.        *)
(***************************************************************************)
EXTENDS Naturals, Sequences, FiniteSets

CONSTANTS
    MaxNodes, MaxLinks, MaxParts    \* bounds: objects, calls of on_done, parts of one object

VARIABLES
    nodes,      \* nodes[n]: kind and parts of object n
    links,      \* <<x, y>>: x.on_done(y) was called
    delayed     \* the object delay() was called on, 0 before

graphVars == <<nodes, links, delayed>>

ASSUME JobGraphAssumption == {MaxNodes, MaxLinks, MaxParts} \subseteq Nat
-----------------------------------------------------------------------------
Ids == 1..Len(nodes)
JobIds == {n \in Ids : nodes[n].kind = "job"}
PartsOf(n) == {nodes[n].parts[i] : i \in 1..Len(nodes[n].parts)}
Follows(n) == {l[2] : l \in {k \in links : k[1] = n}}

\* All pairs connected by a path of arrows; each round doubles the length of the paths found.
Closure(pairs) ==
    LET grown[n \in 0..Len(nodes)] ==
          IF n = 0 THEN pairs
          ELSE LET found == grown[n - 1] IN
               found \cup UNION {{<<a[1], b[2]>> : b \in {d \in found : d[1] = a[2]}} : a \in found}
    IN grown[(Len(nodes) + 1) \div 2]

\* _head() and _tail(): the jobs that edges to and from an object are drawn at,
\* from those of its parts. (A chain asks its first part for its tail, and its
\* last one for its head.) Variant: a group answers for one of its parts.
EndsFrom_FirstOfGroup(n, ends) ==
    LET parts == nodes[n].parts IN
    CASE nodes[n].kind = "job"   -> [head |-> {n}, tail |-> {n}]
      [] nodes[n].kind = "chain" -> [head |-> ends[parts[1]].tail,
                                     tail |-> ends[parts[Len(parts)]].head]
      [] nodes[n].kind = "group" -> ends[parts[1]]
EndsFrom(n, ends) ==
    LET parts == nodes[n].parts IN
    CASE nodes[n].kind = "job"   -> [head |-> {n}, tail |-> {n}]
      [] nodes[n].kind = "chain" -> [head |-> ends[parts[1]].tail,
                                     tail |-> ends[parts[Len(parts)]].head]
      [] nodes[n].kind = "group" -> [head |-> UNION {ends[p].head : p \in PartsOf(n)},
                                     tail |-> UNION {ends[p].tail : p \in PartsOf(n)}]
Ends == LET ends[n \in Ids] == EndsFrom(n, ends) IN ends

\* The objects and the edges of the graph that n itself keeps.
Arrows(n) ==
    LET s == nodes[n].parts IN
    CASE nodes[n].kind = "job"   -> {n} \X Follows(n)
      [] nodes[n].kind = "chain" -> {<<s[i], s[i + 1]>> : i \in 1..(Len(s) - 1)}
                                    \cup {s[Len(s)]} \X Follows(n)
      [] nodes[n].kind = "group" -> PartsOf(n) \X Follows(n)
VerticesOf(n) == (IF nodes[n].kind = "job" THEN {n} ELSE PartsOf(n)) \cup Follows(n)

\* The objects whose graphs _connect_graphs visits, starting from that of x.
Visited(x) == {x} \cup {p[2] : p \in {q \in Closure(UNION {{n} \X VerticesOf(n) : n \in Ids}) : q[1] = x}}

\* _merge_graph over all of them: every arrow becomes edges between jobs.
Edges(x) == LET ends == Ends IN
            UNION {ends[a[1]].tail \X ends[a[2]].head : a \in UNION {Arrows(n) : n \in Visited(x)}}

-----------------------------------------------------------------------------
GraphInit == nodes = <<>> /\ links = {} /\ delayed = 0

Building == delayed = 0
New(node) == Building /\ Len(nodes) < MaxNodes /\ nodes' = Append(nodes, node)
             /\ UNCHANGED <<links, delayed>>

\* Objects that are not yet part of another.
Tops == {n \in Ids : \A m \in Ids : n \notin PartsOf(m)}

NewJob == New([kind |-> "job", parts |-> <<>>])

Sequels(n) == {s \in UNION {[1..k -> Tops] : k \in 1..n} :
                 \A i, j \in DOMAIN s : i # j => s[i] # s[j]}

NewGroup(s) == New([kind |-> "group", parts |-> s])

NewChain(s) == New([kind |-> "chain", parts |-> s])

\* Jobs inside an object, and the pairs of jobs one of which must be done
\* before the other is run: what chain() and on_done() promise.
Inside == LET in[n \in Ids] == IF nodes[n].kind = "job" THEN {n}
                               ELSE UNION {in[p] : p \in PartsOf(n)}
          IN in
Promised ==
    LET in == Inside
        next(s) == {<<s[i], s[i + 1]>> : i \in 1..(Len(s) - 1)}
        chains == {n \in Ids : nodes[n].kind = "chain"}
    IN UNION {in[l[1]] \X in[l[2]] : l \in links \cup UNION {next(nodes[n].parts) : n \in chains}}

\* The graph is meant to be acyclic: y does not come before x, nor overlap it.
OnDone(x, y) ==
    /\ Building /\ <<x, y>> \notin links /\ Cardinality(links) < MaxLinks
    /\ links' = links \cup {<<x, y>>}
    /\ LET in == Inside IN
       in[x] \cap in[y] = {} /\ (in[y] \X in[x]) \cap Closure(Promised) = {}
    /\ UNCHANGED <<nodes, delayed>>

\* delay() "must be called on the top-level object": all others are reached from it.
DelayGraph(x) ==
    /\ Building /\ Visited(x) = Ids
    /\ delayed' = x
    /\ UNCHANGED <<nodes, links>>

GraphNext ==
    \/ NewJob
    \/ \E s \in Sequels(MaxParts) : NewGroup(s) \/ NewChain(s)
    \/ \E x, y \in Ids : OnDone(x, y)
    \/ \E x \in Ids : DelayGraph(x)

GraphSpec == GraphInit /\ [][GraphNext]_graphVars
-----------------------------------------------------------------------------
\* The jobs an object begins and ends with, as it is meant: a chain begins with
\* its first part and ends with its last.
MeantFrom(n, ends) ==
    LET parts == nodes[n].parts IN
    CASE nodes[n].kind = "job"   -> [head |-> {n}, tail |-> {n}]
      [] nodes[n].kind = "chain" -> [head |-> ends[parts[1]].head,
                                     tail |-> ends[parts[Len(parts)]].tail]
      [] nodes[n].kind = "group" -> [head |-> UNION {ends[p].head : p \in PartsOf(n)},
                                     tail |-> UNION {ends[p].tail : p \in PartsOf(n)}]
MeantEnds == LET ends[n \in Ids] == MeantFrom(n, ends) IN ends

\* A chain of which it is the same where its first part begins or ends, and its last.
Plain(n) == LET s == nodes[n].parts
                meant == MeantEnds IN
            nodes[n].kind = "chain" =>
                \A p \in {s[1], s[Len(s)]} : meant[p].head = meant[p].tail

\* An object that is put into another, or after one.
Attached(n) == \E m \in Ids : n \in PartsOf(m) \cup Follows(m)

\* delay.py: the jobs of a chain are "executed sequentially", those of a group
\* concurrently, what on_done() connects is run "when the current chain [group]
\* is done".  No job waits for one that nothing put before it; and the edges
\* lead from every job that must be done first to every job that waits, unless
\* a chain that begins or ends with a chain (or with a group of them) is itself
\* put into or after another object (the docstring allows it; _head() and
\* _tail() mistake where it begins and ends).
OrderIsPromised ==
    delayed # 0 =>
        /\ Edges(delayed) \subseteq Closure(Promised)
        /\ (\A n \in Ids : Attached(n) => Plain(n)) => Promised \subseteq Closure(Edges(delayed))
=============================================================================
