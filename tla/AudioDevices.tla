---------------------------- MODULE AudioDevices ----------------------------
(***************************************************************************)
(* AudioDevicesWatcher: the sinks and sources of PipeWire.  Its loop       *)
(* thread follows the registry and the nodes; the poll of the main thread  *)
(* takes a snapshot whenever a node has come, gone or changed.  PipeWire   *)
(* is external.                                                            *)
(*                                                                         *)
(* What a node's info event carries is a class and a version of the rest.  *)
(***************************************************************************)
EXTENDS Parts

CONSTANTS
  Classes,    \* media classes of nodes
  MaxNodes,   \* bound: nodes that appear
  MaxInfos    \* bound: changes of nodes

VARIABLES
  nodeGraph,     \* the nodes PipeWire has: their class and version, and the
                 \* class they were announced with
  appeared,      \* nodes that have appeared
  infos,         \* changes so far
  sent,          \* what PipeWire sent to the loop thread
  nodes,         \* mNodes
  topologyChanged,  \* mTopologyChanged
  devices        \* mDevices of the model

audioGraph == <<nodeGraph, appeared, infos>>
followed == <<nodes, topologyChanged>>
audioDevices == <<audioGraph, followed, sent, devices>>

IsSink(c)   == c \in {"Audio/Sink", "Audio/Sink/Virtual"}
IsSource(c) == c \in {"Audio/Source", "Audio/Source/Virtual"}
Audible(c)  == IsSink(c) \/ IsSource(c)

-----------------------------------------------------------------------------
(* PipeWire.                                                               *)

Info(n, c, v) == [kind |-> "node info", node |-> n, class |-> c, version |-> v]

\* A node appears, and its first info event follows.
NodeAppears(c) ==
  /\ appeared < MaxNodes
  /\ appeared' = appeared + 1
  /\ nodeGraph' = [n \in DOMAIN nodeGraph \cup {appeared'} |->
                 IF n = appeared' THEN [class |-> c, version |-> 1, announced |-> c]
                 ELSE nodeGraph[n]]
  /\ sent' = sent \o <<[kind |-> "node", node |-> appeared', class |-> c],
                       Info(appeared', c, 1)>>
  /\ UNCHANGED <<infos, followed, devices>>

NodeDisappears(n) ==
  /\ nodeGraph' = [m \in DOMAIN nodeGraph \ {n} |-> nodeGraph[m]]
  /\ sent' = Append(sent, [kind |-> "node removed", node |-> n])
  /\ UNCHANGED <<appeared, infos, followed, devices>>

NodeChanges(n, c) ==
  /\ infos < MaxInfos
  /\ infos' = infos + 1
  /\ nodeGraph' = [nodeGraph EXCEPT ![n] = [class |-> c, version |-> 1 + infos',
                                              announced |-> @.announced]]
  /\ sent' = Append(sent, Info(n, c, 1 + infos'))
  /\ UNCHANGED <<appeared, followed, devices>>

-----------------------------------------------------------------------------
(* The loop thread.                                                        *)

Received(kind) == sent # <<>> /\ Head(sent).kind = kind /\ sent' = Tail(sent)

NodeEventGlobal ==
  /\ Received("node")
  /\ LET e == Head(sent) IN
       IF ~Audible(e.class) THEN UNCHANGED <<nodes, topologyChanged>>
       ELSE /\ nodes' = [n \in DOMAIN nodes \cup {e.node} |->
                          IF n = e.node
                          THEN [class |-> e.class, version |-> 0, dirty |-> TRUE]
                          ELSE nodes[n]]
            /\ topologyChanged' = TRUE
  /\ UNCHANGED <<audioGraph, devices>>

NodeEventGlobalRemove ==
  /\ Received("node removed")
  /\ LET n == Head(sent).node IN
       IF n \notin DOMAIN nodes THEN UNCHANGED <<nodes, topologyChanged>>
       ELSE /\ nodes' = [m \in DOMAIN nodes \ {n} |-> nodes[m]]
            /\ topologyChanged' = TRUE
  /\ UNCHANGED <<audioGraph, devices>>

NodeEventInfo ==
  /\ Received("node info")
  /\ LET e == Head(sent) IN
       nodes' = IF e.node \notin DOMAIN nodes THEN nodes
                ELSE [nodes EXCEPT ![e.node] = [class |-> e.class, version |-> e.version,
                                                dirty |-> TRUE]]
  /\ UNCHANGED <<topologyChanged, audioGraph, devices>>

-----------------------------------------------------------------------------
(* The main thread.                                                        *)

\* A sink gives two entries, itself and its monitor.
Snapshot(N) ==
  LET entry(n, c, m) == [node |-> n, version |-> N[n].version, class |-> c, monitor |-> m]
      sinks == {n \in DOMAIN N : IsSink(N[n].class)}
  IN {entry(n, "sink", FALSE) : n \in sinks} \cup {entry(n, "source", TRUE) : n \in sinks}
     \cup {entry(n, "source", FALSE) : n \in {m \in DOMAIN N : IsSource(N[m].class)}}

PollDevices ==
  /\ topologyChanged' = FALSE
  /\ nodes' = [n \in DOMAIN nodes |-> [nodes[n] EXCEPT !.dirty = FALSE]]
  /\ devices' = IF topologyChanged \/ \E n \in DOMAIN nodes : nodes[n].dirty
                THEN Snapshot(nodes) ELSE devices
  /\ UNCHANGED <<audioGraph, sent>>

-----------------------------------------------------------------------------
DevicesInit ==
  /\ nodeGraph = <<>> /\ appeared = 0 /\ infos = 0 /\ sent = <<>>
  /\ nodes = <<>> /\ topologyChanged = TRUE /\ devices = {}

DevicesNext ==
  \/ \E c \in Classes : NodeAppears(c) \/ \E n \in DOMAIN nodeGraph : NodeChanges(n, c)
  \/ \E n \in DOMAIN nodeGraph : NodeDisappears(n)
  \/ NodeEventGlobal \/ NodeEventGlobalRemove \/ NodeEventInfo
  \/ PollDevices

-----------------------------------------------------------------------------
(* Properties.                                                             *)

DevicesTypeOK ==
  /\ DOMAIN nodes \subseteq 1 .. appeared
  /\ \A n \in DOMAIN nodes : nodes[n] \in [class : Classes, version : Nat, dirty : BOOLEAN]
  /\ topologyChanged \in BOOLEAN

\* Types are correct, and once all is handled and polled the nodes followed are
\* those that exist and were sinks or sources when announced, and the entries
\* shown are theirs, in the state PipeWire has them in, although a node that went
\* leaves no dirty flag behind.  A node that becomes a sink later is not shown.
DevicesMirror ==
  /\ DevicesTypeOK
  /\ sent = <<>> /\ ~topologyChanged /\ (\A n \in DOMAIN nodes : ~nodes[n].dirty) =>
       LET heard == {n \in DOMAIN nodeGraph : Audible(nodeGraph[n].announced)} IN
       /\ DOMAIN nodes = heard
       /\ devices = Snapshot([n \in heard |-> nodeGraph[n]])
=============================================================================
