----------------------------- MODULE MCCutover -----------------------------
(***************************************************************************)
(* The cutover on four benches: two nodes and a table that is not          *)
(* searched; one node and a table that is; and the same two with the       *)
(* nodes' own protocol (ServingNodes): two writers and a failure for the   *)
(* first, one writer and none for the second.                              *)
(***************************************************************************)
EXTENDS ServingNodes, FiniteSets, TLC

VARIABLE bench

Symmetry == Permutations(Nodes)

\* Where the nodes are Cutover's, what they have loaded is not looked at.
MCInit ==
  \/ bench \in {"table nodes", "search nodes"} /\ NodesInit
  \/ /\ bench \in {"table", "search"}
     /\ Init /\ IdleNodes /\ loaded = [n \in Nodes |-> 1 .. MaxCheckpoint]

\* A table that is not searched has no extension work and no search frontier.
Unsearched == ~esWork' /\ UNCHANGED selector["es"]

OneNode ==
  Cardinality(leases' \cup {n \in Nodes : tickets'[n] # {}}
                \cup UNION {selector'[e].view.required : e \in Extensions}) <= 1

OneWriter ==
  /\ lost' = 0
  /\ Cardinality({n \in Nodes : next_target'[n] # None \/ actor'[n].step = "committed"}) <= 1

MCNext ==
  /\ \/ bench = "table" /\ Next /\ Unsearched /\ UNCHANGED local
     \/ bench = "search" /\ Next /\ OneNode /\ UNCHANGED local
     \/ bench = "table nodes" /\ NodesNext /\ Unsearched
     \/ bench = "search nodes" /\ NodesNext /\ OneWriter
  /\ UNCHANGED bench

MCSpec == MCInit /\ [][MCNext]_<<nodeVars, bench>>
=============================================================================
