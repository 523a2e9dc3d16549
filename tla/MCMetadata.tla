----------------------------- MODULE MCMetadata -----------------------------
(***************************************************************************)
(* The two DynamoDB metadata backends: the control plane's and the serving *)
(* nodes' run different handlers on the same items, one backend per        *)
(* behaviour.  The crash happens to the control plane.  On a third bench   *)
(* a delete is committed while a compaction is in a worker's hands, and    *)
(* nothing is indexed.  The fourth runs the index routes on the registry.  *)
(***************************************************************************)
EXTENDS EmbeddedDynamo, MCIndex

VARIABLE bench

metadataVars == <<bench, vars, endpointVars>>

\* One table, two commits that together reach the compaction threshold.
TwoFiles == {<<"speedboat", 1>>, <<"speedboat", 2>>}
LateFile == {<<"delete", 1>>}

MCMetadataInit ==
    /\ bench \in {"dynamo", "embedded", "late", "index"}
    /\ Init
    /\ EndpointInit

\* Only the third bench commits the delete.
LateCommit ==
    /\ \A s \in Services : call'[s].step = "speedboat" /\ call'[s].arg = LateFile
                           => bench = "late" /\ compacting # {}
    /\ bench # "dynamo" => faults' = 0
    /\ bench = "late" => indexing' = {}

MCMetadataNext ==
    \/ bench \in {"dynamo", "late"} /\ Next /\ LateCommit /\ UNCHANGED <<bench, endpointVars>>
    \/ bench = "embedded" /\ EmbeddedNext /\ LateCommit /\ UNCHANGED <<bench, endpointVars>>
    \/ bench = "index" /\ EndpointNext /\ UNCHANGED <<bench, vars>>

MCMetadataSpec == MCMetadataInit /\ [][MCMetadataNext]_metadataVars

=============================================================================
