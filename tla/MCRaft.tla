------------------------------- MODULE MCRaft -------------------------------
(***************************************************************************)
(* The Raft backend, the cutover of the DynamoDB backend and the embedded  *)
(* metadata service on one bench: a behaviour exercises one of them.  The  *)
(* embedded service runs twice: with indexing and a failure, where rows    *)
(* are deleted before the third insert only; and without them.             *)
(***************************************************************************)
EXTENDS RaftService, DynamoCutover, EmbeddedMetadata

VARIABLE bench

raftBenchVars == <<bench, raftVars, cutoverVars, memoryVars>>

Symmetry == Permutations(Servers)

MCRaftInit ==
    /\ bench \in {"raft", "cutover", "memory", "deletes"}
    /\ RaftInit /\ CutoverInit /\ MemoryInit

MCRaftNext ==
    /\ \/ bench = "raft" /\ RaftNext /\ UNCHANGED <<cutoverVars, memoryVars>>
       \/ bench = "cutover" /\ CutoverNext /\ UNCHANGED <<raftVars, memoryVars>>
       \/ /\ bench = "memory" /\ MemoryNext /\ UNCHANGED <<raftVars, cutoverVars>>
          /\ made' < MaxRowsMade \/ kept' = 1 .. made'
       \/ /\ bench = "deletes" /\ MemoryNext /\ UNCHANGED <<raftVars, cutoverVars>>
          /\ indexJob' = IdleIndexJob /\ toggles' = 0
    /\ UNCHANGED bench

MCRaftSpec == MCRaftInit /\ [][MCRaftNext]_raftBenchVars

=============================================================================
