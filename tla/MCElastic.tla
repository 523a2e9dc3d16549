------------------------------ MODULE MCElastic ------------------------------
(***************************************************************************)
(* The Elasticsearch side and the caches below it on one bench: document   *)
(* writes, searches, the parsers of search requests, the cache of local    *)
(* tables and the caches of table metadata share no state in the models,   *)
(* so the bench runs one of them at a time; the others keep their initial  *)
(* values.                                                                 *)
(***************************************************************************)
EXTENDS MCIngest, MCSearch, RequestParsing, TableCache, MetadataCache

VARIABLE bench

elasticVars == <<bench, ingestVars, searchVars, parseVars, cacheVars, metadataVars>>

(* A search over two tables' files, one with its extension table and with  *)
(* deletes, and an index build over the first one's file.                  *)
MCCacheJobs ==
    {[name |-> "a", related |-> {"ax"}, size |-> 2, deletes |-> 2, builds |-> FALSE],
     [name |-> "a", related |-> {}, size |-> 1, deletes |-> 0, builds |-> TRUE],
     [name |-> "b", related |-> {"bx"}, size |-> 2, deletes |-> 0, builds |-> FALSE]}

MCDataFiles == [t \in {"t", "u"} |-> IF t = "t" THEN {"f", "g"} ELSE {"h"}]

MCElasticInit ==
    /\ bench \in {"ingest", "search", "parse", "tables", "metadata"}
    /\ IngestInit
    /\ IF bench = "search" THEN SearchInit ELSE SearchInit /\ published = [t \in SearchTables |-> 0]
    /\ ParseInit
    /\ CacheInit
    /\ MetadataInit
    /\ bench # "parse" => parser = "query_string" /\ default_operator = "OR"

MCElasticNext ==
    \/ bench = "ingest" /\ IngestNext /\ UNCHANGED <<bench, searchVars, parseVars, cacheVars, metadataVars>>
    \/ bench = "search" /\ SearchNext /\ UNCHANGED <<bench, ingestVars, parseVars, cacheVars, metadataVars>>
    \/ bench = "parse" /\ ParseNext /\ UNCHANGED <<bench, ingestVars, searchVars, cacheVars, metadataVars>>
    \/ bench = "tables" /\ CacheNext /\ UNCHANGED <<bench, ingestVars, searchVars, parseVars, metadataVars>>
    \/ bench = "metadata" /\ MetadataNext /\ UNCHANGED <<bench, ingestVars, searchVars, parseVars, cacheVars>>

MCElasticSpec == MCElasticInit /\ [][MCElasticNext]_elasticVars

=============================================================================
