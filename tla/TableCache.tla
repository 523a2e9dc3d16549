----------------------------- MODULE TableCache -----------------------------
(***************************************************************************)
(* The cache of local query tables (query_lib/src/data_access.rs).         *)
(*                                                                         *)
(* Every scan and every index build of a node runs SQL over tables that    *)
(* one actor, CacheTrackerActor, keeps in a shared DataFusion session.  A  *)
(* caller reserves a top-level table name (with the names of its extension *)
(* tables), asks for the tables to be loaded, plans its SQL and releases   *)
(* the name.  Reserving may push other names out of an LRU of bounded      *)
(* size; a name pushed out is dropped, with its extension tables, by the   *)
(* first Release that finds it without reservations.                       *)
(*                                                                         *)
(* The actor handles one message at a time, so a message is one action.    *)
(* Callers are futures: a failing sibling of a try_join_all, or a client   *)
(* that hangs up, drops them between two messages, and nothing releases    *)
(* what they hold.                                                         *)
(***************************************************************************)
EXTENDS Integers, FiniteSets, FiniteSetsExt

CONSTANTS
    CacheWorkers,     \* the callers: query file groups and index builds
    CacheJobs,        \* what a caller runs: [name, related, size, deletes, builds]
    Capacity,         \* the LRU's memory limit (2 GiB in the code)
    MaxAbandoned      \* bound: how many callers are dropped half-way

VARIABLES
    stale,                \* lru_cache: its names, 0 for the most recently used
    size,                 \* lru_cache: the size each of its names was given
    related,              \* related: the extension tables of a top-level name
    reservations,         \* reservations: how many callers hold a name
    top_level_to_delete,  \* top_level_to_delete: names the LRU pushed out
    existing_tables,      \* existing_tables, without the query-private ones
    scratch,              \* how many query-private delete tables exist
    panicked,             \* the actor task has panicked
    worker,               \* per caller: where it is and what it runs
    abandoned             \* how many callers were dropped half-way

cacheVars == <<stale, size, related, reservations, top_level_to_delete,
               existing_tables, scratch, panicked, worker, abandoned>>

JobNames == {j.name : j \in CacheJobs}

TablesOf(j) == {j.name} \cup j.related

CacheTables == UNION {TablesOf(j) : j \in CacheJobs}

(* Extension tables are named after their base table with a suffix, and no *)
(* caller reserves such a name as its own: searches ask for search_index   *)
(* and exact_index tables, and only exact_pruning tables are reserved by   *)
(* themselves.  A size is positive and fits the LRU (Reserve panics        *)
(* otherwise).                                                             *)
ASSUME CacheAssumption ==
    /\ IsFiniteSet(CacheWorkers)
    /\ Capacity \in Nat
    /\ \A j \in CacheJobs :
          /\ j.size \in 1..Capacity
          /\ j.deletes \in Nat
          /\ j.builds => j.related = {} /\ j.deletes = 0
          /\ j.related \cap JobNames = {}
          /\ \A k \in CacheJobs : k.name # j.name => j.related \cap k.related = {}

IdleWorker == [step |-> "idle"]

(* A caller holds a reservation from its Reserve to its Release.           *)
HoldingSteps == {"load", "query", "release"}

Holders(n) == {w \in CacheWorkers : worker[w].step \in HoldingSteps /\ worker[w].job.name = n}

CacheInit ==
    /\ stale = [n \in {} |-> 0]
    /\ size = [n \in {} |-> 0]
    /\ related = [n \in JobNames |-> {}]
    /\ reservations = [n \in {} |-> 0]
    /\ top_level_to_delete = {}
    /\ existing_tables = {}
    /\ scratch = 0
    /\ panicked = FALSE
    /\ worker = [w \in CacheWorkers |-> IdleWorker]
    /\ abandoned = 0

-----------------------------------------------------------------------------
(* increment_reservation *)
Incremented(n) ==
    [m \in DOMAIN reservations \cup {n} |->
        IF m # n THEN reservations[m]
        ELSE IF n \in DOMAIN reservations THEN reservations[n] + 1 ELSE 1]

(* decrement_reservation, for a name that is there. *)
Decremented(n) == [reservations EXCEPT ![n] = @ - 1]

(* The names the LRU keeps when `n` of size `s` comes in: `n` itself leaves *)
(* first (OccupiedEntry), then the least recently used ones until it fits  *)
(* (WouldEjectLru, remove_lru).  An index build's nominal size replaces    *)
(* the real one of an earlier reservation.                                 *)
Kept(n, s) ==
    LET others == DOMAIN stale \ {n}
        Newest(k) == {m \in others : stale[m] < k}
        Fits(k) == MapThenSumSet(LAMBDA m : size[m], Newest(k)) + s <= Capacity
    IN  {m \in others : \E k \in 1..(Cardinality(DOMAIN stale) + 1) : stale[m] < k /\ Fits(k)}

(* try_insert after the removals: `n` becomes the most recently used.      *)
Touched(n, kept) ==
    [m \in kept \cup {n} |->
        IF m = n THEN 0
        ELSE IF n \in DOMAIN stale /\ stale[n] < stale[m] THEN stale[m] ELSE stale[m] + 1]

Resized(n, s, kept) == [m \in kept \cup {n} |-> IF m = n THEN s ELSE size[m]]

(* A slip: a name whose tables are in use is pushed out and forgotten.     *)
ForgetsReserved(n, kept) ==
    {m \in DOMAIN stale \ (kept \cup {n}) : m \notin DOMAIN reservations \/ reservations[m] = 0}

(* The names remove_lru returned.                                          *)
Evicted(n, kept) == DOMAIN stale \ (kept \cup {n})

Reserved(res, n) == n \in DOMAIN res /\ res[n] # 0

(* What a Release drops: the evicted names nobody holds any more, with     *)
(* their extension tables.                                                 *)
Unheld(res) == {n \in top_level_to_delete : ~ Reserved(res, n)}

(* A slip: the extension tables of a held name go as soon as it is evicted. *)
DropsExtensions(res) == Unheld(res) \cup UNION {related[n] : n \in top_level_to_delete}

Dropped(res) == Unheld(res) \cup UNION {related[n] : n \in Unheld(res)}

Without(res, names) == [m \in DOMAIN res \ names |-> res[m]]

(* drop: its assertion compares the tables that are left with the          *)
(* reservations that are left.  The names are dropped one after the other; *)
(* the order of the Vec is left open, so the assertion may be met after    *)
(* any part of the names.                                                  *)
DropAsserts(res, names) ==
    Cardinality(existing_tables \ names) + scratch >= Cardinality(DOMAIN res \ names)

-----------------------------------------------------------------------------
(* execute_query_plan_batches: the tables of the delete files and their    *)
(* union come first, under names of their own; when one of them cannot be  *)
(* loaded the call ends and the ones before it stay.                       *)
StartQuery(w, j) ==
    /\ ~ panicked
    /\ worker[w].step = "idle"
    /\ ~ j.builds
    /\ \/ /\ scratch' = scratch + j.deletes
          /\ worker' = [worker EXCEPT ![w] = [step |-> "reserve", job |-> j]]
          /\ UNCHANGED abandoned
       \/ /\ abandoned < MaxAbandoned
          /\ \E made \in 0..(j.deletes - 1) : scratch' = scratch + made
          /\ abandoned' = abandoned + 1
          /\ UNCHANGED worker
    /\ UNCHANGED <<stale, size, related, reservations, top_level_to_delete, existing_tables,
                   panicked>>

(* create_index_jsonl and its siblings, for a file without such an index:  *)
(* they reserve the file's own table under a nominal size.                 *)
StartIndexBuild(w, j) ==
    /\ ~ panicked
    /\ worker[w].step = "idle"
    /\ j.builds
    /\ worker' = [worker EXCEPT ![w] = [step |-> "reserve", job |-> j]]
    /\ UNCHANGED <<stale, size, related, reservations, top_level_to_delete, existing_tables,
                   scratch, panicked, abandoned>>

(* CacheTrackerActorMessage::Reserve *)
Reserve(w) ==
    /\ ~ panicked
    /\ worker[w].step = "reserve"
    /\ LET j == worker[w].job
           kept == Kept(j.name, j.size)
       IN  /\ reservations' = Incremented(j.name)
           /\ stale' = Touched(j.name, kept)
           /\ size' = Resized(j.name, j.size, kept)
           /\ top_level_to_delete' = top_level_to_delete \cup Evicted(j.name, kept)
           /\ related' = [related EXCEPT ![j.name] = @ \cup j.related]
           /\ worker' = [worker EXCEPT ![w] = [step |-> "load", job |-> j, pending |-> TablesOf(j)]]
    /\ UNCHANGED <<existing_tables, scratch, panicked, abandoned>>

(* The table to load next: the base table before its extensions.           *)
NextTables(w) ==
    IF worker[w].job.name \in worker[w].pending THEN {worker[w].job.name} ELSE worker[w].pending

(* CreateTable, CreateMultiTable: an existing table is left alone, a new   *)
(* one is tracked; an error makes the caller release what it reserved.     *)
LoadTable(w) ==
    /\ ~ panicked
    /\ worker[w].step = "load"
    /\ \E t \in NextTables(w) :
          \/ LET left == worker[w].pending \ {t}
             IN  /\ existing_tables' = existing_tables \cup {t}
                 /\ worker' = [worker EXCEPT ![w] =
                                  [step |-> IF left = {} THEN "query" ELSE "load",
                                   job |-> worker[w].job, pending |-> left]]
          \/ /\ t \notin existing_tables
             /\ worker' = [worker EXCEPT ![w] = [step |-> "release", job |-> worker[w].job]]
             /\ UNCHANGED existing_tables
    /\ UNCHANGED <<stale, size, related, reservations, top_level_to_delete, scratch, panicked,
                   abandoned>>

(* ExecuteSql: the plan is built against the session's tables; running it  *)
(* afterwards needs the files only.  Either way the caller releases next.  *)
ExecuteSql(w) ==
    /\ ~ panicked
    /\ worker[w].step = "query"
    /\ worker' = [worker EXCEPT ![w] = [step |-> "release", job |-> worker[w].job]]
    /\ UNCHANGED <<stale, size, related, reservations, top_level_to_delete, existing_tables,
                   scratch, panicked, abandoned>>

(* CacheTrackerActorMessage::Release *)
Release(w) ==
    /\ ~ panicked
    /\ worker[w].step = "release"
    /\ LET j == worker[w].job
           res == Decremented(j.name)
       IN  IF j.name \notin DOMAIN reservations
           THEN /\ panicked' = TRUE
                /\ UNCHANGED <<reservations, top_level_to_delete, existing_tables, related, worker>>
           ELSE /\ reservations' = Without(res, Dropped(res))
                /\ existing_tables' = existing_tables \ Dropped(res)
                /\ top_level_to_delete' = top_level_to_delete \ Unheld(res)
                /\ related' = [n \in JobNames |-> IF n \in Unheld(res) THEN {} ELSE related[n]]
                /\ panicked' \in {~ DropAsserts(res, names) : names \in
                                     IF Dropped(res) = {} THEN {{}} ELSE SUBSET Dropped(res) \ {{}}}
                /\ worker' = [worker EXCEPT ![w] = [step |-> "drop", job |-> j]]
    /\ UNCHANGED <<stale, size, scratch, abandoned>>

(* data_access::drop (TableDropped) of the query-private tables.           *)
TableDropped(w) ==
    /\ ~ panicked
    /\ worker[w].step = "drop"
    /\ scratch' = scratch - worker[w].job.deletes
    /\ worker' = [worker EXCEPT ![w] = IdleWorker]
    /\ UNCHANGED <<stale, size, related, reservations, top_level_to_delete, existing_tables,
                   panicked, abandoned>>

(* The caller's future is dropped: what it holds is never released.  The   *)
(* answer to an ExecuteSql nobody waits for panics the actor               *)
(* (respond_to.send(..).expect(..)); the other answers are sent with       *)
(* `let _ =`.                                                              *)
Abandon(w) ==
    /\ ~ panicked
    /\ abandoned < MaxAbandoned
    /\ worker[w].step # "idle"
    /\ panicked' = (worker[w].step = "query")
    /\ worker' = [worker EXCEPT ![w] = IdleWorker]
    /\ abandoned' = abandoned + 1
    /\ UNCHANGED <<stale, size, related, reservations, top_level_to_delete, existing_tables,
                   scratch>>

CacheNext ==
    \E w \in CacheWorkers :
        \/ \E j \in CacheJobs : StartQuery(w, j) \/ StartIndexBuild(w, j)
        \/ Reserve(w)
        \/ LoadTable(w)
        \/ ExecuteSql(w)
        \/ Release(w)
        \/ TableDropped(w)
        \/ Abandon(w)

CacheSpec == CacheInit /\ [][CacheNext]_cacheVars

-----------------------------------------------------------------------------
(* A caller's name is counted in the reservations at least as often as it  *)
(* is held, whatever is evicted, dropped or abandoned meanwhile, so no     *)
(* Release meets a missing reservation (the panic of                       *)
(* decrement_reservation) and no drop frees a held name.                   *)
HoldersAreReserved ==
    \A w \in CacheWorkers : worker[w].step \in HoldingSteps =>
        LET n == worker[w].job.name
        IN  n \in DOMAIN reservations /\ Cardinality(Holders(n)) <= reservations[n]

(* The tables a caller loaded are still in the session when its SQL is     *)
(* planned, however many reservations and releases of others came in       *)
(* between: an eviction waits for the reservation (Reserve, Release).      *)
LoadedTablesStay ==
    \A w \in CacheWorkers : worker[w].step \in {"load", "query"} =>
        TablesOf(worker[w].job) \ worker[w].pending \subseteq existing_tables

(* No table escapes the cache's accounting: every table in the session is  *)
(* a name of the LRU or one that waits to be dropped, or an extension      *)
(* table recorded under such a name, so it can still be dropped.           *)
TablesAreAccounted ==
    LET tracked == DOMAIN stale \cup top_level_to_delete
    IN  existing_tables \subseteq tracked \cup UNION {related[n] : n \in tracked \cap JobNames}

(* A caller that holds a reservation keeps it and the tables it loaded.    *)
HeldTablesStay == HoldersAreReserved /\ LoadedTablesStay

=============================================================================
