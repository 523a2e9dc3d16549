-------------------------- MODULE TableCacheProofs --------------------------
(***************************************************************************)
(* The cache of local query tables, for every set of callers and jobs and  *)
(* every capacity: a caller keeps its reservation and the tables it loaded *)
(* until it releases them, and no table escapes the cache's accounting.    *)
(*                                                                         *)
(* CacheInv adds to the three properties what carries them from Reserve to *)
(* Release: the extension tables a holder asked for are recorded under its *)
(* name, and that name is in the LRU or waits to be dropped.               *)
(***************************************************************************)
EXTENDS TableCache, FiniteSetTheorems, TLAPS

Steps == {"idle", "reserve", "load", "query", "release", "drop"}

CallerTyped(w) ==
    /\ worker[w].step \in Steps
    /\ worker[w].step # "idle" => worker[w].job \in CacheJobs
    /\ worker[w].step \in {"load", "query"} => worker[w].pending \subseteq TablesOf(worker[w].job)

CacheTyped ==
    /\ worker = [w \in CacheWorkers |-> worker[w]]
    /\ \A w \in CacheWorkers : CallerTyped(w)
    /\ reservations = [n \in DOMAIN reservations |-> reservations[n]]
    /\ \A n \in DOMAIN reservations : reservations[n] \in Nat
    /\ related = [n \in JobNames |-> related[n]]
    /\ \A n \in JobNames : related[n] \subseteq UNION {j.related : j \in {k \in CacheJobs : k.name = n}}
    /\ DOMAIN stale \cup top_level_to_delete \subseteq JobNames

Held(w) == worker[w].step \in HoldingSteps

Tracked == DOMAIN stale \cup top_level_to_delete

HoldersAreRecorded ==
    \A w \in CacheWorkers : Held(w) =>
        /\ worker[w].job.related \subseteq related[worker[w].job.name]
        /\ worker[w].job.name \in Tracked

CacheInv ==
    /\ CacheTyped
    /\ HoldersAreReserved
    /\ HoldersAreRecorded
    /\ LoadedTablesStay
    /\ TablesAreAccounted

(* Initially nobody holds anything and there is no table.                  *)
LEMMA CacheInitInv == CacheInit => CacheInv
<1> SUFFICES ASSUME CacheInit PROVE CacheInv
  OBVIOUS
<1>1. \A w \in CacheWorkers : worker[w].step = "idle"
  BY DEF CacheInit, IdleWorker
<1>2. CacheTyped
  BY <1>1 DEF CacheInit, CacheTyped, CallerTyped, Steps
<1>3. HoldersAreReserved /\ HoldersAreRecorded /\ LoadedTablesStay
  BY <1>1 DEF HoldersAreReserved, HoldersAreRecorded, LoadedTablesStay, HoldingSteps, Held
<1>4. TablesAreAccounted
  BY DEF CacheInit, TablesAreAccounted
<1> QED
  BY <1>2, <1>3, <1>4 DEF CacheInv

(* The name of a job is a name, and its extension tables are no names and  *)
(* belong to no other name: what CacheAssumption says of the jobs.         *)
LEMMA JobFacts ==
  ASSUME NEW j \in CacheJobs
  PROVE  /\ j.name \in JobNames
         /\ j.related \cap JobNames = {}
         /\ \A k \in CacheJobs : k.name # j.name => j.related \cap k.related = {}
BY CacheAssumption DEF JobNames

(* A caller that goes on without Reserve or Release, with its holding      *)
(* status as it was, disturbs nothing if the tables it counts as loaded    *)
(* are there (StartQuery, StartIndexBuild, LoadTable, ExecuteSql,          *)
(* TableDropped).                                                          *)
LEMMA CallerMoves ==
  ASSUME CacheInv, NEW w \in CacheWorkers, NEW new,
         worker' = [worker EXCEPT ![w] = new],
         new.step \in Steps,
         new.step # "idle" => new.job \in CacheJobs,
         (new.step \in HoldingSteps) <=> Held(w),
         Held(w) => new.job = worker[w].job,
         new.step \in {"load", "query"} =>
            /\ new.pending \subseteq TablesOf(new.job)
            /\ TablesOf(new.job) \ new.pending \subseteq existing_tables',
         existing_tables \subseteq existing_tables',
         existing_tables' = existing_tables
            \/ \E t \in TablesOf(worker[w].job) :
                  Held(w) /\ existing_tables' = existing_tables \cup {t},
         UNCHANGED <<stale, related, reservations, top_level_to_delete>>
  PROVE  CacheInv'
<1>1. /\ worker' = [v \in CacheWorkers |-> worker'[v]]
      /\ \A v \in CacheWorkers : worker'[v] = IF v = w THEN new ELSE worker[v]
  BY DEF CacheInv, CacheTyped
<1>2. CacheTyped'
  BY <1>1 DEF CacheInv, CacheTyped, CallerTyped
<1>3. \A n : Holders(n)' = Holders(n)
  BY <1>1 DEF Holders, Held
<1>4. \A v \in CacheWorkers : Held(v)' <=> Held(v)
  BY <1>1 DEF Held
<1>5. \A v \in CacheWorkers : Held(v) => worker'[v].job = worker[v].job
  BY <1>1
<1>6. HoldersAreReserved'
  BY <1>3, <1>4, <1>5 DEF CacheInv, HoldersAreReserved, Held
<1>7. HoldersAreRecorded'
  BY <1>4, <1>5 DEF CacheInv, HoldersAreRecorded, Tracked
<1>8. LoadedTablesStay'
  BY <1>1 DEF CacheInv, LoadedTablesStay
<1>9. TablesAreAccounted'
  <2>1. CASE existing_tables' = existing_tables
    BY <2>1 DEF CacheInv, TablesAreAccounted
  <2>2. CASE \E t \in TablesOf(worker[w].job) :
                Held(w) /\ existing_tables' = existing_tables \cup {t}
    <3>1. PICK t \in TablesOf(worker[w].job) :
                Held(w) /\ existing_tables' = existing_tables \cup {t}
      BY <2>2
    <3>2. /\ worker[w].job.name \in Tracked \cap JobNames
          /\ worker[w].job.related \subseteq related[worker[w].job.name]
      BY <3>1 DEF CacheInv, HoldersAreRecorded, CacheTyped, Tracked
    <3> QED
      BY <3>1, <3>2 DEF CacheInv, TablesAreAccounted, TablesOf, Tracked
  <2> QED
    BY <2>1, <2>2
<1> QED
  BY <1>2, <1>6, <1>7, <1>8, <1>9 DEF CacheInv

(* The callers that hold a name are finitely many.                         *)
LEMMA HoldersFinite ==
  ASSUME NEW n
  PROVE  /\ IsFiniteSet(Holders(n))
         /\ Cardinality(Holders(n)) \in Nat
         /\ Holders(n) # {} => Cardinality(Holders(n)) # 0
<1>1. Holders(n) \subseteq CacheWorkers
  BY DEF Holders
<1>2. IsFiniteSet(Holders(n))
  BY <1>1, CacheAssumption, FS_Subset
<1> QED
  BY <1>2, FS_CardinalityType, FS_EmptySet

(* A caller that goes away (Abandon) leaves its reservation behind and the *)
(* others with what they hold.                                             *)
LEMMA CallerLeaves ==
  ASSUME CacheInv, NEW w \in CacheWorkers,
         worker' = [worker EXCEPT ![w] = IdleWorker],
         UNCHANGED <<stale, related, reservations, top_level_to_delete, existing_tables>>
  PROVE  CacheInv'
<1>1. /\ worker' = [v \in CacheWorkers |-> worker'[v]]
      /\ \A v \in CacheWorkers : worker'[v] = IF v = w THEN IdleWorker ELSE worker[v]
  BY DEF CacheInv, CacheTyped
<1>2. IdleWorker.step = "idle"
  BY DEF IdleWorker
<1>3. CacheTyped'
  BY <1>1, <1>2 DEF CacheInv, CacheTyped, CallerTyped, Steps
<1>4. \A v \in CacheWorkers : Held(v)' => v # w /\ Held(v) /\ worker'[v] = worker[v]
  BY <1>1, <1>2 DEF Held, HoldingSteps
<1>5. HoldersAreReserved'
  <2> SUFFICES ASSUME NEW v \in CacheWorkers, NEW n, Held(v)', n = worker'[v].job.name
               PROVE  n \in DOMAIN reservations /\ Cardinality(Holders(n)') <= reservations[n]
    BY DEF HoldersAreReserved, Held, Holders
  <2>1. n = worker[v].job.name
    BY <1>4
  <2>2. Holders(n)' \subseteq Holders(n)
    BY <1>4 DEF Holders, Held
  <2>3. n \in DOMAIN reservations /\ Cardinality(Holders(n)) <= reservations[n]
    BY <1>4, <2>1 DEF CacheInv, HoldersAreReserved, Held
  <2>4. reservations[n] \in Nat
    BY <2>3 DEF CacheInv, CacheTyped
  <2>5. IsFiniteSet(Holders(n))
    BY HoldersFinite
  <2>6. Cardinality(Holders(n)') <= Cardinality(Holders(n))
    BY <2>2, <2>5, FS_Subset
  <2>7. Cardinality(Holders(n)') \in Nat /\ Cardinality(Holders(n)) \in Nat
    BY <2>2, <2>5, FS_Subset, FS_CardinalityType
  <2> QED
    BY <2>3, <2>4, <2>6, <2>7
<1>6. HoldersAreRecorded'
  BY <1>4 DEF CacheInv, HoldersAreRecorded, Tracked
<1>7. LoadedTablesStay'
  BY <1>1, <1>2 DEF CacheInv, LoadedTablesStay
<1>8. TablesAreAccounted'
  BY DEF CacheInv, TablesAreAccounted
<1> QED
  BY <1>3, <1>5, <1>6, <1>7, <1>8 DEF CacheInv

(* Reserve counts the caller, records its extension tables under its name  *)
(* and keeps every name it pushes out of the LRU among those to be         *)
(* dropped.                                                                *)
LEMMA ReserveKeeps ==
  ASSUME CacheInv, NEW w \in CacheWorkers, Reserve(w)
  PROVE  CacheInv'
<1> DEFINE j == worker[w].job
           kept == Kept(j.name, j.size)
           new == [step |-> "load", job |-> j, pending |-> TablesOf(j)]
<1>1. /\ reservations' = Incremented(j.name)
      /\ stale' = Touched(j.name, kept)
      /\ top_level_to_delete' = top_level_to_delete \cup Evicted(j.name, kept)
      /\ related' = [related EXCEPT ![j.name] = @ \cup j.related]
      /\ worker' = [worker EXCEPT ![w] = new]
      /\ existing_tables' = existing_tables
      /\ worker[w].step = "reserve"
  BY DEF Reserve
<1>2. j \in CacheJobs /\ j.name \in JobNames
  BY <1>1, JobFacts DEF CacheInv, CacheTyped, CallerTyped
<1>3. kept \subseteq DOMAIN stale
  BY DEF Kept
<1>4. /\ new.step = "load"
      /\ new.job = j
      /\ new.pending = TablesOf(j)
  OBVIOUS
<1> HIDE DEF j, kept, new
<1>5. /\ worker' = [v \in CacheWorkers |-> worker'[v]]
      /\ \A v \in CacheWorkers : worker'[v] = IF v = w THEN new ELSE worker[v]
  BY <1>1 DEF CacheInv, CacheTyped
<1>6. \A v \in CacheWorkers : Held(v)' => v = w \/ (Held(v) /\ worker'[v] = worker[v])
  BY <1>5 DEF Held
<1>7. /\ reservations' = [n \in DOMAIN reservations' |-> reservations'[n]]
      /\ DOMAIN reservations' = DOMAIN reservations \cup {j.name}
      /\ \A n \in DOMAIN reservations' : n # j.name => reservations'[n] = reservations[n]
      /\ j.name \in DOMAIN reservations => reservations'[j.name] = reservations[j.name] + 1
      /\ j.name \notin DOMAIN reservations => reservations'[j.name] = 1
  BY <1>1 DEF Incremented
<1>8. Tracked' = Tracked \cup {j.name}
  BY <1>1, <1>3 DEF Tracked, Touched, Evicted
<1>9. /\ related' = [n \in JobNames |-> related'[n]]
      /\ \A n \in JobNames : related'[n] = IF n = j.name THEN related[n] \cup j.related ELSE related[n]
  BY <1>1, <1>2 DEF CacheInv, CacheTyped
<1>10. CacheTyped'
  <2>1. \A v \in CacheWorkers : CallerTyped(v)'
    BY <1>2, <1>4, <1>5 DEF CacheInv, CacheTyped, CallerTyped, Steps
  <2>2. \A n \in DOMAIN reservations' : reservations'[n] \in Nat
    BY <1>7 DEF CacheInv, CacheTyped
  <2>3. \A n \in JobNames : related'[n] \subseteq UNION {k.related : k \in {i \in CacheJobs : i.name = n}}
    BY <1>2, <1>9 DEF CacheInv, CacheTyped
  <2>4. DOMAIN stale' \cup top_level_to_delete' \subseteq JobNames
    BY <1>2, <1>8 DEF CacheInv, CacheTyped, Tracked
  <2> QED
    BY <1>5, <1>7, <1>9, <2>1, <2>2, <2>3, <2>4 DEF CacheTyped
<1>11. HoldersAreReserved'
  <2> SUFFICES ASSUME NEW v \in CacheWorkers, NEW n, Held(v)', n = worker'[v].job.name
               PROVE  n \in DOMAIN reservations' /\ Cardinality(Holders(n)') <= reservations'[n]
    BY DEF HoldersAreReserved, Held, Holders
  <2>1. /\ IsFiniteSet(Holders(n))
        /\ Cardinality(Holders(n)) \in Nat
    BY HoldersFinite
  <2>2. n \in DOMAIN reservations => reservations[n] \in Nat
    BY DEF CacheInv, CacheTyped
  <2>3. Holders(n) # {} => n \in DOMAIN reservations /\ Cardinality(Holders(n)) <= reservations[n]
    BY DEF CacheInv, HoldersAreReserved, Holders
  <2>4. CASE n = j.name
    <3>1. Holders(n)' \subseteq Holders(n) \cup {w}
      BY <1>6 DEF Holders, Held
    <3>2. /\ IsFiniteSet(Holders(n) \cup {w})
          /\ Cardinality(Holders(n) \cup {w}) = IF w \in Holders(n) THEN Cardinality(Holders(n))
                                                                    ELSE Cardinality(Holders(n)) + 1
      BY <2>1, FS_AddElement
    <3>3. /\ Cardinality(Holders(n)') <= Cardinality(Holders(n) \cup {w})
          /\ Cardinality(Holders(n)') \in Nat
      BY <3>1, <3>2, FS_Subset, FS_CardinalityType
    <3>4. Holders(n) = {} => Cardinality(Holders(n)) = 0
      BY FS_EmptySet
    <3> QED
      BY <1>7, <2>1, <2>2, <2>3, <2>4, <3>2, <3>3, <3>4
  <2>5. CASE n # j.name
    <3>1. v # w
      BY <1>4, <1>5, <2>5
    <3>2. v \in Holders(n)
      BY <1>6, <3>1 DEF Holders, Held
    <3>3. Holders(n)' \subseteq Holders(n)
      BY <1>4, <1>5, <1>6, <2>5 DEF Holders, Held
    <3>4. /\ Cardinality(Holders(n)') <= Cardinality(Holders(n))
          /\ Cardinality(Holders(n)') \in Nat
      BY <2>1, <3>3, FS_Subset, FS_CardinalityType
    <3> QED
      BY <1>7, <2>1, <2>2, <2>3, <2>5, <3>2, <3>4
  <2> QED
    BY <2>4, <2>5
<1>12. HoldersAreRecorded'
  <2> SUFFICES ASSUME NEW v \in CacheWorkers, Held(v)'
               PROVE  /\ worker'[v].job.related \subseteq related'[worker'[v].job.name]
                      /\ worker'[v].job.name \in Tracked'
    BY DEF HoldersAreRecorded
  <2>1. CASE v = w
    BY <1>2, <1>4, <1>5, <1>8, <1>9, <2>1
  <2>2. CASE v # w
    <3>1. /\ worker[v].job.related \subseteq related[worker[v].job.name]
          /\ worker[v].job.name \in Tracked
          /\ worker[v].job.name \in JobNames
      BY <1>6, <2>2 DEF CacheInv, HoldersAreRecorded, CacheTyped, Tracked
    <3> QED
      BY <1>6, <1>8, <1>9, <2>2, <3>1
  <2> QED
    BY <2>1, <2>2
<1>13. LoadedTablesStay'
  BY <1>1, <1>4, <1>5 DEF CacheInv, LoadedTablesStay
<1>14. TablesAreAccounted'
  <2>1. \A n \in Tracked \cap JobNames : related[n] \subseteq related'[n]
    BY <1>9
  <2> QED
    BY <1>1, <1>8, <2>1 DEF CacheInv, TablesAreAccounted, Tracked
<1> QED
  BY <1>10, <1>11, <1>12, <1>13, <1>14 DEF CacheInv

(* Release drops only what nobody holds: the tables of a name that waits   *)
(* to be dropped stay while another caller counts on it, and what is left  *)
(* in the session is still accounted for.  The caller's reservation is     *)
(* there, so decrement_reservation does not panic.                         *)
LEMMA ReleaseKeeps ==
  ASSUME CacheInv, NEW w \in CacheWorkers, Release(w)
  PROVE  CacheInv'
<1> DEFINE j == worker[w].job
           res == Decremented(j.name)
           gone == Unheld(res)
           dropped == Dropped(res)
           new == [step |-> "drop", job |-> j]
<1>1. worker[w].step = "release"
  BY DEF Release
<1>2. Held(w) /\ j \in CacheJobs /\ j.name \in JobNames
  BY <1>1, JobFacts DEF CacheInv, CacheTyped, CallerTyped, Held, HoldingSteps
<1>3. j.name \in DOMAIN reservations /\ Cardinality(Holders(j.name)) <= reservations[j.name]
  BY <1>2 DEF CacheInv, HoldersAreReserved, Held
<1>4. /\ reservations' = Without(res, dropped)
      /\ existing_tables' = existing_tables \ dropped
      /\ top_level_to_delete' = top_level_to_delete \ gone
      /\ related' = [n \in JobNames |-> IF n \in gone THEN {} ELSE related[n]]
      /\ worker' = [worker EXCEPT ![w] = new]
      /\ stale' = stale
  BY <1>3 DEF Release
<1>5. new.step = "drop" /\ new.job = j
  OBVIOUS
<1>6. /\ res = [n \in DOMAIN reservations |-> res[n]]
      /\ DOMAIN res = DOMAIN reservations
      /\ res[j.name] = reservations[j.name] - 1
      /\ \A n \in DOMAIN reservations : n # j.name => res[n] = reservations[n]
  BY <1>3 DEF Decremented, CacheInv, CacheTyped
<1>7. /\ gone \subseteq top_level_to_delete
      /\ \A n \in DOMAIN res : res[n] # 0 => n \notin gone
      /\ dropped = gone \cup UNION {related[n] : n \in gone}
  BY DEF Unheld, Dropped, Reserved
<1> HIDE DEF j, res, gone, dropped, new
<1>8. /\ worker' = [v \in CacheWorkers |-> worker'[v]]
      /\ \A v \in CacheWorkers : worker'[v] = IF v = w THEN new ELSE worker[v]
  BY <1>4 DEF CacheInv, CacheTyped
<1>9. \A v \in CacheWorkers : Held(v)' => v # w /\ Held(v) /\ worker'[v] = worker[v]
  BY <1>5, <1>8 DEF Held, HoldingSteps
<1>10. w \in Holders(j.name)
  BY <1>2 DEF Holders, Held, j
<1>11. \A n \in DOMAIN res : res[n] \in Nat
  <2>1. Cardinality(Holders(j.name)) \in Nat /\ Cardinality(Holders(j.name)) # 0
    BY <1>10, HoldersFinite
  <2>2. \A n \in DOMAIN reservations : reservations[n] \in Nat
    BY DEF CacheInv, CacheTyped
  <2> QED
    BY <1>3, <1>6, <2>1, <2>2
<1>12. ASSUME NEW v \in CacheWorkers, NEW n, Held(v)', n = worker'[v].job.name
       PROVE  n \in DOMAIN res /\ Cardinality(Holders(n)') <= res[n] /\ res[n] # 0
  <2>1. v \in Holders(n) /\ v \in Holders(n)'
    BY <1>9, <1>12 DEF Holders, Held
  <2>2. n \in DOMAIN reservations /\ Cardinality(Holders(n)) <= reservations[n]
    BY <2>1 DEF CacheInv, HoldersAreReserved, Holders
  <2>3. /\ IsFiniteSet(Holders(n))
        /\ Cardinality(Holders(n)) \in Nat
    BY HoldersFinite
  <2>4. Holders(n)' \subseteq Holders(n) \ {w}
    BY <1>9 DEF Holders, Held
  <2>5. /\ IsFiniteSet(Holders(n) \ {w})
        /\ Cardinality(Holders(n) \ {w}) = IF w \in Holders(n) THEN Cardinality(Holders(n)) - 1
                                                               ELSE Cardinality(Holders(n))
    BY <2>3, FS_RemoveElement
  <2>6. /\ IsFiniteSet(Holders(n)')
        /\ Cardinality(Holders(n)') <= Cardinality(Holders(n) \ {w})
    BY <2>4, <2>5, FS_Subset
  <2>7. Cardinality(Holders(n)') \in Nat /\ Cardinality(Holders(n)') # 0
    BY <2>1, <2>6, FS_CardinalityType, FS_EmptySet
  <2>8. res[n] \in Nat /\ reservations[n] \in Nat
    BY <1>6, <1>11, <2>2 DEF CacheInv, CacheTyped
  <2>9. Cardinality(Holders(n)') <= res[n]
    <3>1. CASE n = j.name
      BY <1>3, <1>6, <1>10, <2>2, <2>3, <2>5, <2>6, <2>7, <2>8, <3>1
    <3>2. CASE n # j.name
      BY <1>6, <2>2, <2>3, <2>5, <2>6, <2>7, <2>8, <3>2
    <3> QED
      BY <3>1, <3>2
  <2> QED
    BY <1>6, <2>2, <2>7, <2>8, <2>9
<1>13. ASSUME NEW v \in CacheWorkers, Held(v)'
       PROVE  /\ worker'[v].job \in CacheJobs
              /\ worker'[v].job.name \notin gone
              /\ TablesOf(worker'[v].job) \cap dropped = {}
  <2> DEFINE k == worker'[v].job
  <2>1. k \in CacheJobs
    BY <1>9, <1>13 DEF CacheInv, CacheTyped, CallerTyped, Held, HoldingSteps
  <2>2. k.name \notin gone
    BY <1>7, <1>12, <1>13
  <2> HIDE DEF k
  <2>3. k.name \in JobNames /\ k.related \cap JobNames = {}
    BY <2>1, JobFacts
  <2>4. gone \subseteq JobNames
    BY <1>7 DEF CacheInv, CacheTyped
  <2>5. ASSUME NEW n \in gone, NEW t \in related[n]
        PROVE  t \notin TablesOf(k)
    <3>1. PICK i \in CacheJobs : i.name = n /\ t \in i.related
      BY <2>4, <2>5 DEF CacheInv, CacheTyped
    <3>2. i.related \cap JobNames = {} /\ (k.name # i.name => i.related \cap k.related = {})
      BY <2>1, JobFacts
    <3>3. k.name # i.name
      BY <2>2, <3>1
    <3> QED
      BY <2>3, <3>1, <3>2, <3>3 DEF TablesOf
  <2>6. gone \cap TablesOf(k) = {}
    BY <2>2, <2>3, <2>4 DEF TablesOf
  <2>7. TablesOf(k) \cap dropped = {}
    BY <1>7, <2>5, <2>6
  <2> QED
    BY <2>1, <2>2, <2>7 DEF k
<1>14. CacheTyped'
  <2>1. \A v \in CacheWorkers : CallerTyped(v)'
    BY <1>2, <1>5, <1>8 DEF CacheInv, CacheTyped, CallerTyped, Steps
  <2>2. /\ reservations' = [n \in DOMAIN reservations' |-> reservations'[n]]
        /\ \A n \in DOMAIN reservations' : reservations'[n] \in Nat
    BY <1>4, <1>11 DEF Without
  <2>3. /\ related' = [n \in JobNames |-> related'[n]]
        /\ \A n \in JobNames : related'[n] \subseteq related[n]
    BY <1>4
  <2>4. \A n \in JobNames : related'[n] \subseteq UNION {k.related : k \in {i \in CacheJobs : i.name = n}}
    BY <2>3 DEF CacheInv, CacheTyped
  <2>5. DOMAIN stale' \cup top_level_to_delete' \subseteq JobNames
    BY <1>4 DEF CacheInv, CacheTyped
  <2> QED
    BY <1>8, <2>1, <2>2, <2>3, <2>4, <2>5 DEF CacheTyped
<1>15. HoldersAreReserved'
  <2> SUFFICES ASSUME NEW v \in CacheWorkers, NEW n, Held(v)', n = worker'[v].job.name
               PROVE  n \in DOMAIN reservations' /\ Cardinality(Holders(n)') <= reservations'[n]
    BY DEF HoldersAreReserved, Held, Holders
  <2>1. n \in DOMAIN res /\ Cardinality(Holders(n)') <= res[n]
    BY <1>12
  <2>2. n \notin dropped
    BY <1>13 DEF TablesOf
  <2> QED
    BY <1>4, <2>1, <2>2 DEF Without
<1>16. HoldersAreRecorded'
  <2> SUFFICES ASSUME NEW v \in CacheWorkers, Held(v)'
               PROVE  /\ worker'[v].job.related \subseteq related'[worker'[v].job.name]
                      /\ worker'[v].job.name \in Tracked'
    BY DEF HoldersAreRecorded
  <2>1. /\ worker[v].job.related \subseteq related[worker[v].job.name]
        /\ worker[v].job.name \in Tracked
        /\ worker[v].job.name \in JobNames
    BY <1>9 DEF CacheInv, HoldersAreRecorded, CacheTyped, Tracked
  <2>2. worker[v].job.name \notin gone /\ worker'[v] = worker[v]
    BY <1>9, <1>13
  <2> QED
    BY <1>4, <2>1, <2>2 DEF Tracked
<1>17. LoadedTablesStay'
  <2> SUFFICES ASSUME NEW v \in CacheWorkers, worker'[v].step \in {"load", "query"}
               PROVE  TablesOf(worker'[v].job) \ worker'[v].pending \subseteq existing_tables'
    BY DEF LoadedTablesStay, TablesOf
  <2>1. Held(v)'
    BY DEF Held, HoldingSteps
  <2>2. worker'[v] = worker[v] /\ TablesOf(worker'[v].job) \cap dropped = {}
    BY <1>9, <1>13, <2>1
  <2>3. TablesOf(worker[v].job) \ worker[v].pending \subseteq existing_tables
    BY <2>2 DEF CacheInv, LoadedTablesStay
  <2> QED
    BY <1>4, <2>2, <2>3
<1>18. TablesAreAccounted'
  <2> SUFFICES ASSUME NEW t \in existing_tables'
               PROVE  t \in Tracked' \/ \E n \in Tracked' \cap JobNames : t \in related'[n]
    BY DEF TablesAreAccounted, Tracked
  <2>1. t \in existing_tables /\ t \notin dropped
    BY <1>4
  <2>2. Tracked' = DOMAIN stale \cup (top_level_to_delete \ gone)
    BY <1>4 DEF Tracked
  <2>3. t \in Tracked \/ \E n \in Tracked \cap JobNames : t \in related[n]
    BY <2>1 DEF CacheInv, TablesAreAccounted, Tracked
  <2>4. CASE t \in Tracked
    BY <1>7, <2>1, <2>2, <2>4 DEF Tracked
  <2>5. CASE \E n \in Tracked \cap JobNames : t \in related[n]
    <3>1. PICK n \in Tracked \cap JobNames : t \in related[n]
      BY <2>5
    <3>2. n \notin gone
      BY <1>7, <2>1, <3>1
    <3> QED
      BY <1>4, <2>2, <3>1, <3>2 DEF Tracked
  <2> QED
    BY <2>3, <2>4, <2>5
<1> QED
  BY <1>14, <1>15, <1>16, <1>17, <1>18 DEF CacheInv

(* CacheInv reads only the cache's names and tables and its callers.       *)
LEMMA CacheStill ==
  ASSUME CacheInv,
         UNCHANGED <<worker, stale, related, reservations, top_level_to_delete, existing_tables>>
  PROVE  CacheInv'
<1>1. CacheTyped'
  BY DEF CacheInv, CacheTyped, CallerTyped
<1>2. HoldersAreReserved'
  BY DEF CacheInv, HoldersAreReserved, Holders
<1>3. HoldersAreRecorded'
  BY DEF CacheInv, HoldersAreRecorded, Held, Tracked
<1>4. LoadedTablesStay' /\ TablesAreAccounted'
  BY DEF CacheInv, LoadedTablesStay, TablesAreAccounted
<1> QED
  BY <1>1, <1>2, <1>3, <1>4 DEF CacheInv

(* Every step of the cache and of its callers keeps CacheInv.              *)
LEMMA CacheInvStep == CacheInv /\ [CacheNext]_cacheVars => CacheInv'
<1> SUFFICES ASSUME CacheInv, [CacheNext]_cacheVars
             PROVE  CacheInv'
  OBVIOUS
<1>1. ASSUME NEW w \in CacheWorkers, NEW j \in CacheJobs, StartQuery(w, j)
      PROVE  CacheInv'
  <2> DEFINE new == [step |-> "reserve", job |-> j]
  <2>1. new.step = "reserve" /\ new.job = j
    OBVIOUS
  <2>2. ~ Held(w)
    BY <1>1 DEF StartQuery, Held, HoldingSteps
  <2>3. CASE worker' = [worker EXCEPT ![w] = new]
    <3>1. UNCHANGED <<stale, related, reservations, top_level_to_delete, existing_tables>>
      BY <1>1 DEF StartQuery
    <3> HIDE DEF new
    <3> QED
      BY <2>1, <2>2, <2>3, <3>1, CallerMoves DEF Steps, HoldingSteps
  <2>4. CASE UNCHANGED worker
    BY <1>1, <2>4, CacheStill DEF StartQuery
  <2> QED
    BY <1>1, <2>3, <2>4 DEF StartQuery
<1>2. ASSUME NEW w \in CacheWorkers, NEW j \in CacheJobs, StartIndexBuild(w, j)
      PROVE  CacheInv'
  <2> DEFINE new == [step |-> "reserve", job |-> j]
  <2>1. new.step = "reserve" /\ new.job = j
    OBVIOUS
  <2>2. ~ Held(w)
    BY <1>2 DEF StartIndexBuild, Held, HoldingSteps
  <2>3. /\ worker' = [worker EXCEPT ![w] = new]
        /\ UNCHANGED <<stale, related, reservations, top_level_to_delete, existing_tables>>
    BY <1>2 DEF StartIndexBuild
  <2> HIDE DEF new
  <2> QED
    BY <2>1, <2>2, <2>3, CallerMoves DEF Steps, HoldingSteps
<1>3. ASSUME NEW w \in CacheWorkers, LoadTable(w)
      PROVE  CacheInv'
  <2> DEFINE j == worker[w].job
  <2>1. PICK t \in NextTables(w) :
          \/ LET left == worker[w].pending \ {t}
             IN  /\ existing_tables' = existing_tables \cup {t}
                 /\ worker' = [worker EXCEPT ![w] =
                                  [step |-> IF left = {} THEN "query" ELSE "load",
                                   job |-> j, pending |-> left]]
          \/ /\ worker' = [worker EXCEPT ![w] = [step |-> "release", job |-> j]]
             /\ existing_tables' = existing_tables
    BY <1>3 DEF LoadTable
  <2>2. /\ worker[w].step = "load"
        /\ UNCHANGED <<stale, related, reservations, top_level_to_delete>>
    BY <1>3 DEF LoadTable
  <2>3. Held(w) /\ j \in CacheJobs /\ worker[w].pending \subseteq TablesOf(j)
    BY <2>2 DEF CacheInv, CacheTyped, CallerTyped, Held, HoldingSteps
  <2>4. TablesOf(j) \ worker[w].pending \subseteq existing_tables
    BY <2>2 DEF CacheInv, LoadedTablesStay
  <2>5. t \in worker[w].pending
    BY DEF NextTables
  <2> DEFINE left == worker[w].pending \ {t}
             loaded == [step |-> IF left = {} THEN "query" ELSE "load", job |-> j, pending |-> left]
             failed == [step |-> "release", job |-> j]
  <2>6. CASE existing_tables' = existing_tables \cup {t} /\ worker' = [worker EXCEPT ![w] = loaded]
    <3>1. /\ loaded.step \in {"query", "load"}
          /\ loaded.job = j
          /\ loaded.pending = left
      OBVIOUS
    <3>2. t \in TablesOf(j) /\ left \subseteq TablesOf(j) /\ TablesOf(j) \ left \subseteq existing_tables'
      BY <2>3, <2>4, <2>5, <2>6
    <3> HIDE DEF loaded, left
    <3>3. loaded.step \in Steps /\ loaded.step \in HoldingSteps
      BY <3>1 DEF Steps, HoldingSteps
    <3> QED
      BY <2>2, <2>3, <2>6, <3>1, <3>2, <3>3, CallerMoves
  <2>7. CASE existing_tables' = existing_tables /\ worker' = [worker EXCEPT ![w] = failed]
    <3>1. failed.step = "release" /\ failed.job = j
      OBVIOUS
    <3> HIDE DEF failed
    <3>2. failed.step \in Steps /\ failed.step \in HoldingSteps
      BY <3>1 DEF Steps, HoldingSteps
    <3> QED
      BY <2>2, <2>3, <2>7, <3>1, <3>2, CallerMoves
  <2> QED
    BY <2>1, <2>6, <2>7
<1>4. ASSUME NEW w \in CacheWorkers, ExecuteSql(w)
      PROVE  CacheInv'
  <2> DEFINE new == [step |-> "release", job |-> worker[w].job]
  <2>1. new.step = "release" /\ new.job = worker[w].job
    OBVIOUS
  <2>2. /\ worker[w].step = "query"
        /\ worker' = [worker EXCEPT ![w] = new]
        /\ UNCHANGED <<stale, related, reservations, top_level_to_delete, existing_tables>>
    BY <1>4 DEF ExecuteSql
  <2>3. Held(w) /\ worker[w].job \in CacheJobs
    BY <2>2 DEF CacheInv, CacheTyped, CallerTyped, Held, HoldingSteps
  <2> HIDE DEF new
  <2> QED
    BY <2>1, <2>2, <2>3, CallerMoves DEF Steps, HoldingSteps
<1>5. ASSUME NEW w \in CacheWorkers, TableDropped(w)
      PROVE  CacheInv'
  BY <1>5, CallerLeaves DEF TableDropped
<1>6. ASSUME NEW w \in CacheWorkers, Abandon(w)
      PROVE  CacheInv'
  BY <1>6, CallerLeaves DEF Abandon
<1>7. CASE UNCHANGED cacheVars
  BY <1>7, CacheStill DEF cacheVars
<1> QED
  BY <1>1, <1>2, <1>3, <1>4, <1>5, <1>6, <1>7, ReserveKeeps, ReleaseKeeps DEF CacheNext

(* A caller that reserved a name keeps the reservation, and every table it *)
(* loaded is in the session when its SQL is planned, however the actor     *)
(* interleaves the reservations, evictions and releases of others and      *)
(* whichever callers are dropped half-way (Reserve, Release).              *)
THEOREM ReservedTablesStay == CacheSpec => []HeldTablesStay
<1>1. CacheInv => HeldTablesStay
  BY DEF CacheInv, HeldTablesStay
<1> QED
  BY <1>1, CacheInitInv, CacheInvStep, PTL DEF CacheSpec

(* Every table of the session is a name of the LRU or waits to be dropped, *)
(* or is recorded as an extension table of such a name, so the cache can   *)
(* still drop it.                                                          *)
THEOREM NoTableIsForgotten == CacheSpec => []TablesAreAccounted
<1>1. CacheInv => TablesAreAccounted
  BY DEF CacheInv
<1> QED
  BY <1>1, CacheInitInv, CacheInvStep, PTL DEF CacheSpec

=============================================================================
