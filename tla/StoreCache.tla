----------------------------- MODULE StoreCache -----------------------------
(***************************************************************************)
(* The cache of one store's read models: readers go through remember(), jobs   *)
(* that change the data bump the version of the domain when they are done       *)
(* (packages/cache/src/store-cache.ts, memory.cache.ts and redis.cache.ts,       *)
(* apps/api/src/modules/analytics/analytics.router.ts,                            *)
(* apps/worker/src/handlers/maintenance.handlers.ts).                             *)
(*                                                                         *)
(* One domain and one key stand for all: keys and domains share nothing.        *)
(* Data are a number that grows with each change.                                *)
(***************************************************************************)
EXTENDS Naturals, Sequences

CONSTANTS Readers, Writers,
          MaxChanges,   \* bound: changes of the data
          MaxBumps      \* bound: bumps, those of repeated attempts included

VARIABLES
  data,     \* what the tables hold
  version,  \* v:{storeId}:{domain}
  entry,    \* c:{storeId}:{domain}:{v}:{key}, for each version: [value, missed],
            \* missed a ghost, the version under which its reader found nothing
  reader,   \* each request: where it is, the version and the value it holds
  writer    \* each job: how many steps of its plan it has done, 0 for a job at rest

cacheVars == <<data, version, entry, reader, writer>>

Versions == 0 .. MaxBumps
NoEntry  == [value |-> 0, missed |-> MaxBumps + 1]
Asleep   == [at |-> "idle", version |-> 0, missed |-> 0, value |-> 0]

Init ==
  /\ data = 1 /\ version = 0
  /\ entry = [v \in Versions |-> NoEntry]
  /\ reader = [r \in Readers |-> Asleep]
  /\ writer = [w \in Writers |-> 0]

-----------------------------------------------------------------------------
(* remember: get, compute on a miss, set. Each await is a step.             *)

Goes(r, to) == reader' = [reader EXCEPT ![r] = to]

GetVersion(r) ==
  /\ reader[r].at = "idle"
  /\ Goes(r, [Asleep EXCEPT !.at = "get", !.version = version])
  /\ UNCHANGED <<data, version, entry, writer>>

\* A hit is the answer.
GetEntry(r) ==
  /\ reader[r].at = "get"
  /\ Goes(r, IF entry[reader[r].version] # NoEntry THEN Asleep
             ELSE [reader[r] EXCEPT !.at = "compute", !.missed = reader[r].version])
  /\ UNCHANGED <<data, version, entry, writer>>

Compute(r) ==
  /\ reader[r].at = "compute"
  /\ Goes(r, [reader[r] EXCEPT !.at = "set", !.value = data])
  /\ UNCHANGED <<data, version, entry, writer>>

\* set() reads the version anew.
SetVersion(r) ==
  /\ reader[r].at = "set"
  /\ Goes(r, [reader[r] EXCEPT !.at = "put", !.version = version])
  /\ UNCHANGED <<data, version, entry, writer>>

Put(r) ==
  /\ reader[r].at = "put"
  /\ entry' = [entry EXCEPT ![reader[r].version] =
                 [value |-> reader[r].value, missed |-> reader[r].missed]]
  /\ Goes(r, Asleep)
  /\ UNCHANGED <<data, version, writer>>

\* A request that fails at one of these awaits.
Abandons(r) ==
  /\ reader[r].at # "idle"
  /\ Goes(r, Asleep)
  /\ UNCHANGED <<data, version, entry, writer>>

\* The time to live is over, or Redis evicts the key.
Expires(v) ==
  /\ entry[v] # NoEntry
  /\ entry' = [entry EXCEPT ![v] = NoEntry]
  /\ UNCHANGED <<data, version, reader, writer>>

-----------------------------------------------------------------------------
(* A job that changes the data: refreshAnalytics and then bump.             *)

\* Mutant: the domain is invalidated first, and the change committed after it.
Reversed == <<"bump", "change">>

\* analyticsRefreshHandler.
Plan == <<"change", "bump">>

Does(w, step) ==
  /\ Plan[writer[w] + 1] = step
  /\ writer' = [writer EXCEPT ![w] = (@ + 1) % Len(Plan)]

Change(w) ==
  /\ data < MaxChanges
  /\ Does(w, "change")
  /\ data' = data + 1
  /\ UNCHANGED <<version, entry, reader>>

\* One atomic INCR, however many keys the domain holds.
Bump(w) ==
  /\ version < MaxBumps
  /\ Does(w, "bump")
  /\ version' = version + 1
  /\ UNCHANGED <<data, entry, reader>>

\* A step throws or the worker dies: the next attempt begins with the change,
\* before the job is at rest again.
Again(w) ==
  /\ writer[w] > 0 /\ data < MaxChanges
  /\ data' = data + 1
  /\ writer' = [writer EXCEPT ![w] = 1]
  /\ UNCHANGED <<version, entry, reader>>

CacheNext ==
  \/ \E r \in Readers : GetVersion(r) \/ GetEntry(r) \/ Compute(r) \/ SetVersion(r) \/ Put(r)
                        \/ Abandons(r)
  \/ \E v \in Versions : Expires(v)
  \/ \E w \in Writers : Change(w) \/ Bump(w) \/ Again(w)

CacheSpec == Init /\ [][CacheNext]_cacheVars

-----------------------------------------------------------------------------
(* Properties.                                                              *)

\* "freshness after data change is immediate": when no job is at work, a
\* hit shows the data as they are, unless the entry was
\* computed by a request that had missed before a bump and stored after it.
FreshUnlessCrossed == (\A w \in Writers : writer[w] = 0) =>
  entry[version] = NoEntry \/ entry[version].value = data \/ entry[version].missed # version

=============================================================================
