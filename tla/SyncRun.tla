------------------------------- MODULE SyncRun -------------------------------
(***************************************************************************)
(* Store synchronization: a full sync fans out into one job per module, each  *)
(* job runs its module page by page under a row of sync_history, resumes the  *)
(* row of a run that stopped, and asks for the analytics refresh when it       *)
(* finds its whole group complete (packages/sync/src/runner.ts, fanin.ts,      *)
(* modules/index.ts, apps/worker/src/handlers/sync.handlers.ts,                *)
(* maintenance.handlers.ts, apps/api/src/modules/sync/sync.router.ts).         *)
(*                                                                         *)
(* A module reads one or more collections ("passes") of Shopify, each in       *)
(* pages. A cursor names a page of a pass; the code keeps only the opaque       *)
(* token, and hands it to whichever pass its module says.                      *)
(***************************************************************************)
EXTENDS Naturals, Sequences, FiniteSets

CONSTANTS Modules,
          Passes,      \* of each module: a sequence of [pages, keeps]; keeps
                       \* says that the pass is given ctx.resumeCursor
          Groups,      \* runGroupIds: one for each request of a full sync
          NoGroup,     \* a run outside every group
          Daily,       \* modules the maintenance tick runs in full
          Manual,      \* modules run without a resume: by hand or every hour
          Workers,     \* handler executions of the worker pool
          Attempts,    \* SyncModuleJob.attempts
          Remembers,   \* the queue refuses an id that has ended (BullMQ) or not
          MaxRequests, \* bound: requests made
          MaxFaults    \* bound: crashes, timeouts and errors

ASSUME PlanAssumption ==
  /\ Passes \in [Modules -> Seq([pages : Nat \ {0}, keeps : BOOLEAN])]
  /\ \A m \in Modules : Passes[m] # <<>>
ASSUME RequestAssumption == NoGroup \notin Groups /\ Daily \subseteq Modules /\ Manual \subseteq Modules
ASSUME QueueAssumption ==
  /\ Attempts \in Nat \ {0} /\ MaxRequests \in Nat /\ MaxFaults \in Nat
  /\ Remembers \in BOOLEAN

Null    == [pass |-> 0, page |-> 0]
First(p) == [pass |-> p, page |-> 1]
Pages(m) == UNION {{[pass |-> p, page |-> i] : i \in 1 .. Passes[m][p].pages} :
                    p \in DOMAIN Passes[m]}

FullJob(g)      == [kind |-> "full", module |-> "all", group |-> g]
ModuleJob(m, g) == [kind |-> "group", module |-> m, group |-> g]
DailyJob(m)     == [kind |-> "daily", module |-> m, group |-> NoGroup]
ManualJob(m)    == [kind |-> "manual", module |-> m, group |-> NoGroup]
NoJob           == [kind |-> "none", module |-> "all", group |-> NoGroup]
Requests == {FullJob(g) : g \in Groups} \cup {DailyJob(m) : m \in Daily}
              \cup {ManualJob(m) : m \in Manual}
Members(g) == {ModuleJob(m, g) : m \in Modules}
Jobs       == Requests \cup UNION {Members(g) : g \in Groups}
Tries(j)   == IF j.kind = "full" THEN 2 ELSE Attempts

VARIABLES
  rows,       \* sync_history, in the order of createdAt; two ghosts: seen, the
              \* pages the replica has taken over under this row, and skipped,
              \* those before the place a strange cursor was taken for
  refreshed,  \* groups for which the analytics refresh has been enqueued
  crossed,    \* ghost: groups whose runs met another run in one row
  asked, jobs, fails, spent, dead,  \* requests made; the queue: waiting, failed
                                    \* attempts, ended, ended after the last attempt
  run,        \* each worker: where its handler is and what it holds
  faults

queue == <<asked, jobs, fails, spent, dead>>
vars  == <<rows, refreshed, crossed, queue, run, faults>>

Idle == [at |-> "idle", job |-> NoJob, held |-> FALSE, todo |-> {}, row |-> 0,
         from |-> Null, pass |-> 0, pos |-> Null]

Init ==
  /\ rows = <<>> /\ refreshed = {} /\ crossed = {}
  /\ asked = {} /\ jobs = {} /\ fails = [j \in Jobs |-> 0] /\ spent = {} /\ dead = {}
  /\ run = [w \in Workers |-> Idle]
  /\ faults = 0

-----------------------------------------------------------------------------
(* The queue, as far as its handlers see it.                                *)

InFlight   == jobs \cup {run[w].job : w \in {v \in Workers : run[v].held}}
Refused(j) == j \in InFlight \/ (Remembers /\ j \in spent)

Enqueue(j) ==
  /\ jobs' = IF Refused(j) THEN jobs ELSE jobs \cup {j}
  /\ fails' = IF Refused(j) THEN fails ELSE [fails EXCEPT ![j] = 0]
  /\ UNCHANGED <<spent, dead>>

JobFails(j) ==
  /\ fails' = [fails EXCEPT ![j] = @ + 1]
  /\ IF fails[j] + 1 < Tries(j)
       THEN jobs' = jobs \cup {j} /\ UNCHANGED <<spent, dead>>
       ELSE spent' = spent \cup {j} /\ dead' = dead \cup {j} /\ UNCHANGED jobs
  /\ UNCHANGED asked

\* POST /sync/full, POST /sync/:module, the hourly and the daily tick.
Request(j) ==
  /\ j \in Requests \ asked
  /\ Cardinality(asked) < MaxRequests
  /\ asked' = asked \cup {j}
  /\ Enqueue(j)
  /\ UNCHANGED <<rows, refreshed, crossed, run, faults>>

Take(w, j) ==
  /\ run[w].at = "idle"
  /\ j \in jobs
  /\ jobs' = jobs \ {j}
  /\ run' = [run EXCEPT ![w] =
               [Idle EXCEPT !.at = IF j.kind = "full" THEN "fanout" ELSE "find", !.job = j,
                            !.held = TRUE, !.todo = IF j.kind = "full" THEN Modules ELSE {}]]
  /\ UNCHANGED <<rows, refreshed, crossed, asked, fails, spent, dead, faults>>

\* The handler returns; the queue only listens if it still waits.
Returns(w) ==
  /\ run' = [run EXCEPT ![w] = Idle]
  /\ spent' = IF run[w].held THEN spent \cup {run[w].job} ELSE spent
  /\ UNCHANGED <<asked, jobs, fails, dead>>

\* The handler throws.
Throws(w) ==
  /\ run' = [run EXCEPT ![w] = Idle]
  /\ IF run[w].held THEN JobFails(run[w].job) ELSE UNCHANGED queue

Fault == faults < MaxFaults /\ faults' = faults + 1

\* executeWithTimeout gives up on the attempt; the handler runs on.
TimesOut(w) ==
  /\ run[w].held
  /\ Fault
  /\ run' = [run EXCEPT ![w].held = FALSE]
  /\ JobFails(run[w].job)
  /\ UNCHANGED <<rows, refreshed, crossed>>

\* The worker dies, or something outside runModuleSync's try block throws: the
\* enqueue, the opening of the row, the event, the cache, the audit, the fan-in.
Dies(w) ==
  /\ run[w].at # "idle"
  /\ Fault
  /\ Throws(w)
  /\ UNCHANGED <<rows, refreshed, crossed>>

\* fullSyncHandler: the modules one by one, each under an id of its group.
Fanout(w, m) ==
  /\ run[w].at = "fanout" /\ m \in run[w].todo
  /\ Enqueue(ModuleJob(m, run[w].job.group))
  /\ run' = [run EXCEPT ![w].todo = @ \ {m}]
  /\ UNCHANGED <<rows, refreshed, crossed, asked, faults>>

FannedOut(w) ==
  /\ run[w].at = "fanout" /\ run[w].todo = {}
  /\ Returns(w)
  /\ UNCHANGED <<rows, refreshed, crossed, faults>>

-----------------------------------------------------------------------------
(* runModuleSync.                                                           *)

full(w) == run[w].job.kind # "manual"

\* Runs a FULL run may take over: unfinished, with a cursor.
Resumable(m) == {i \in DOMAIN rows : /\ rows[i].module = m /\ rows[i].full
                                     /\ rows[i].status \in {"RUNNING", "FAILED"}
                                     /\ rows[i].cursor # Null}

\* The row is another group's, or another handler is at it.
Meets(w, i) == rows[i].group # run[w].job.group \/ \E v \in Workers \ {w} : run[v].row = i

\* findResumableRun: the latest. Nothing says that nobody runs it any more.
Find(w) ==
  /\ run[w].at = "find"
  /\ LET old == IF full(w) THEN Resumable(run[w].job.module) ELSE {}
         i   == IF old = {} THEN 0 ELSE CHOOSE i \in old : \A k \in old : k <= i
     IN /\ run' = [run EXCEPT ![w].at = "open", ![w].row = i,
                              ![w].from = IF i = 0 THEN Null ELSE rows[i].cursor]
        /\ crossed' = IF i # 0 /\ Meets(w, i)
                        THEN crossed \cup ({rows[i].group, run[w].job.group} \ {NoGroup})
                        ELSE crossed
  /\ UNCHANGED <<rows, refreshed, queue, faults>>

\* Where a pass of module m starts in a run that resumes at c.
StartOf(m, p, c) == IF Passes[m][p].keeps /\ c # Null THEN c ELSE First(p)

\* The row found goes back to RUNNING and keeps its group, or a new row begins.
Open(w) ==
  /\ run[w].at = "open"
  /\ LET m == run[w].job.module
         i == run[w].row
     IN /\ rows' = IF i # 0 THEN [rows EXCEPT ![i].status = "RUNNING"]
                   ELSE Append(rows, [module |-> m, full |-> full(w), status |-> "RUNNING",
                                      cursor |-> Null, group |-> run[w].job.group, seen |-> {},
                                      skipped |-> {}])
        /\ run' = [run EXCEPT ![w].at = "page", ![w].row = IF i # 0 THEN i ELSE Len(rows) + 1,
                              ![w].pass = 1, ![w].pos = StartOf(m, 1, run[w].from)]
  /\ UNCHANGED <<refreshed, crossed, queue, faults>>

\* The cursor at hand belongs to the collection that is read.
Fits(w) == run[w].pos.pass = run[w].pass

\* One page is fetched and upserted. Should Shopify take the cursor of another
\* collection, it is for any place of this one, behind the last page included.
Page(w) ==
  /\ run[w].at = "page"
  /\ LET m == run[w].job.module
         p == run[w].pass
         n == Passes[m][p].pages
     IN \E k \in IF Fits(w) THEN {run[w].pos.page} ELSE 1 .. n + 1 :
          /\ rows' = [rows EXCEPT
               ![run[w].row].seen = @ \cup ({[pass |-> p, page |-> k]} \cap Pages(m)),
               ![run[w].row].skipped = IF Fits(w) THEN @ ELSE
                  @ \cup ({[pass |-> p, page |-> l] : l \in 1 .. k - 1} \ rows[run[w].row].seen)]
          /\ run' = [run EXCEPT ![w].at = "checkpoint",
                                ![w].pos = [pass |-> p, page |-> IF k <= n THEN k ELSE n]]
  /\ UNCHANGED <<refreshed, crossed, queue, faults>>

\* The request fails after the transport's retries; a strange cursor Shopify may
\* also refuse.
PageFails(w) ==
  /\ run[w].at = "page"
  /\ IF Fits(w) THEN Fault ELSE UNCHANGED faults
  /\ run' = [run EXCEPT ![w].at = "failed"]
  /\ UNCHANGED <<rows, refreshed, crossed, queue>>

\* Mutant: the checkpoint of a page points two pages on.
NextPageSkips(m, c) == IF c.page + 2 <= Passes[m][c.pass].pages
                         THEN [c EXCEPT !.page = @ + 2] ELSE Null

\* The page after c in its pass, or none.
NextPage(m, c) == IF c.page < Passes[m][c.pass].pages THEN [c EXCEPT !.page = @ + 1] ELSE Null

\* checkpoint.pageComplete writes the next page's cursor, null after the last
\* page of every pass; then the next page, the next pass, or the end.
Checkpoint(w) ==
  /\ run[w].at = "checkpoint"
  /\ LET m == run[w].job.module
         p == run[w].pass
         c == NextPage(m, run[w].pos)
     IN /\ rows' = [rows EXCEPT ![run[w].row].cursor = c]
        /\ run' = IF c # Null THEN [run EXCEPT ![w].at = "page", ![w].pos = c]
                  ELSE IF p < Len(Passes[m])
                         THEN [run EXCEPT ![w].at = "page", ![w].pass = p + 1,
                                          ![w].pos = StartOf(m, p + 1, run[w].from)]
                         ELSE [run EXCEPT ![w].at = "finish"]
  /\ UNCHANGED <<refreshed, crossed, queue, faults>>

\* By id, whatever the row says.
Finish(w) ==
  /\ run[w].at = "finish"
  /\ rows' = [rows EXCEPT ![run[w].row].status = "COMPLETED", ![run[w].row].cursor = Null]
  /\ run' = [run EXCEPT ![w].at = "fanin"]
  /\ UNCHANGED <<refreshed, crossed, queue, faults>>

\* The catch block: FAILED, by id, and the error goes on to the queue.
Failed(w) ==
  /\ run[w].at = "failed"
  /\ rows' = [rows EXCEPT ![run[w].row].status = "FAILED"]
  /\ Throws(w)
  /\ UNCHANGED <<refreshed, crossed, faults>>

-----------------------------------------------------------------------------
(* moduleSyncHandler, after the run.                                        *)

CompletedIn(g) == {rows[i].module : i \in {k \in DOMAIN rows : /\ rows[k].group = g
                                                               /\ rows[k].status = "COMPLETED"}}

\* Mutant: the group is looked at without the module that has just ended.
FaninEarly(w) ==
  /\ run[w].at = "fanin"
  /\ LET g == run[w].job.group
     IN refreshed' = IF g # NoGroup /\ Modules \subseteq CompletedIn(g) \ {run[w].job.module}
                       THEN refreshed \cup {g} ELSE refreshed
  /\ Returns(w)
  /\ UNCHANGED <<rows, crossed, faults>>

\* modulesCompletedInGroup; the job of a group that is complete enqueues the
\* refresh. (A run of orders or customers without a group enqueues one of its own.)
Fanin(w) ==
  /\ run[w].at = "fanin"
  /\ LET g == run[w].job.group
     IN refreshed' = IF g # NoGroup /\ Modules \subseteq CompletedIn(g)
                       THEN refreshed \cup {g} ELSE refreshed
  /\ Returns(w)
  /\ UNCHANGED <<rows, crossed, faults>>

-----------------------------------------------------------------------------
Works(w) == \/ \E m \in Modules : Fanout(w, m)
            \/ FannedOut(w)
            \/ Find(w) \/ Open(w) \/ Page(w) \/ (~Fits(w) /\ PageFails(w))
            \/ Checkpoint(w) \/ Finish(w) \/ Failed(w) \/ Fanin(w)

Next ==
  \/ \E j \in Requests : Request(j)
  \/ \E w \in Workers, j \in Jobs : Take(w, j)
  \/ \E w \in Workers : Works(w) \/ PageFails(w) \/ TimesOut(w) \/ Dies(w)

Spec == Init /\ [][Next]_vars

\* A handler that runs goes on, and an idle worker takes a waiting job.
Fairness == \A w \in Workers : WF_vars(Works(w)) /\ WF_vars(\E j \in Jobs : Take(w, j))

FairSpec == Spec /\ Fairness

-----------------------------------------------------------------------------
(* Properties.                                                              *)

\* The collections in which a run may lose pages: all but the first of those that
\* are given the run's cursor (the smart collections).
Exposed(m) == {p \in DOMAIN Passes[m] : p > 1 /\ Passes[m][p].keeps}

\* A run that reads COMPLETED has taken over every page of its module, although
\* it may have been resumed by several workers, two of them at the same time. The
\* exception is what Shopify skips when it takes a cursor of one collection for a
\* place in another: pages of an exposed collection, never of a first one, nor of
\* one that always starts at its beginning (the further chunks of the inventory).
CompletedIsWhole == \A i \in DOMAIN rows :
  rows[i].status = "COMPLETED" =>
    \A q \in Pages(rows[i].module) :
      \/ q \in rows[i].seen
      \/ q \in rows[i].skipped /\ q.pass \in Exposed(rows[i].module)

\* "the LAST finisher triggers the analytics refresh": a full sync ends in a
\* refresh, unless one of its jobs has used up its attempts, or one of its runs
\* was merged into a run of somebody else.
FullSyncRefreshes == \A g \in Groups :
  FullJob(g) \in asked ~> \/ g \in refreshed \/ g \in crossed
                          \/ ({FullJob(g)} \cup Members(g)) \cap dead # {}

=============================================================================
