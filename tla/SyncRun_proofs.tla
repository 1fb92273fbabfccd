--------------------------- MODULE SyncRun_proofs ---------------------------
(***************************************************************************)
(* For any modules, workers, requests and faults, and whatever Shopify makes  *)
(* of a strange cursor: a run that reads COMPLETED has taken over every page  *)
(* but those skipped in an exposed collection, however often it was resumed.  *)
(***************************************************************************)
EXTENDS SyncRun, SequenceTheorems, FiniteSetTheorems, TLAPS

Places == [pass : Nat, page : Nat]
Rows   == [module : Modules, full : BOOLEAN, status : {"RUNNING", "FAILED", "COMPLETED"},
           cursor : Places, group : Groups \cup {NoGroup}, seen : SUBSET Places,
           skipped : SUBSET Places]
Runs   == [at : {"idle", "fanout", "find", "open", "page", "checkpoint", "finish", "failed",
                 "fanin"},
           job : Jobs \cup {NoJob}, held : BOOLEAN, todo : SUBSET Modules, row : Nat,
           from : Places, pass : Nat, pos : Places]

\* Every variable keeps its type.
TypeOK ==
  /\ rows \in Seq(Rows)
  /\ refreshed \subseteq Groups /\ crossed \subseteq Groups
  /\ asked \subseteq Requests /\ jobs \subseteq Jobs /\ fails \in [Jobs -> Nat]
  /\ spent \subseteq Jobs /\ dead \subseteq Jobs
  /\ run \in [Workers -> Runs]
  /\ faults \in Nat

\* The pages of a collection before the one a cursor names, and the pages of the
\* collections before pass p.
Before(c)     == {[pass |-> c.pass, page |-> k] : k \in 1 .. c.page - 1}
Earlier(m, p) == {q \in Pages(m) : q.pass < p}

\* A cursor of module m that a run with these pages behind it may go on from.
Sound(m, c, S) == c \in Pages(m) /\ Before(c) \subseteq S /\ Earlier(m, c.pass) \subseteq S

\* The pages behind a run, taken over or skipped.
Behind(x) == x.seen \cup x.skipped

\* What a row says of its pages ...
RowTrue(x) ==
  /\ x.cursor # Null => Sound(x.module, x.cursor, Behind(x))
  /\ x.status = "COMPLETED" => Pages(x.module) \subseteq Behind(x)
  /\ \A q \in x.skipped : q.pass \in Exposed(x.module)
RowsTrue == \A i \in DOMAIN rows : RowTrue(rows[i])

\* ... and what a handler that runs a module knows of its row: the cursor it was
\* given, the collections behind it, the pages behind it in this one, the page it
\* has just read, and in the end all of them.
HasRow(w)  == /\ run[w].row \in DOMAIN rows
              /\ rows[run[w].row].module = run[w].job.module
Seen(w)    == Behind(rows[run[w].row])
Resumed(w) == run[w].from = Null \/ Sound(run[w].job.module, run[w].from, Seen(w))
Knows(w) ==
  /\ run[w].at = "idle" => ~run[w].held
  /\ run[w].at # "idle" => run[w].job \in Jobs
  /\ run[w].at = "fanout" => run[w].job.kind = "full"
  /\ run[w].at \notin {"idle", "fanout"} => run[w].job.module \in Modules
  /\ run[w].at = "open" => \/ run[w].row = 0 /\ run[w].from = Null
                           \/ HasRow(w) /\ Resumed(w)
  /\ run[w].at \in {"page", "checkpoint", "finish", "failed", "fanin"} => HasRow(w)
  /\ run[w].at \in {"page", "checkpoint"} =>
       /\ run[w].pass \in DOMAIN Passes[run[w].job.module]
       /\ Resumed(w)
       /\ Earlier(run[w].job.module, run[w].pass) \subseteq Seen(w)
       /\ Sound(run[w].job.module, run[w].pos, Seen(w))
       /\ Fits(w) \/ Passes[run[w].job.module][run[w].pass].keeps
  /\ run[w].at = "checkpoint" => Fits(w) /\ run[w].pos \in Seen(w)
  /\ run[w].at = "finish" => Pages(run[w].job.module) \subseteq Seen(w)

IInv == TypeOK /\ RowsTrue /\ \A w \in Workers : Knows(w)

-----------------------------------------------------------------------------
(* Jobs, pages and cursors.                                                 *)

\* What the jobs are.
LEMMA JobFacts ==
  /\ Requests \subseteq Jobs
  /\ \A g \in Groups, m \in Modules : ModuleJob(m, g) \in Jobs
<1> USE DEF FullJob, ModuleJob, DailyJob, ManualJob
<1>1. Requests \subseteq Jobs
  BY DEF Jobs
<1>2. ASSUME NEW g \in Groups, NEW m \in Modules PROVE ModuleJob(m, g) \in Jobs
  <2>1. ModuleJob(m, g) \in Members(g)
    BY DEF Members
  <2> QED BY <2>1 DEF Jobs
<1> QED BY <1>1, <1>2

\* Which modules and groups they name.
LEMMA JobNames ==
  ASSUME NEW j \in Jobs
  PROVE  /\ j.kind # "full" => j.module \in Modules
         /\ j.group \in Groups \cup {NoGroup}
         /\ j.kind = "full" => j.group \in Groups
<1> USE DEF FullJob, ModuleJob, DailyJob, ManualJob
<1>1. CASE j \in Requests
  BY <1>1, RequestAssumption DEF Requests
<1>2. ASSUME NEW g \in Groups, j \in Members(g)
      PROVE  j.kind # "full" /\ j.module \in Modules /\ j.group = g
  BY <1>2 DEF Members
<1> QED BY <1>1, <1>2 DEF Jobs

\* A module has a collection, and each of them a page.
LEMMA PassFacts ==
  ASSUME NEW m \in Modules
  PROVE  /\ Len(Passes[m]) \in Nat \ {0} /\ DOMAIN Passes[m] = 1 .. Len(Passes[m])
         /\ \A p \in DOMAIN Passes[m] : Passes[m][p].pages \in Nat \ {0}
<1>1. Passes[m] \in Seq([pages : Nat \ {0}, keeps : BOOLEAN]) /\ Passes[m] # <<>>
  BY PlanAssumption
<1>2. Len(Passes[m]) \in Nat /\ DOMAIN Passes[m] = 1 .. Len(Passes[m])
  BY <1>1
<1>3. Len(Passes[m]) # 0
  BY <1>1, EmptySeq
<1>4. ASSUME NEW p \in DOMAIN Passes[m] PROVE Passes[m][p].pages \in Nat \ {0}
  <2>1. Passes[m][p] \in [pages : Nat \ {0}, keeps : BOOLEAN]
    BY <1>1, <1>2, ElementOfSeq
  <2> QED BY <2>1
<1> QED BY <1>2, <1>3, <1>4

\* A page is a collection of the module and a number in its range.
LEMMA PageFacts ==
  ASSUME NEW m \in Modules
  PROVE  \A q : q \in Pages(m) <=>
           \E p \in DOMAIN Passes[m] : \E i \in 1 .. Passes[m][p].pages :
             q = [pass |-> p, page |-> i]
  BY DEF Pages

\* Every collection has a first page, and nothing of it is before that.
LEMMA FirstFacts ==
  ASSUME NEW m \in Modules, NEW p \in DOMAIN Passes[m], NEW S, Earlier(m, p) \subseteq S
  PROVE  Sound(m, First(p), S) /\ First(p).pass = p
<1>1. Passes[m][p].pages \in Nat \ {0}
  BY PassFacts
<1>2. First(p) \in Pages(m)
  <2>1. 1 \in 1 .. Passes[m][p].pages
    BY <1>1
  <2> QED BY <2>1, PageFacts DEF First
<1>3. Before(First(p)) = {}
  BY DEF Before, First
<1> QED BY <1>2, <1>3 DEF Sound, First

\* Pages are places, and none of them is Null.
LEMMA PlaceFacts ==
  ASSUME NEW m \in Modules, NEW q \in Pages(m)
  PROVE  /\ q \in Places /\ q # Null /\ q = [pass |-> q.pass, page |-> q.page]
         /\ q.pass \in DOMAIN Passes[m] /\ q.page \in 1 .. Passes[m][q.pass].pages
         /\ Passes[m][q.pass].pages \in Nat
<1>0. PICK p \in DOMAIN Passes[m] : \E i \in 1 .. Passes[m][p].pages : q = [pass |-> p, page |-> i]
  BY PageFacts
<1>1. PICK i \in 1 .. Passes[m][p].pages : q = [pass |-> p, page |-> i]
  BY <1>0
<1>2. Passes[m][p].pages \in Nat \ {0} /\ p \in Nat /\ p # 0
  BY PassFacts
<1> QED BY <1>1, <1>2 DEF Places, Null

\* More pages seen leave a cursor sound.
LEMMA SoundGrows ==
  ASSUME NEW m, NEW c, NEW S, NEW T, S \subseteq T, Sound(m, c, S)
  PROVE  Sound(m, c, T)
  BY DEF Sound

\* A pass starts at a cursor the run may go on from, its own unless it is given
\* the run's.
LEMMA StartFacts ==
  ASSUME NEW m \in Modules, NEW p \in DOMAIN Passes[m], NEW S, NEW c,
         c = Null \/ Sound(m, c, S), Earlier(m, p) \subseteq S
  PROVE  /\ Sound(m, StartOf(m, p, c), S)
         /\ StartOf(m, p, c).pass = p \/ Passes[m][p].keeps
<1>1. CASE Passes[m][p].keeps /\ c # Null
  BY <1>1 DEF StartOf
<1>2. CASE ~(Passes[m][p].keeps /\ c # Null)
  BY <1>2, FirstFacts DEF StartOf
<1> QED BY <1>1, <1>2

\* The page after one that is seen, like all before it, is a sound cursor; when
\* there is none, the collection is seen.
LEMMA NextFacts ==
  ASSUME NEW m \in Modules, NEW S, NEW c, Sound(m, c, S), c \in S
  PROVE  /\ NextPage(m, c) # Null => Sound(m, NextPage(m, c), S) /\ NextPage(m, c).pass = c.pass
         /\ NextPage(m, c) = Null => \A q \in Pages(m) : q.pass = c.pass => q \in S
<1>1. /\ c = [pass |-> c.pass, page |-> c.page] /\ c.pass \in DOMAIN Passes[m]
      /\ c.page \in 1 .. Passes[m][c.pass].pages /\ Passes[m][c.pass].pages \in Nat
      /\ c.pass \in Nat /\ c.pass # 0
  BY PlaceFacts, PassFacts DEF Sound
<1>2. CASE c.page < Passes[m][c.pass].pages
  <2>1. NextPage(m, c) = [pass |-> c.pass, page |-> c.page + 1]
    BY <1>1, <1>2 DEF NextPage
  <2>2. NextPage(m, c) \in Pages(m)
    <3>1. c.page + 1 \in 1 .. Passes[m][c.pass].pages
      BY <1>1, <1>2
    <3> QED BY <1>1, <2>1, <3>1, PageFacts
  <2>3. \A k \in 1 .. c.page : [pass |-> c.pass, page |-> k] \in S
    BY <1>1 DEF Sound, Before
  <2>4. Before(NextPage(m, c)) \subseteq S
    BY <1>1, <2>1, <2>3 DEF Before
  <2>5. NextPage(m, c) # Null
    BY <2>1, <1>1 DEF Null
  <2> QED BY <2>1, <2>2, <2>4, <2>5 DEF Sound
<1>3. CASE ~(c.page < Passes[m][c.pass].pages)
  <2>1. NextPage(m, c) = Null /\ c.page = Passes[m][c.pass].pages
    BY <1>1, <1>3 DEF NextPage
  <2>2. ASSUME NEW q \in Pages(m), q.pass = c.pass PROVE q \in S
    <3>1. q = [pass |-> c.pass, page |-> q.page] /\ q.page \in 1 .. c.page
      BY <2>1, <2>2, PlaceFacts
    <3>2. CASE q.page = c.page
      BY <1>1, <3>1, <3>2
    <3>3. CASE q.page # c.page
      <4>1. q.page \in 1 .. c.page - 1
        BY <1>1, <3>1, <3>3
      <4> QED BY <3>1, <4>1 DEF Sound, Before
    <3> QED BY <3>2, <3>3
  <2> QED BY <2>1, <2>2
<1> QED BY <1>2, <1>3

-----------------------------------------------------------------------------
(* Types.                                                                   *)

LEMMA InitInv == Init => IInv
<1> SUFFICES ASSUME Init PROVE IInv
  OBVIOUS
<1>1. Idle \in Runs
  BY DEF Idle, Runs, Null, Places
<1>2. rows \in Seq(Rows) /\ DOMAIN rows = {}
  BY EmptySeq DEF Init
<1>3. TypeOK
  BY <1>1, <1>2 DEF Init, TypeOK
<1>4. RowsTrue /\ \A w \in Workers : Knows(w)
  BY <1>2 DEF Init, RowsTrue, Knows, Idle
<1> QED BY <1>3, <1>4 DEF IInv

LEMMA EnqueueType ==
  ASSUME TypeOK, NEW j \in Jobs, Enqueue(j)
  PROVE  jobs' \subseteq Jobs /\ fails' \in [Jobs -> Nat] /\ spent' \subseteq Jobs /\ dead' \subseteq Jobs
  BY DEF TypeOK, Enqueue

LEMMA JobFailsType ==
  ASSUME TypeOK, NEW j \in Jobs, JobFails(j)
  PROVE  /\ jobs' \subseteq Jobs /\ fails' \in [Jobs -> Nat] /\ spent' \subseteq Jobs
         /\ dead' \subseteq Jobs /\ asked' = asked
<1>1. fails' \in [Jobs -> Nat]
  BY DEF TypeOK, JobFails
<1>2. CASE fails[j] + 1 < Tries(j)
  BY <1>1, <1>2 DEF TypeOK, JobFails
<1>3. CASE ~(fails[j] + 1 < Tries(j))
  BY <1>1, <1>3 DEF TypeOK, JobFails
<1> QED BY <1>2, <1>3

\* A handler that throws or returns is idle, and its job is one of the queue's.
LEMMA ThrowsType ==
  ASSUME TypeOK, NEW w \in Workers, Knows(w), Throws(w)
  PROVE  /\ run' = [run EXCEPT ![w] = Idle] /\ asked' \subseteq Requests
         /\ jobs' \subseteq Jobs /\ fails' \in [Jobs -> Nat] /\ spent' \subseteq Jobs /\ dead' \subseteq Jobs
<1>1. CASE run[w].held
  <2>1. run[w].job \in Jobs /\ JobFails(run[w].job)
    BY <1>1 DEF Throws, Knows
  <2> QED BY <2>1, JobFailsType DEF Throws, TypeOK
<1>2. CASE ~run[w].held
  BY <1>2 DEF Throws, TypeOK, queue
<1> QED BY <1>1, <1>2

LEMMA ReturnsType ==
  ASSUME TypeOK, NEW w \in Workers, Knows(w), Returns(w)
  PROVE  /\ run' = [run EXCEPT ![w] = Idle] /\ asked' \subseteq Requests
         /\ jobs' \subseteq Jobs /\ fails' \in [Jobs -> Nat] /\ spent' \subseteq Jobs /\ dead' \subseteq Jobs
  BY DEF Returns, TypeOK, Knows

\* Types with a handler that stands elsewhere.
LEMMA RunType ==
  ASSUME TypeOK, NEW w \in Workers, NEW r \in Runs
  PROVE  [run EXCEPT ![w] = r] \in [Workers -> Runs]
  BY DEF TypeOK

LEMMA RunFacts ==
  ASSUME TypeOK, NEW w \in Workers
  PROVE  run[w] \in Runs /\ Idle \in Runs
  BY DEF TypeOK, Runs, Idle, Null, Places

-----------------------------------------------------------------------------
(* What other handlers do.                                                   *)

\* Rows keep their modules and what they have seen.
Grows == \A i \in DOMAIN rows : /\ i \in DOMAIN rows' /\ rows'[i].module = rows[i].module
                              /\ Behind(rows[i]) \subseteq Behind(rows'[i])

\* What a handler knows stays true while it rests.
LEMMA KnowsGrow ==
  ASSUME NEW w \in Workers, Knows(w), Grows, run'[w] = run[w]
  PROVE  Knows(w)'
<1>1. ASSUME HasRow(w) PROVE HasRow(w)' /\ Seen(w) \subseteq Seen(w)'
  BY <1>1 DEF HasRow, Seen, Grows
<1>2. ASSUME HasRow(w), Resumed(w) PROVE Resumed(w)'
  BY <1>1, <1>2, SoundGrows DEF Resumed
<1>3. ASSUME HasRow(w), Sound(run[w].job.module, run[w].pos, Seen(w))
      PROVE  Sound(run[w].job.module, run[w].pos, Seen(w))'
  BY <1>1, <1>3, SoundGrows
<1>4. Fits(w)' <=> Fits(w)
  BY DEF Fits
<1> QED BY <1>1, <1>2, <1>3, <1>4 DEF Knows

\* What the rows say stays true when they rest.
LEMMA RowsRest == ASSUME RowsTrue, rows' = rows PROVE RowsTrue' /\ Grows
  BY DEF RowsTrue, Grows

\* An idle handler knows nothing.
LEMMA IdleKnows == ASSUME NEW w \in Workers, run'[w] = Idle PROVE Knows(w)'
  BY DEF Knows, Idle

\* A step of one handler keeps the invariant, if that handler knows what it should.
LEMMA OneMoves ==
  ASSUME IInv, NEW w \in Workers, TypeOK', RowsTrue', Grows, Knows(w)',
         \A v \in Workers \ {w} : run'[v] = run[v]
  PROVE  IInv'
<1>1. ASSUME NEW v \in Workers PROVE Knows(v)'
  <2>1. CASE v = w
    BY <2>1
  <2>2. CASE v # w
    BY <2>2, KnowsGrow DEF IInv
  <2> QED BY <2>1, <2>2
<1> QED BY <1>1 DEF IInv

\* So does one that leaves rows and handlers alone.
LEMMA NoneMoves ==
  ASSUME IInv, TypeOK', UNCHANGED <<rows, run>>
  PROVE  IInv'
  BY KnowsGrow, RowsRest DEF IInv

\* A handler that ends, whatever the queue makes of it, leaves its row behind.
LEMMA EndStep ==
  ASSUME IInv, NEW w \in Workers, TypeOK', rows' = rows, run' = [run EXCEPT ![w] = Idle]
  PROVE  IInv'
<1>1. run'[w] = Idle /\ \A v \in Workers \ {w} : run'[v] = run[v]
  BY DEF IInv, TypeOK
<1> QED BY <1>1, OneMoves, RowsRest, IdleKnows DEF IInv

-----------------------------------------------------------------------------
(* The queue's and the fan-out's actions.                                    *)

LEMMA QueueSteps ==
  ASSUME IInv
  PROVE  /\ \A j \in Requests : Request(j) => IInv'
         /\ \A w \in Workers, j \in Jobs : Take(w, j) => IInv'
         /\ \A w \in Workers : TimesOut(w) \/ Dies(w) \/ FannedOut(w) \/ Fanin(w) => IInv'
         /\ \A w \in Workers, m \in Modules : Fanout(w, m) => IInv'
<1> USE DEF queue
<1>1. ASSUME NEW j \in Requests, Request(j) PROVE IInv'
  <2>1. j \in Jobs /\ Enqueue(j)
    BY <1>1, JobFacts DEF Request
  <2>2. TypeOK'
    BY <1>1, <2>1, EnqueueType DEF Request, IInv, TypeOK
  <2> QED BY <1>1, <2>2, NoneMoves DEF Request
<1>2. ASSUME NEW w \in Workers, NEW j \in Jobs, Take(w, j) PROVE IInv'
  <2> DEFINE r == [Idle EXCEPT !.at = IF j.kind = "full" THEN "fanout" ELSE "find", !.job = j,
                               !.held = TRUE, !.todo = IF j.kind = "full" THEN Modules ELSE {}]
  <2>1. r \in Runs /\ run' = [run EXCEPT ![w] = r]
    BY <1>2 DEF Take, Runs, Idle, Null, Places
  <2>2. TypeOK'
    BY <1>2, <2>1, RunType DEF Take, IInv, TypeOK
  <2>3. run'[w] = r /\ \A v \in Workers \ {w} : run'[v] = run[v]
    BY <2>1 DEF IInv, TypeOK
  <2>4. /\ r.at = (IF j.kind = "full" THEN "fanout" ELSE "find") /\ r.job = j /\ r.held = TRUE
    BY DEF Idle
  <2>5. r.at # "fanout" => j.module \in Modules
    BY <2>4, JobNames
  <2>6. Knows(w)'
    BY <2>3, <2>4, <2>5 DEF Knows
  <2> QED BY <1>2, <2>2, <2>3, <2>6, OneMoves, RowsRest DEF Take, IInv
<1>3. ASSUME NEW w \in Workers, TimesOut(w) PROVE IInv'
  <2>1. run[w].job \in Jobs /\ JobFails(run[w].job) /\ run[w] \in Runs
    BY <1>3, RunFacts DEF TimesOut, IInv, Knows
  <2>2. [run[w] EXCEPT !.held = FALSE] \in Runs
    BY <2>1 DEF Runs
  <2>3. run' = [run EXCEPT ![w] = [run[w] EXCEPT !.held = FALSE]]
    BY <1>3 DEF TimesOut
  <2>4. faults' \in Nat
    BY <1>3 DEF TimesOut, Fault, IInv, TypeOK
  <2>5. TypeOK'
    BY <1>3, <2>1, <2>2, <2>3, <2>4, JobFailsType, RunType DEF TimesOut, IInv, TypeOK
  <2>6. /\ run'[w] = [run[w] EXCEPT !.held = FALSE]
        /\ \A v \in Workers \ {w} : run'[v] = run[v]
    BY <2>3 DEF IInv, TypeOK
  <2>7. /\ run'[w].at = run[w].at /\ run'[w].job = run[w].job /\ run'[w].row = run[w].row
        /\ run'[w].from = run[w].from /\ run'[w].pass = run[w].pass /\ run'[w].pos = run[w].pos
        /\ run'[w].held = FALSE
    BY <2>1, <2>6 DEF Runs
  <2>8. Knows(w)'
    BY <1>3, <2>7 DEF TimesOut, IInv, Knows, HasRow, Seen, Resumed, Fits
  <2> QED BY <1>3, <2>5, <2>6, <2>8, OneMoves, RowsRest DEF TimesOut, IInv
<1>4. ASSUME NEW w \in Workers, Dies(w) PROVE IInv'
  <2>1. TypeOK'
    <3>1. faults' \in Nat /\ UNCHANGED <<rows, refreshed, crossed>> /\ Throws(w)
      BY <1>4 DEF Dies, Fault, IInv, TypeOK
    <3>2. /\ run' = [run EXCEPT ![w] = Idle] /\ asked' \subseteq Requests
          /\ jobs' \subseteq Jobs /\ fails' \in [Jobs -> Nat] /\ spent' \subseteq Jobs
          /\ dead' \subseteq Jobs
      BY <3>1, ThrowsType DEF IInv
    <3>3. run' \in [Workers -> Runs]
      BY <3>2, RunType, RunFacts DEF IInv
    <3> QED BY <3>1, <3>2, <3>3 DEF IInv, TypeOK
  <2> QED BY <1>4, <2>1, ThrowsType, EndStep DEF Dies, IInv
<1>5. ASSUME NEW w \in Workers, FannedOut(w) PROVE IInv'
  <2>1. TypeOK'
    BY <1>5, ReturnsType, RunType, RunFacts DEF FannedOut, IInv, TypeOK
  <2> QED BY <1>5, <2>1, ReturnsType, EndStep DEF FannedOut, IInv
<1>6. ASSUME NEW w \in Workers, Fanin(w) PROVE IInv'
  <2>1. run[w].job \in Jobs
    BY <1>6 DEF Fanin, IInv, Knows
  <2>2. refreshed' \subseteq Groups
    <3>1. run[w].job.group \in Groups \cup {NoGroup}
      BY <2>1, JobNames
    <3> QED BY <1>6, <3>1 DEF Fanin, IInv, TypeOK
  <2>3. TypeOK'
    BY <1>6, <2>2, ReturnsType, RunType, RunFacts DEF Fanin, IInv, TypeOK
  <2> QED BY <1>6, <2>3, ReturnsType, EndStep DEF Fanin, IInv
<1>7. ASSUME NEW w \in Workers, NEW m \in Modules, Fanout(w, m) PROVE IInv'
  <2>1. run[w].job \in Jobs /\ run[w].job.kind = "full" /\ run[w] \in Runs
    BY <1>7, RunFacts DEF Fanout, IInv, Knows
  <2>2. ModuleJob(m, run[w].job.group) \in Jobs
    <3>1. run[w].job.group \in Groups
      BY <2>1, JobNames
    <3> QED BY <3>1, JobFacts
  <2> DEFINE r == [run[w] EXCEPT !.todo = @ \ {m}]
  <2>3. r \in Runs /\ run' = [run EXCEPT ![w] = r]
    BY <1>7, <2>1 DEF Fanout, Runs
  <2>4. TypeOK'
    BY <1>7, <2>2, <2>3, EnqueueType, RunType DEF Fanout, IInv, TypeOK
  <2>5. run'[w] = r /\ \A v \in Workers \ {w} : run'[v] = run[v]
    BY <2>3 DEF IInv, TypeOK
  <2>6. r.at = "fanout" /\ r.job = run[w].job
    BY <1>7, <2>1 DEF Fanout, Runs
  <2>7. Knows(w)'
    BY <2>1, <2>5, <2>6 DEF Knows
  <2> QED BY <1>7, <2>4, <2>5, <2>7, OneMoves, RowsRest DEF Fanout, IInv
<1> QED BY <1>1, <1>2, <1>3, <1>4, <1>5, <1>6, <1>7

-----------------------------------------------------------------------------
(* runModuleSync.                                                           *)

\* A row, and the rows with one of them changed.
LEMMA RowFacts ==
  ASSUME TypeOK, NEW i \in DOMAIN rows
  PROVE  /\ i \in Nat /\ i # 0 /\ rows[i] \in Rows
         /\ \A x \in Rows : /\ [rows EXCEPT ![i] = x] \in Seq(Rows)
                            /\ DOMAIN [rows EXCEPT ![i] = x] = DOMAIN rows
<1>1. rows \in Seq(Rows) /\ DOMAIN rows = 1 .. Len(rows) /\ Len(rows) \in Nat
  BY DEF TypeOK
<1>2. rows[i] \in Rows
  BY <1>1, ElementOfSeq
<1>3. ASSUME NEW x \in Rows PROVE [rows EXCEPT ![i] = x] \in Seq(Rows)
  BY <1>1, <1>3, ExceptSeq
<1> QED BY <1>1, <1>2, <1>3

\* A change of one row that keeps its module and its pages, and is true of them.
LEMMA RowStep ==
  ASSUME TypeOK, RowsTrue, NEW i \in DOMAIN rows, NEW x \in Rows,
         rows' = [rows EXCEPT ![i] = x],
         x.module = rows[i].module, Behind(rows[i]) \subseteq Behind(x), RowTrue(x)
  PROVE  rows' \in Seq(Rows) /\ RowsTrue' /\ Grows /\ DOMAIN rows' = DOMAIN rows /\ rows'[i] = x
<1>1. rows' \in Seq(Rows) /\ DOMAIN rows' = DOMAIN rows
  BY RowFacts
<1>2. rows'[i] = x /\ \A k \in DOMAIN rows \ {i} : rows'[k] = rows[k]
  BY <1>1
<1>3. ASSUME NEW k \in DOMAIN rows
      PROVE  /\ RowTrue(rows'[k])
             /\ rows'[k].module = rows[k].module /\ Behind(rows[k]) \subseteq Behind(rows'[k])
  <2>1. CASE k = i
    BY <1>2, <2>1
  <2>2. CASE k # i
    BY <1>2, <2>2 DEF RowsTrue
  <2> QED BY <2>1, <2>2
<1>4. RowsTrue' <=> \A k \in DOMAIN rows' : RowTrue(rows'[k])
  BY DEF RowsTrue
<1> QED BY <1>1, <1>2, <1>3, <1>4 DEF Grows

\* The greatest of some numbers below n: the intervals from each of them to n have
\* a least one, as finite sets are well founded.
LEMMA GreatestOf ==
  ASSUME NEW n \in Nat, NEW S \in SUBSET (1 .. n), S # {}
  PROVE  \E i \in S : \A k \in S : k <= i
<1> DEFINE F == {i .. n : i \in S}
<1>1. IsWellFoundedOn(StrictSubsetOrdering(Nat), FiniteSubsetsOf(Nat))
  BY FS_StrictSubsetOrderingWellFounded
<1>2. F \subseteq FiniteSubsetsOf(Nat)
  <2>1. ASSUME NEW i \in S PROVE i .. n \subseteq Nat /\ IsFiniteSet(i .. n)
    BY FS_Interval
  <2> QED BY <2>1 DEF FiniteSubsetsOf
<1>3. F # {}
  OBVIOUS
<1>4. PICK x \in F : \A y \in F : ~(<<y, x>> \in StrictSubsetOrdering(Nat))
  <2> HIDE DEF F
  <2> QED BY <1>1, <1>2, <1>3, WFMin
<1>5. PICK i \in S : x = i .. n
  OBVIOUS
<1>6. ASSUME NEW k \in S, i < k PROVE FALSE
  <2>1. k .. n \in F /\ k .. n \subseteq i .. n
    BY <1>6
  <2>2. i \in i .. n /\ i \notin k .. n
    BY <1>6
  <2>3. k .. n # i .. n
    BY <2>2
  <2>4. k .. n \subseteq Nat /\ i .. n \subseteq Nat
    OBVIOUS
  <2> QED BY <1>4, <1>5, <2>1, <2>3, <2>4 DEF StrictSubsetOrdering
<1> QED BY <1>6

\* findResumableRun hands on a cursor that is true of its row.
LEMMA FindStep == ASSUME IInv, NEW w \in Workers, Find(w) PROVE IInv'
<1> DEFINE m   == run[w].job.module
           old == IF full(w) THEN Resumable(m) ELSE {}
           i   == IF old = {} THEN 0 ELSE CHOOSE i \in old : \A k \in old : k <= i
           c   == IF i = 0 THEN Null ELSE rows[i].cursor
           r   == [run[w] EXCEPT !.at = "open", !.row = i, !.from = c]
<1>1. /\ run[w].at = "find" /\ run' = [run EXCEPT ![w] = r]
      /\ UNCHANGED <<rows, refreshed, queue, faults>>
      /\ crossed' = IF i # 0 /\ Meets(w, i)
                      THEN crossed \cup ({rows[i].group, run[w].job.group} \ {NoGroup})
                      ELSE crossed
  <2>1. /\ run' = [run EXCEPT ![w].at = "open", ![w].row = i, ![w].from = c]
        /\ crossed' = IF i # 0 /\ Meets(w, i)
                        THEN crossed \cup ({rows[i].group, run[w].job.group} \ {NoGroup})
                        ELSE crossed
    BY Zenon DEF Find
  <2>2. run[w].at = "find" /\ UNCHANGED <<rows, refreshed, queue, faults>>
    BY DEF Find
  <2> HIDE DEF i, c
  <2> QED BY <2>1, <2>2
<1>2. TypeOK /\ RowsTrue /\ Knows(w)
  BY DEF IInv
<1>3. run[w] \in Runs /\ run[w].job \in Jobs /\ m \in Modules
  BY <1>1, <1>2, RunFacts DEF Knows
<1>4. i = 0 \/ i \in Resumable(m)
  <2>1. old \in SUBSET (1 .. Len(rows)) /\ Len(rows) \in Nat
    BY <1>2 DEF Resumable, TypeOK
  <2>2. CASE old # {}
    <3>1. \E k \in old : \A l \in old : l <= k
      BY <2>1, <2>2, GreatestOf
    <3>2. i \in old
      <4> HIDE DEF old
      <4> QED BY <2>2, <3>1
    <3> QED BY <2>2, <3>2
  <2>3. CASE old = {}
    BY <2>3
  <2> QED BY <2>2, <2>3
<1> HIDE DEF i
<1>5. CASE i = 0
  <2>1. /\ Null \in Places /\ c = Null
    BY <1>5 DEF Null, Places
  <2>2. r \in Runs /\ crossed' = crossed
    BY <1>1, <1>3, <1>5, <2>1 DEF Runs
  <2>3. TypeOK'
    BY <1>1, <1>2, <2>2, RunType DEF TypeOK, queue
  <2>4. run'[w] = r /\ \A v \in Workers \ {w} : run'[v] = run[v]
    BY <1>1, <1>2 DEF TypeOK
  <2>5. r.at = "open" /\ r.row = 0 /\ r.from = Null /\ r.job = run[w].job
    BY <1>3, <1>5, <2>1 DEF Runs
  <2>6. Knows(w)'
    BY <1>3, <2>4, <2>5 DEF Knows
  <2> QED BY <1>1, <1>2, <2>3, <2>4, <2>6, OneMoves, RowsRest
<1>6. CASE i # 0
  <2>1. /\ i \in DOMAIN rows /\ rows[i].module = m /\ rows[i].cursor # Null /\ c = rows[i].cursor
    BY <1>4, <1>6 DEF Resumable
  <2>2. rows[i] \in Rows /\ i \in Nat
    BY <1>2, <2>1, RowFacts
  <2>3. Sound(m, c, Behind(rows[i]))
    BY <1>2, <2>1 DEF RowsTrue, RowTrue
  <2>4. c \in Places /\ rows[i].group \in Groups \cup {NoGroup}
    BY <2>1, <2>2 DEF Rows
  <2>5. r \in Runs
    BY <1>3, <2>2, <2>4 DEF Runs
  <2>6. crossed' \subseteq Groups
    <3>1. run[w].job.group \in Groups \cup {NoGroup}
      BY <1>3, JobNames
    <3> QED BY <1>1, <1>2, <2>4, <3>1 DEF TypeOK
  <2>7. TypeOK'
    BY <1>1, <1>2, <2>5, <2>6, RunType DEF TypeOK, queue
  <2>8. run'[w] = r /\ \A v \in Workers \ {w} : run'[v] = run[v]
    BY <1>1, <1>2 DEF TypeOK
  <2>9. r.at = "open" /\ r.row = i /\ r.from = c /\ r.job = run[w].job
    BY <1>3 DEF Runs
  <2>10. Knows(w)'
    BY <1>1, <1>3, <2>1, <2>3, <2>8, <2>9 DEF Knows, HasRow, Resumed, Seen
  <2> QED BY <1>1, <1>2, <2>7, <2>8, <2>10, OneMoves, RowsRest
<1> QED BY <1>5, <1>6

\* A run begins a row, or goes on with one, at a cursor it may go on from.
LEMMA OpenStep == ASSUME IInv, NEW w \in Workers, Open(w) PROVE IInv'
<1> DEFINE m  == run[w].job.module
           i  == run[w].row
           n  == IF i # 0 THEN i ELSE Len(rows) + 1
           s  == StartOf(m, 1, run[w].from)
           r  == [run[w] EXCEPT !.at = "page", !.row = n, !.pass = 1, !.pos = s]
           x  == IF i # 0 THEN [rows[i] EXCEPT !.status = "RUNNING"]
                 ELSE [module |-> m, full |-> full(w), status |-> "RUNNING",
                       cursor |-> Null, group |-> run[w].job.group, seen |-> {},
                       skipped |-> {}]
<1>1. /\ run[w].at = "open" /\ run' = [run EXCEPT ![w] = r]
      /\ rows' = IF i # 0 THEN [rows EXCEPT ![i] = x] ELSE Append(rows, x)
      /\ UNCHANGED <<refreshed, crossed, queue, faults>>
  BY DEF Open
<1>2. TypeOK /\ RowsTrue /\ Knows(w)
  BY DEF IInv
<1>3. run[w] \in Runs /\ run[w].job \in Jobs /\ m \in Modules
  BY <1>1, <1>2, RunFacts DEF Knows
<1>4. \/ i = 0 /\ run[w].from = Null
      \/ i # 0 /\ HasRow(w) /\ Resumed(w)
  <2>1. i \in DOMAIN rows => i # 0
    BY <1>2, RowFacts
  <2> QED BY <1>1, <1>2, <2>1 DEF Knows, HasRow
<1>5. /\ rows' \in Seq(Rows) /\ RowsTrue' /\ Grows /\ n \in DOMAIN rows'
      /\ rows'[n].module = m
      /\ run[w].from = Null \/ Sound(m, run[w].from, Behind(rows'[n]))
  <2>1. CASE i = 0 /\ run[w].from = Null
    <3>1. x \in Rows
      <4>1. run[w].job.group \in Groups \cup {NoGroup}
        BY <1>3, JobNames
      <4>2. full(w) \in BOOLEAN
        BY DEF full
      <4> QED BY <1>3, <2>1, <4>1, <4>2 DEF Rows, Null, Places
    <3>2. /\ rows \in Seq(Rows) /\ rows' = Append(rows, x)
      BY <1>1, <1>2, <2>1 DEF TypeOK
    <3>3. /\ rows' \in Seq(Rows) /\ Len(rows) \in Nat /\ DOMAIN rows = 1 .. Len(rows)
          /\ DOMAIN rows' = 1 .. Len(rows) + 1 /\ rows'[Len(rows) + 1] = x
          /\ \A k \in 1 .. Len(rows) : rows'[k] = rows[k]
      BY <3>1, <3>2, AppendProperties
    <3>4. /\ n = Len(rows) + 1 /\ x.module = m /\ x.cursor = Null /\ x.status = "RUNNING"
          /\ x.skipped = {}
      BY <2>1
    <3>5. \A k \in DOMAIN rows' : k = Len(rows) + 1 \/ (k \in DOMAIN rows /\ rows'[k] = rows[k])
      BY <3>3
    <3>6. RowsTrue'
      <4> HIDE DEF x
      <4>1. RowTrue(x)
        BY <3>4 DEF RowTrue
      <4>2. \A k \in DOMAIN rows' : RowTrue(rows'[k])
        BY <1>2, <3>3, <3>5, <4>1 DEF RowsTrue
      <4>3. RowsTrue' <=> \A k \in DOMAIN rows' : RowTrue(rows'[k])
        BY DEF RowsTrue
      <4> QED BY <4>2, <4>3
    <3>7. Grows
      BY <3>3 DEF Grows
    <3> QED BY <2>1, <3>3, <3>4, <3>6, <3>7
  <2>2. CASE i # 0 /\ HasRow(w) /\ Resumed(w)
    <3>1. i \in DOMAIN rows /\ rows[i] \in Rows /\ rows[i].module = m /\ n = i
      BY <1>2, <2>2, RowFacts DEF HasRow
    <3>2. /\ x \in Rows /\ x.module = m /\ x.seen = rows[i].seen /\ x.cursor = rows[i].cursor
          /\ x.status = "RUNNING" /\ x.skipped = rows[i].skipped
      BY <2>2, <3>1 DEF Rows
    <3>3. rows' = [rows EXCEPT ![i] = x]
      BY <1>1, <2>2
    <3> HIDE DEF x
    <3>4. RowTrue(x) /\ Behind(x) = Behind(rows[i])
      BY <1>2, <3>1, <3>2 DEF RowsTrue, RowTrue, Behind
    <3>5. /\ rows' \in Seq(Rows) /\ RowsTrue' /\ Grows /\ DOMAIN rows' = DOMAIN rows /\ rows'[i] = x
      BY <1>2, <3>1, <3>2, <3>3, <3>4, RowStep
    <3>6. Behind(rows'[i]) = Behind(rows[i]) /\ rows'[i].module = m
      BY <3>2, <3>4, <3>5
    <3>7. run[w].from = Null \/ Sound(m, run[w].from, Behind(rows'[i]))
      BY <2>2, <3>6 DEF Resumed, Seen
    <3> QED BY <3>1, <3>5, <3>6, <3>7
  <2> QED BY <1>4, <2>1, <2>2
<1>12. Earlier(m, 1) = {}
  BY <1>3, PlaceFacts, PassFacts DEF Earlier
<1>6. /\ Sound(m, s, Behind(rows'[n])) /\ 1 \in DOMAIN Passes[m] /\ s \in Places
      /\ s.pass = 1 \/ Passes[m][1].keeps
  <2>1. 1 \in DOMAIN Passes[m]
    BY <1>3, PassFacts
  <2>2. Sound(m, s, Behind(rows'[n])) /\ (s.pass = 1 \/ Passes[m][1].keeps)
    <3> HIDE DEF n
    <3> QED BY <1>3, <1>5, <1>12, <2>1, StartFacts
  <2> QED BY <1>3, <2>1, <2>2, PlaceFacts DEF Sound
<1>7. n \in Nat
  BY <1>2, <1>3 DEF Runs, TypeOK
<1>8. r \in Runs
  <2> HIDE DEF n, s
  <2> QED BY <1>3, <1>6, <1>7 DEF Runs
<1>9. TypeOK'
  BY <1>1, <1>2, <1>5, <1>8, RunType DEF TypeOK, queue
<1>10. run'[w] = r /\ \A v \in Workers \ {w} : run'[v] = run[v]
  BY <1>1, <1>2 DEF TypeOK
<1>11. /\ r.at = "page" /\ r.row = n /\ r.pass = 1 /\ r.pos = s /\ r.job = run[w].job
       /\ r.from = run[w].from
  <2> HIDE DEF n, s
  <2> QED BY <1>3 DEF Runs
<1>13. Knows(w)'
  <2> HIDE DEF n, s, r, m
  <2>1. run'[w].job.module = m /\ run'[w].job \in Jobs
    BY <1>3, <1>10, <1>11 DEF m
  <2> QED BY <1>3, <1>5, <1>6, <1>10, <1>11, <1>12, <2>1 DEF Knows, HasRow, Resumed, Seen, Fits
<1> QED BY <1>5, <1>9, <1>10, <1>13, OneMoves

\* One page more is seen: the one the cursor names, or, if Shopify takes the
\* cursor for a place in another collection, the one at that place; what is before
\* it there is seen already or skipped in an exposed collection.
LEMMA PageStep == ASSUME IInv, NEW w \in Workers, Page(w) PROVE IInv'
<1> DEFINE m  == run[w].job.module
           p  == run[w].pass
           i  == run[w].row
           n  == Passes[m][p].pages
<1>1. TypeOK /\ RowsTrue /\ Knows(w) /\ run[w].at = "page"
  BY DEF IInv, Page
<1>2. run[w] \in Runs /\ run[w].job \in Jobs /\ m \in Modules
  BY <1>1, RunFacts DEF Knows
<1>3. /\ i \in DOMAIN rows /\ rows[i] \in Rows /\ rows[i].module = m /\ p \in DOMAIN Passes[m]
      /\ Resumed(w) /\ Earlier(m, p) \subseteq Behind(rows[i])
      /\ Sound(m, run[w].pos, Behind(rows[i])) /\ RowTrue(rows[i])
      /\ Fits(w) \/ Passes[m][p].keeps
  BY <1>1, RowFacts DEF Knows, HasRow, Seen, RowsTrue
<1>4. /\ p \in Nat /\ p # 0 /\ n \in Nat /\ n # 0
      /\ \A k \in 1 .. n : [pass |-> p, page |-> k] \in Pages(m)
  <2>1. p \in 1 .. Len(Passes[m]) /\ Len(Passes[m]) \in Nat /\ n \in Nat \ {0}
    BY <1>2, <1>3, PassFacts
  <2>2. \A k \in 1 .. n : [pass |-> p, page |-> k] \in Pages(m)
    <3> HIDE DEF m, p
    <3> QED BY <1>2, <1>3, PageFacts
  <2> QED BY <2>1, <2>2
<1>5. /\ run[w].pos \in Pages(m) /\ run[w].pos.pass \in Nat /\ run[w].pos.page \in Nat
      /\ run[w].pos.pass # 0
      /\ Fits(w) => run[w].pos = [pass |-> p, page |-> run[w].pos.page]
                    /\ run[w].pos.page \in 1 .. n
  BY <1>2, <1>3, PlaceFacts, PassFacts DEF Sound, Fits
<1>6. PICK k \in IF Fits(w) THEN {run[w].pos.page} ELSE 1 .. n + 1 :
        /\ rows' = [rows EXCEPT
             ![i].seen = @ \cup ({[pass |-> p, page |-> k]} \cap Pages(m)),
             ![i].skipped = IF Fits(w) THEN @ ELSE
                @ \cup ({[pass |-> p, page |-> l] : l \in 1 .. k - 1} \ rows[i].seen)]
        /\ run' = [run EXCEPT ![w].at = "checkpoint",
                              ![w].pos = [pass |-> p, page |-> IF k <= n THEN k ELSE n]]
  BY DEF Page
<1>7. UNCHANGED <<refreshed, crossed, queue, faults>>
  BY DEF Page
<1>8. k \in 1 .. n + 1 /\ k \in Nat /\ (Fits(w) => k = run[w].pos.page)
  <2>1. CASE Fits(w)
    <3>1. k = run[w].pos.page
      BY <2>1
    <3> QED BY <1>4, <1>5, <2>1, <3>1
  <2>2. CASE ~Fits(w)
    <3>1. k \in 1 .. n + 1
      BY <2>2
    <3> QED BY <1>4, <2>2, <3>1
  <2> QED BY <2>1, <2>2
<1> DEFINE new == {[pass |-> p, page |-> k]} \cap Pages(m)
           gap == IF Fits(w) THEN {}
                  ELSE {[pass |-> p, page |-> l] : l \in 1 .. k - 1} \ rows[i].seen
           at  == [pass |-> p, page |-> IF k <= n THEN k ELSE n]
           x   == [rows[i] EXCEPT !.seen = @ \cup new, !.skipped = @ \cup gap]
           r   == [run[w] EXCEPT !.at = "checkpoint", !.pos = at]
<1>9. rows' = [rows EXCEPT ![i] = x] /\ run' = [run EXCEPT ![w] = r]
  <2>1. rows' = [rows EXCEPT ![i] = [rows[i] EXCEPT
              !.seen = @ \cup new,
              !.skipped = IF Fits(w) THEN @ ELSE
                @ \cup ({[pass |-> p, page |-> l] : l \in 1 .. k - 1} \ rows[i].seen)]]
    BY <1>3, <1>6
  <2>2. run' = [run EXCEPT ![w] = r]
    BY <1>6
  <2>3. CASE Fits(w)
    <3>1. gap = {} /\ x = [rows[i] EXCEPT !.seen = @ \cup new]
      BY <1>3, <2>3 DEF Rows
    <3>2. rows' = [rows EXCEPT ![i] = [rows[i] EXCEPT !.seen = @ \cup new, !.skipped = @]]
      BY <2>1, <2>3
    <3>3. [rows[i] EXCEPT !.seen = @ \cup new, !.skipped = @] = [rows[i] EXCEPT !.seen = @ \cup new]
      BY <1>3 DEF Rows
    <3> HIDE DEF new, x
    <3> QED BY <2>2, <3>1, <3>2, <3>3
  <2>4. CASE ~Fits(w)
    BY <2>1, <2>2, <2>4
  <2> QED BY <2>3, <2>4
<1>10. gap \subseteq Pages(m)
  <2>1. \A l \in 1 .. k - 1 : l \in 1 .. n
    BY <1>4, <1>8
  <2> QED BY <1>4, <2>1
<1>11. Pages(m) \subseteq Places
  BY <1>2, PlaceFacts
<1>12. /\ x \in Rows /\ x.module = m /\ x.cursor = rows[i].cursor /\ x.status = rows[i].status
       /\ x.seen = rows[i].seen \cup new /\ x.skipped = rows[i].skipped \cup gap
  <2>1. new \subseteq Places /\ gap \subseteq Places
    BY <1>10, <1>11
  <2> HIDE DEF new, gap
  <2> QED BY <1>3, <2>1 DEF Rows
<1>13. Behind(x) = Behind(rows[i]) \cup new \cup gap
  <2> HIDE DEF x, new, gap
  <2> QED BY <1>12 DEF Behind
<1>14. ASSUME NEW q \in gap PROVE q.pass \in Exposed(m) \/ q \in rows[i].skipped
  <2>1. ~Fits(w) /\ q.pass = p /\ q \in Pages(m) /\ q \notin rows[i].seen
    BY <1>10
  <2>2. CASE p = 1
    <3>1. run[w].pos.pass # 1 /\ 1 < run[w].pos.pass
      BY <1>5, <2>1, <2>2 DEF Fits
    <3>2. q \in Earlier(m, run[w].pos.pass)
      BY <2>1, <2>2, <3>1 DEF Earlier
    <3> QED BY <1>3, <2>1, <3>2 DEF Sound, Behind
  <2>3. CASE p # 1
    <3>1. p > 1
      BY <1>4, <2>3
    <3>2. Passes[m][p].keeps
      BY <1>3, <2>1
    <3> QED BY <1>3, <2>1, <3>1, <3>2 DEF Exposed
  <2> QED BY <2>2, <2>3
<1>15. RowTrue(x)
  <2>1. x.cursor # Null => Sound(x.module, x.cursor, Behind(x))
    <3> HIDE DEF x, new, gap
    <3> QED BY <1>3, <1>12, <1>13, SoundGrows DEF RowTrue
  <2>2. x.status = "COMPLETED" => Pages(x.module) \subseteq Behind(x)
    <3> HIDE DEF x, new, gap
    <3> QED BY <1>3, <1>12, <1>13 DEF RowTrue
  <2>3. \A q \in x.skipped : q.pass \in Exposed(x.module)
    <3> HIDE DEF x, gap
    <3> QED BY <1>3, <1>12, <1>14 DEF RowTrue
  <2> QED BY <2>1, <2>2, <2>3 DEF RowTrue
<1>16. at \in Places /\ Sound(m, at, Behind(x)) /\ at \in Behind(x) /\ at.pass = p
  <2>1. at \in Pages(m) /\ at.pass = p
    <3>1. (IF k <= n THEN k ELSE n) \in 1 .. n
      BY <1>4, <1>8
    <3> QED BY <1>4, <3>1
  <2>2. Earlier(m, at.pass) \subseteq Behind(x)
    BY <1>3, <1>13, <2>1
  <2>3. CASE Fits(w)
    <3>1. at = run[w].pos /\ at \in new
      BY <1>5, <1>8, <2>1, <2>3
    <3> HIDE DEF at, x, new, gap
    <3> QED BY <1>3, <1>11, <1>13, <2>1, <2>2, <3>1 DEF Sound
  <2>4. CASE ~Fits(w)
    <3>1. \A l \in 1 .. k - 1 : [pass |-> p, page |-> l] \in Behind(x)
      <4>1. \A l \in 1 .. k - 1 : [pass |-> p, page |-> l] \in gap \cup rows[i].seen
        BY <2>4
      <4> HIDE DEF gap, x
      <4> QED BY <1>13, <4>1 DEF Behind
    <3>2. k <= n => at = [pass |-> p, page |-> k] /\ at \in new
      BY <2>1
    <3>3. ~(k <= n) => at = [pass |-> p, page |-> n] /\ n \in 1 .. k - 1
      BY <1>4, <1>8
    <3>4. at \in Behind(x)
      <4> HIDE DEF at, x, new, gap
      <4> QED BY <1>13, <3>1, <3>2, <3>3
    <3>5. \A l \in 1 .. at.page - 1 : l \in 1 .. k - 1
      BY <1>4, <1>8
    <3>6. Before(at) \subseteq Behind(x)
      <4>1. Before(at) = {[pass |-> p, page |-> l] : l \in 1 .. at.page - 1}
        BY <2>1 DEF Before
      <4> HIDE DEF at, x
      <4> QED BY <3>1, <3>5, <4>1
    <3> QED BY <1>11, <2>1, <2>2, <3>4, <3>6 DEF Sound
  <2> QED BY <2>3, <2>4
<1> HIDE DEF x, at
<1>17. /\ rows' \in Seq(Rows) /\ RowsTrue' /\ Grows /\ DOMAIN rows' = DOMAIN rows /\ rows'[i] = x
  <2>1. Behind(rows[i]) \subseteq Behind(x)
    BY <1>13
  <2> QED BY <1>1, <1>3, <1>9, <1>12, <1>15, <2>1, RowStep
<1>18. /\ r \in Runs /\ r.at = "checkpoint" /\ r.row = i /\ r.pass = p /\ r.pos = at
       /\ r.job = run[w].job /\ r.from = run[w].from
  BY <1>2, <1>16 DEF Runs
<1>19. TypeOK'
  BY <1>1, <1>7, <1>9, <1>17, <1>18, RunType DEF TypeOK, queue
<1>20. run'[w] = r /\ \A v \in Workers \ {w} : run'[v] = run[v]
  BY <1>1, <1>9 DEF TypeOK
<1>21. run[w].from = Null \/ Sound(m, run[w].from, Behind(x))
  BY <1>3, <1>13, SoundGrows DEF Resumed, Seen
<1>22. Knows(w)'
  <2> HIDE DEF r, p, i
  <2>1. /\ run'[w].at = "checkpoint" /\ run'[w].row = i /\ run'[w].pass = p
        /\ run'[w].pos = at /\ run'[w].job = run[w].job /\ run'[w].from = run[w].from
    BY <1>18, <1>20
  <2>2. HasRow(w)' /\ Seen(w)' = Behind(x)
    BY <1>3, <1>12, <1>17, <2>1 DEF HasRow, Seen
  <2>3. Resumed(w)' /\ Fits(w)'
    BY <1>16, <1>21, <2>1, <2>2 DEF Resumed, Fits
  <2>4. Earlier(m, p) \subseteq Behind(x)
    BY <1>3, <1>13
  <2> QED BY <1>2, <1>3, <1>16, <2>1, <2>2, <2>3, <2>4 DEF Knows
<1> QED BY <1>17, <1>19, <1>20, <1>22, OneMoves

\* The cursor moves to the next page, the next collection, or the end.
LEMMA CheckpointStep == ASSUME IInv, NEW w \in Workers, Checkpoint(w) PROVE IInv'
<1> DEFINE m == run[w].job.module
           p == run[w].pass
           i == run[w].row
           c == NextPage(m, run[w].pos)
           s == StartOf(m, p + 1, run[w].from)
           x == [rows[i] EXCEPT !.cursor = c]
           r == IF c # Null THEN [run[w] EXCEPT !.at = "page", !.pos = c]
                ELSE IF p < Len(Passes[m])
                       THEN [run[w] EXCEPT !.at = "page", !.pass = p + 1, !.pos = s]
                       ELSE [run[w] EXCEPT !.at = "finish"]
<1>1. /\ run[w].at = "checkpoint" /\ run' = [run EXCEPT ![w] = r]
      /\ rows' = [rows EXCEPT ![i] = x]
      /\ UNCHANGED <<refreshed, crossed, queue, faults>>
  BY DEF Checkpoint
<1>2. TypeOK /\ RowsTrue /\ Knows(w)
  BY DEF IInv
<1>3. run[w] \in Runs /\ run[w].job \in Jobs /\ m \in Modules
  BY <1>1, <1>2, RunFacts DEF Knows
<1>4. /\ i \in DOMAIN rows /\ rows[i] \in Rows /\ rows[i].module = m /\ p \in DOMAIN Passes[m]
      /\ run[w].from = Null \/ Sound(m, run[w].from, Behind(rows[i]))
      /\ Earlier(m, p) \subseteq Behind(rows[i])
      /\ Sound(m, run[w].pos, Behind(rows[i])) /\ run[w].pos.pass = p /\ run[w].pos \in Behind(rows[i])
      /\ RowTrue(rows[i])
  BY <1>1, <1>2, RowFacts DEF Knows, HasRow, Seen, Fits, Resumed, RowsTrue
<1>5. /\ c # Null => Sound(m, c, Behind(rows[i])) /\ c.pass = p
      /\ c = Null => \A q \in Pages(m) : q.pass = p => q \in Behind(rows[i])
  BY <1>3, <1>4, NextFacts
<1>6. c \in Places
  BY <1>3, <1>5, PlaceFacts DEF Sound, Places, Null
<1> HIDE DEF c
<1>7. /\ x \in Rows /\ x.module = m /\ x.seen = rows[i].seen /\ x.cursor = c
      /\ x.status = rows[i].status /\ x.skipped = rows[i].skipped
  BY <1>4, <1>6 DEF Rows
<1> HIDE DEF x
<1>8. Behind(x) = Behind(rows[i]) /\ RowTrue(x)
  BY <1>4, <1>5, <1>7 DEF RowTrue, Behind
<1>9. /\ rows' \in Seq(Rows) /\ RowsTrue' /\ Grows /\ DOMAIN rows' = DOMAIN rows /\ rows'[i] = x
  BY <1>1, <1>2, <1>4, <1>7, <1>8, RowStep
<1>10. run'[w] = r /\ \A v \in Workers \ {w} : run'[v] = run[v]
  BY <1>1, <1>2 DEF TypeOK
<1>11. p \in Nat /\ Len(Passes[m]) \in Nat /\ DOMAIN Passes[m] = 1 .. Len(Passes[m])
  BY <1>3, <1>4, PassFacts
<1>12. CASE c # Null
  <2>1. /\ r \in Runs /\ r.at = "page" /\ r.row = i /\ r.pass = p /\ r.pos = c
        /\ r.job = run[w].job /\ r.from = run[w].from
    BY <1>3, <1>6, <1>12 DEF Runs
  <2> HIDE DEF r, p, i
  <2>2. TypeOK'
    BY <1>1, <1>2, <1>9, <2>1, RunType DEF TypeOK, queue
  <2>3. HasRow(w)' /\ Seen(w)' = Behind(rows[i])
    BY <1>4, <1>7, <1>8, <1>9, <1>10, <2>1 DEF HasRow, Seen
  <2>4. Resumed(w)' /\ Fits(w)'
    BY <1>4, <1>5, <1>10, <1>12, <2>1, <2>3 DEF Resumed, Fits
  <2>5. Knows(w)'
    BY <1>3, <1>4, <1>5, <1>10, <1>12, <2>1, <2>3, <2>4 DEF Knows
  <2> QED BY <1>9, <1>10, <2>2, <2>5, OneMoves
<1>13. CASE c = Null /\ p < Len(Passes[m])
  <2>1. p + 1 \in DOMAIN Passes[m]
    BY <1>11, <1>13
  <2>5. Earlier(m, p + 1) \subseteq Behind(rows[i])
    <3> SUFFICES ASSUME NEW q \in Earlier(m, p + 1) PROVE q \in Behind(rows[i])
      OBVIOUS
    <3>1. q \in Pages(m) /\ q.pass < p + 1 /\ q.pass \in Nat
      BY <1>3, <1>11, PlaceFacts DEF Earlier
    <3>2. CASE q.pass = p
      BY <1>5, <1>13, <3>1, <3>2
    <3>3. CASE q.pass < p
      BY <1>4, <3>1, <3>3 DEF Earlier
    <3> QED BY <1>11, <3>1, <3>2, <3>3
  <2>2. Sound(m, s, Behind(rows[i])) /\ (s.pass = p + 1 \/ Passes[m][p + 1].keeps)
    BY <1>3, <1>4, <2>1, <2>5, StartFacts
  <2>3. s \in Places
    BY <1>3, <2>2, PlaceFacts DEF Sound
  <2> HIDE DEF s
  <2>4. /\ r \in Runs /\ r.at = "page" /\ r.row = i /\ r.pass = p + 1 /\ r.pos = s
        /\ r.job = run[w].job /\ r.from = run[w].from
    <3>1. p + 1 \in Nat /\ r = [run[w] EXCEPT !.at = "page", !.pass = p + 1, !.pos = s]
      BY <1>11, <1>13
    <3> HIDE DEF r
    <3> QED BY <1>3, <2>3, <3>1 DEF Runs
  <2> HIDE DEF r, i
  <2>6. TypeOK'
    BY <1>1, <1>2, <1>9, <2>4, RunType DEF TypeOK, queue
  <2>7. HasRow(w)' /\ Seen(w)' = Behind(rows[i])
    BY <1>4, <1>7, <1>8, <1>9, <1>10, <2>4 DEF HasRow, Seen
  <2>8. Resumed(w)' /\ (Fits(w)' \/ Passes[m][p + 1].keeps)
    BY <1>4, <1>10, <2>2, <2>4, <2>7 DEF Resumed, Fits
  <2>9. Knows(w)'
    BY <1>3, <1>10, <2>1, <2>2, <2>4, <2>5, <2>7, <2>8 DEF Knows
  <2> QED BY <1>9, <1>10, <2>6, <2>9, OneMoves
<1>14. CASE c = Null /\ ~(p < Len(Passes[m]))
  <2>1. /\ r \in Runs /\ r.at = "finish" /\ r.row = i /\ r.job = run[w].job
    BY <1>3, <1>14 DEF Runs
  <2>2. Pages(m) \subseteq Behind(rows[i])
    <3> SUFFICES ASSUME NEW q \in Pages(m) PROVE q \in Behind(rows[i])
      OBVIOUS
    <3>1. q.pass \in DOMAIN Passes[m] /\ p = Len(Passes[m])
      BY <1>3, <1>4, <1>11, <1>14, PlaceFacts
    <3>2. CASE q.pass = p
      BY <1>5, <1>14, <3>2
    <3>3. CASE q.pass < p
      BY <1>4, <3>3 DEF Earlier
    <3> QED BY <1>11, <3>1, <3>2, <3>3
  <2> HIDE DEF r, i
  <2>3. TypeOK'
    BY <1>1, <1>2, <1>9, <2>1, RunType DEF TypeOK, queue
  <2>4. HasRow(w)' /\ Seen(w)' = Behind(rows[i])
    BY <1>4, <1>7, <1>8, <1>9, <1>10, <2>1 DEF HasRow, Seen
  <2>5. Knows(w)'
    BY <1>3, <1>10, <2>1, <2>2, <2>4 DEF Knows
  <2> QED BY <1>9, <1>10, <2>3, <2>5, OneMoves
<1> QED BY <1>12, <1>13, <1>14

\* A run that has seen all completes its row, whatever the row says.
LEMMA FinishStep == ASSUME IInv, NEW w \in Workers, Finish(w) PROVE IInv'
<1> DEFINE i == run[w].row
           x == [rows[i] EXCEPT !.status = "COMPLETED", !.cursor = Null]
           r == [run[w] EXCEPT !.at = "fanin"]
<1>1. /\ run[w].at = "finish" /\ run' = [run EXCEPT ![w] = r]
      /\ UNCHANGED <<refreshed, crossed, queue, faults>>
  BY DEF Finish
<1>2. TypeOK /\ RowsTrue /\ Knows(w)
  BY DEF IInv
<1>3. run[w] \in Runs /\ run[w].job \in Jobs /\ run[w].job.module \in Modules
  BY <1>1, <1>2, RunFacts DEF Knows
<1>4. /\ i \in DOMAIN rows /\ rows[i] \in Rows /\ rows[i].module = run[w].job.module
      /\ Pages(rows[i].module) \subseteq Behind(rows[i]) /\ RowTrue(rows[i])
  BY <1>1, <1>2, RowFacts DEF Knows, HasRow, Seen, RowsTrue
<1>5. rows' = [rows EXCEPT ![i] = x]
  BY <1>2, <1>4 DEF Finish, TypeOK
<1>6. /\ x \in Rows /\ x.module = rows[i].module /\ x.seen = rows[i].seen /\ x.cursor = Null
      /\ x.skipped = rows[i].skipped
  BY <1>4 DEF Rows, Null, Places
<1> HIDE DEF x
<1>s. Behind(x) = Behind(rows[i]) /\ RowTrue(x)
  BY <1>4, <1>6 DEF RowTrue, Behind
<1>7. /\ rows' \in Seq(Rows) /\ RowsTrue' /\ Grows /\ DOMAIN rows' = DOMAIN rows /\ rows'[i] = x
  BY <1>2, <1>4, <1>5, <1>6, <1>s, RowStep
<1>8. r \in Runs /\ r.at = "fanin" /\ r.row = i /\ r.job = run[w].job
  BY <1>3 DEF Runs
<1>9. TypeOK'
  BY <1>1, <1>2, <1>7, <1>8, RunType DEF TypeOK, queue
<1>10. run'[w] = r /\ \A v \in Workers \ {w} : run'[v] = run[v]
  BY <1>1, <1>2 DEF TypeOK
<1>11. Knows(w)'
  BY <1>3, <1>4, <1>6, <1>7, <1>8, <1>10 DEF Knows, HasRow
<1> QED BY <1>7, <1>9, <1>10, <1>11, OneMoves

\* A run that fails leaves its row as far as it came.
LEMMA FailSteps ==
  ASSUME IInv, NEW w \in Workers
  PROVE  (PageFails(w) => IInv') /\ (Failed(w) => IInv')
<1>1. TypeOK /\ RowsTrue /\ Knows(w) /\ run[w] \in Runs
  BY RunFacts DEF IInv
<1>2. ASSUME PageFails(w) PROVE IInv'
  <2> DEFINE r == [run[w] EXCEPT !.at = "failed"]
  <2>1. /\ run[w].at = "page" /\ run' = [run EXCEPT ![w] = r]
        /\ UNCHANGED <<rows, refreshed, crossed, queue>>
    BY <1>2 DEF PageFails
  <2>2. faults' \in Nat
    BY <1>1, <1>2 DEF PageFails, Fault, TypeOK
  <2>3. r \in Runs /\ r.at = "failed" /\ r.row = run[w].row /\ r.job = run[w].job
    BY <1>1 DEF Runs
  <2>4. TypeOK'
    BY <1>1, <2>1, <2>2, <2>3, RunType DEF TypeOK, queue
  <2>5. run'[w] = r /\ \A v \in Workers \ {w} : run'[v] = run[v]
    BY <1>1, <2>1 DEF TypeOK
  <2>6. Knows(w)'
    BY <1>1, <2>1, <2>3, <2>5 DEF Knows, HasRow
  <2> QED BY <1>1, <2>1, <2>4, <2>5, <2>6, OneMoves, RowsRest
<1>3. ASSUME Failed(w) PROVE IInv'
  <2> DEFINE i == run[w].row
             x == [rows[i] EXCEPT !.status = "FAILED"]
  <2>1. /\ run[w].at = "failed" /\ rows' = [rows EXCEPT ![i] = x]
        /\ Throws(w) /\ UNCHANGED <<refreshed, crossed, faults>>
    BY <1>3 DEF Failed
  <2>2. i \in DOMAIN rows /\ rows[i] \in Rows
    BY <1>1, <2>1, RowFacts DEF Knows, HasRow
  <2>3. /\ x \in Rows /\ x.module = rows[i].module /\ x.seen = rows[i].seen
        /\ x.cursor = rows[i].cursor /\ x.status = "FAILED" /\ x.skipped = rows[i].skipped
    BY <2>2 DEF Rows
  <2> HIDE DEF x
  <2>4. Behind(x) = Behind(rows[i]) /\ RowTrue(x)
    BY <1>1, <2>2, <2>3 DEF RowsTrue, RowTrue, Behind
  <2>5. rows' \in Seq(Rows) /\ RowsTrue' /\ Grows
    BY <1>1, <2>1, <2>2, <2>3, <2>4, RowStep
  <2>6. /\ run' = [run EXCEPT ![w] = Idle] /\ asked' \subseteq Requests
        /\ jobs' \subseteq Jobs /\ fails' \in [Jobs -> Nat] /\ spent' \subseteq Jobs
        /\ dead' \subseteq Jobs
    BY <1>1, <2>1, ThrowsType
  <2>7. TypeOK'
    BY <1>1, <2>1, <2>5, <2>6, RunType, RunFacts DEF TypeOK
  <2>8. run'[w] = Idle /\ \A v \in Workers \ {w} : run'[v] = run[v]
    BY <1>1, <2>6 DEF TypeOK
  <2> QED BY <2>5, <2>7, <2>8, IdleKnows, OneMoves
<1> QED BY <1>2, <1>3

-----------------------------------------------------------------------------
(* The specification.                                                       *)

\* Every step keeps the invariant.
LEMMA StepInv == ASSUME IInv, [Next]_vars PROVE IInv'
<1>1. ASSUME NEW w \in Workers, Works(w) \/ PageFails(w) \/ TimesOut(w) \/ Dies(w) PROVE IInv'
  BY <1>1, QueueSteps, FindStep, OpenStep, PageStep, CheckpointStep, FinishStep, FailSteps
     DEF Works
<1>2. CASE UNCHANGED vars
  BY <1>2, NoneMoves DEF vars, queue, IInv, TypeOK
<1> QED BY <1>1, <1>2, QueueSteps DEF Next

\* The invariant holds always.
LEMMA Invariant == Spec => []IInv
<1>1. Init => IInv
  BY InitInv
<1>2. IInv /\ [Next]_vars => IInv'
  BY StepInv
<1> QED BY <1>1, <1>2, PTL DEF Spec

\* Every variable keeps its type: no job outside the plan is queued, no row outside
\* it written, and nobody stands where the handlers cannot stand.
THEOREM TypeCorrect == Spec => []TypeOK
<1>1. IInv => TypeOK
  BY DEF IInv
<1> QED BY <1>1, Invariant, PTL

\* A run that reads COMPLETED has taken over every page of its module, although it
\* may have been resumed by several workers, two of them at the same time, but for
\* pages of an exposed collection that Shopify skipped at a strange cursor: a cursor
\* is only ever written where everything before it, in its collection and the ones
\* before that, is behind the run (runner.ts, its checkpoint and completion;
\* modules/index.ts, the collections).
THEOREM CompletionIsWhole == Spec => []CompletedIsWhole
<1>1. IInv => CompletedIsWhole
  <2> SUFFICES ASSUME IInv, NEW i \in DOMAIN rows, rows[i].status = "COMPLETED",
                      NEW q \in Pages(rows[i].module), q \notin rows[i].seen
               PROVE  q \in rows[i].skipped /\ q.pass \in Exposed(rows[i].module)
    BY DEF CompletedIsWhole
  <2>1. RowTrue(rows[i])
    BY DEF IInv, RowsTrue
  <2>2. q \in rows[i].skipped
    BY <2>1 DEF RowTrue, Behind
  <2> QED BY <2>1, <2>2 DEF RowTrue
<1> QED BY <1>1, Invariant, PTL
=============================================================================
