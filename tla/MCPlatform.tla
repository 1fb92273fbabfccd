----------------------------- MODULE MCPlatform -----------------------------
(***************************************************************************)
(* The small components, side by side: a behaviour belongs to one of them and  *)
(* leaves the others at rest, so that one run visits the states of each.        *)
(***************************************************************************)
EXTENDS Naturals, Sequences, FiniteSets, TLC

CONSTANTS Users, Tabs, Browser, AccountOwner, Calls, MaxSessions, MaxTokens, MaxFaults,
          Pages, MaxSockets, MaxFailures,
          Readers, Writers, MaxChanges, MaxBumps,
          Exports, Attempts, Limit, MaxMishaps,
          Merchants, Operators, MaxMessages, MaxCrashes,
          States, Callbacks, MaxTroubles,
          Kinds, Handlers, Clicks, Tries, MaxTicks, MaxFlaws,
          Shapes, MaxEdges,
          Hours, Minutes, WeekDays, Months, MonthDays, Leap, Terms, Starts, Horizon,
          Callers, MaxCalls, MaxRows, MaxRuns, MaxDeaths,
          Things, Pieces, MaxEdits, MaxReads,
          Members, Texts, Recipients, MaxActive, MaxDrafts, MaxRevisions, MaxLosses,
          MaxActs,
          Senders, Source, Ask, Hand, Quota, TrialDays, Grace, Cycle, FinalDay, MaxUnits, MaxDeeds,
          Sources, LastDay, MostUsed,
          MaxNodes, MaxLinks

VARIABLES
  part,
  active, role, sessions, tokens, storage, tab, call, replayed, crossed, mishaps,
  started, ws, timers, starts, owner, near, far, count, handler, listening, set, wire, on, failures,
  data, version, entry, reader, writer,
  status, stored, asker, queued, begun, awaited, attempt, cut, upsets,
  ticket, messages, calls, orphans, crashes,
  minted, burned, store, trials, locked, install, provisioned, jobs, troubles,
  report, mailed, waiting, left, holder, at, kind, todo, failed, mails, built, tangled, again,
  ticks, flaws,
  shape, edges,
  expression, from, cursor, turns, answer,
  rows, run, raced, stranded, runs, deaths,
  shop, mirror, transit, sound, edits, reads,
  template, drafts, request, chosen, fate, got, opened, parted, barred, overlaps, revisions, losses,
  act, view, written, due, known, shown, marked, aged, fetch, mounted, outrun,
  today, sub, overrides, ledger, sender, deeds, spent,
  date, used, bucket, rolling, behind, lastRoll,
  form, filled, verdict,
  drawn, links, linking,
  viewer, page, thing, showing, asking, served

\* A few operators, recipients and retries; nobody is called none.
ASSUME DeskAssumption == IsFiniteSet(Operators)
ASSUME CacheAssumption == MaxBumps \in Nat
ASSUME ExportAssumption == Attempts \in Nat
ASSUME ReportAssumption == IsFiniteSet(Handlers) /\ IsFiniteSet(Clicks)
ASSUME InstallAssumption == "none" \notin Callbacks
ASSUME GraphAssumption == \A drawing \in Shapes :
  /\ IsFiniteSet(DOMAIN drawing)
  /\ drawing \in [DOMAIN drawing -> {"TRIGGER", "CONDITION", "DELAY", "ACTION"}]
ASSUME CronAssumption ==
  /\ {Hours, Minutes, Months, Leap} \subseteq Nat \ {0} /\ Starts \subseteq Nat /\ Horizon \in Nat
  /\ MonthDays \in [0 .. Leap - 1 -> [1 .. Months -> Nat \ {0}]]
ASSUME CampaignAssumption == IsFiniteSet(Recipients) /\ MaxActive \in Nat
ASSUME MeterAssumption ==
  /\ IsFiniteSet(Senders) /\ Source \in [Senders -> {"execution", "campaign", "workflow"}]
  /\ Ask \in [Senders -> Nat \ {0}] /\ Hand \in [Senders -> Nat]
  /\ Quota \in Nat \ {0} /\ {TrialDays, Grace, Cycle, FinalDay, MaxUnits} \subseteq Nat
ASSUME RollupAssumption == Sources \in Seq(STRING)
ASSUME EditorAssumption == MaxNodes \in Nat

authVars    == <<active, role, sessions, tokens, storage, tab, call, replayed, crossed, mishaps>>
fanoutVars  == <<started, ws, timers, starts, owner, near, far, count, handler, listening, set, wire, on,
                 failures>>
cacheVars   == <<data, version, entry, reader, writer>>
exportVars  == <<status, stored, asker, queued, begun, awaited, attempt, cut, upsets>>
deskVars    == <<ticket, messages, calls, orphans, crashes>>
installVars == <<minted, burned, store, trials, locked, install, provisioned, jobs, troubles>>
reportVars  == <<report, mailed, waiting, left, holder, at, kind, todo, failed, mails, built,
                 tangled, again, ticks, flaws>>
graphVars   == <<shape, edges>>
cronVars    == <<expression, from, cursor, turns, answer>>
decisionVars == <<rows, run, raced, stranded, runs, deaths>>
mirrorVars  == <<shop, mirror, transit, sound, edits, reads>>
campaignVars == <<template, drafts, request, chosen, fate, got, opened, parted, barred, overlaps,
                  revisions, losses>>
liveVars    == <<act, view, written, due, known, shown, marked, aged, fetch, mounted, outrun>>
meterVars   == <<today, sub, overrides, ledger, sender, deeds, spent>>
rollupVars  == <<date, used, bucket, rolling, behind, lastRoll>>
formsVars   == <<form, filled, verdict>>
editorVars  == <<drawn, links, linking>>
offersVars  == <<viewer, page, thing, showing, asking, served>>

\* The tabs of one browser share its storage.
OneBrowser == [t \in Tabs |-> CHOOSE u \in Users : TRUE]

\* Small graphs: with a condition, a delay, two triggers, two conditions, without a trigger.
FewShapes == {[t |-> "TRIGGER", c |-> "CONDITION", a |-> "ACTION", b |-> "ACTION"],
              [t |-> "TRIGGER", d |-> "DELAY", a |-> "ACTION", b |-> "ACTION"],
              [t |-> "TRIGGER", u |-> "TRIGGER", a |-> "ACTION"],
              [t |-> "TRIGGER", c |-> "CONDITION", b |-> "CONDITION"],
              [a |-> "ACTION", c |-> "CONDITION"]}

\* A year of two short months, the second of which has its last day every other year.
ShortYears == [y \in {0, 1} |-> IF y = 0 THEN <<3, 2>> ELSE <<3, 1>>]
One(v)   == [form |-> "one", lo |-> v, step |-> 1]
Every(n) == [form |-> "star", step |-> n]
FewTerms == [minute     |-> {{}, {One(1)}, {Every(2)}},
             hour       |-> {{}, {One(0)}, {One(1)}},
             dayOfMonth |-> {{}, {One(2)}, {Every(2)}, {One(1), One(3)}, {One(4)}},
             month      |-> {{}, {One(2)}},
             dayOfWeek  |-> {{}, {One(2)}, {[form |-> "range", lo |-> 1, hi |-> 2, step |-> 2]}}]

\* Two firings of one agent, the second an advisory one, and one of the next agent.
Prints   == {"x1", "x2", "x3"}
AgentOf  == [p \in Prints |-> IF p = "x3" THEN 2 ELSE 1]
Advisory == {"x2"}

\* Of an even split, one recipient falls to either side.
Bucket == [r \in Recipients |-> IF r = CHOOSE q \in Recipients : TRUE THEN 20 ELSE 70]

\* An execution may mail two recipients on one answer of the gate.
OwnLedger == [s \in Senders |-> s]
OneUnit   == [s \in Senders |-> 1]
OneOrTwo  == [s \in Senders |-> IF s = "execution" THEN 2 ELSE 1]

TwoSources == <<"execution", "campaign">>

Auth    == INSTANCE AuthSessions
Fanout  == INSTANCE RealtimeFanout
Cache   == INSTANCE StoreCache
Export  == INSTANCE ExportFile
Desk    == INSTANCE SupportDesk
Install == INSTANCE OauthInstall
Report  == INSTANCE ReportRun
Graph   == INSTANCE WorkflowGraph
Cron    == INSTANCE CronSchedule
Decision == INSTANCE DecisionRun
Mirror  == INSTANCE StoreMirror
Campaign == INSTANCE CampaignDesk
Live    == INSTANCE LiveView
Meter   == INSTANCE UsageMeter
Rollup  == INSTANCE UsageRollup
Forms   == INSTANCE PageForms
Editor  == INSTANCE GraphEditor
Offers  == INSTANCE PageOffers

\* A tab is in the browser of a user; no tab and no call is called nobody.
ASSUME AuthAssumption ==
  Browser \in [Tabs -> Users] /\ Auth!Nobody \notin Tabs \cup Calls

\* What depends on an object is there with it.
ASSUME MirrorAssumption ==
  \A x \in Things \cap Mirror!Dependent : Mirror!Refers(x) \subseteq Things

\* LiveView's tables: of what an act changes, its names reach all but the listed views.
ASSUME LiveAssumption ==
  \A a \in DOMAIN Live!Changes, v \in DOMAIN Live!Keys :
    Live!Touches(a, v) => Live!Named(a, v) \/ Live!Unheard(a, v)

\* The variables of the other parts hold nothing.
Init ==
  /\ part \in {"auth", "fanout", "cache", "export", "desk", "install", "report", "graph", "cron",
              "decision", "mirror", "campaign", "live", "meter", "rollup", "forms", "editor",
              "offers"}
  /\ IF part = "auth" THEN Auth!Init
     ELSE active = 0 /\ role = 0 /\ sessions = 0 /\ tokens = 0 /\ storage = 0 /\ tab = 0 /\
          call = 0 /\ replayed = 0 /\ crossed = 0 /\ mishaps = 0
  /\ IF part = "fanout" THEN Fanout!Init
     ELSE started = 0 /\ ws = 0 /\ timers = 0 /\ starts = 0 /\ owner = 0 /\ near = 0 /\ far = 0 /\ count = 0 /\
          handler = 0 /\ listening = 0 /\ set = 0 /\ wire = 0 /\ on = 0 /\ failures = 0
  /\ IF part = "cache" THEN Cache!Init
     ELSE data = 0 /\ version = 0 /\ entry = 0 /\ reader = 0 /\ writer = 0
  /\ IF part = "export" THEN Export!Init
     ELSE status = 0 /\ stored = 0 /\ asker = 0 /\ queued = 0 /\ begun = 0 /\ awaited = 0 /\
          attempt = 0 /\ cut = 0 /\ upsets = 0
  /\ IF part = "desk" THEN Desk!Init
     ELSE ticket = 0 /\ messages = 0 /\ calls = 0 /\ orphans = 0 /\ crashes = 0
  /\ IF part = "install" THEN Install!Init
     ELSE minted = 0 /\ burned = 0 /\ store = 0 /\ trials = 0 /\ locked = 0 /\ install = 0 /\
          provisioned = 0 /\ jobs = 0 /\ troubles = 0
  /\ IF part = "report" THEN Report!Init
     ELSE report = 0 /\ mailed = 0 /\ waiting = 0 /\ left = 0 /\ holder = 0 /\ at = 0 /\
          kind = 0 /\ todo = 0 /\ failed = 0 /\ mails = 0 /\ built = 0 /\ tangled = 0 /\ again = 0 /\
          ticks = 0 /\ flaws = 0
  /\ IF part = "graph" THEN Graph!Init
     ELSE shape = 0 /\ edges = 0
  /\ IF part = "cron" THEN Cron!Init
     ELSE expression = 0 /\ from = 0 /\ cursor = 0 /\ turns = 0 /\ answer = 0
  /\ IF part = "decision" THEN Decision!Init
     ELSE rows = 0 /\ run = 0 /\ raced = 0 /\ stranded = 0 /\ runs = 0 /\ deaths = 0
  /\ IF part = "mirror" THEN Mirror!Init
     ELSE shop = 0 /\ mirror = 0 /\ transit = 0 /\ sound = 0 /\ edits = 0 /\ reads = 0
  /\ IF part = "campaign" THEN Campaign!Init
     ELSE template = 0 /\ drafts = 0 /\ request = 0 /\ chosen = 0 /\ fate = 0 /\ got = 0 /\
          opened = 0 /\ parted = 0 /\ barred = 0 /\ overlaps = 0 /\ revisions = 0 /\ losses = 0
  /\ IF part = "live" THEN Live!Init
     ELSE act = 0 /\ view = 0 /\ written = 0 /\ due = 0 /\ known = 0 /\ shown = 0 /\
          marked = 0 /\ aged = 0 /\ fetch = 0 /\ mounted = 0 /\ outrun = 0
  /\ IF part = "meter" THEN Meter!Init
     ELSE today = 0 /\ sub = 0 /\ overrides = 0 /\ ledger = 0 /\ sender = 0 /\ deeds = 0 /\
          spent = 0
  /\ IF part = "rollup" THEN Rollup!Init
     ELSE date = 0 /\ used = 0 /\ bucket = 0 /\ rolling = 0 /\ behind = 0 /\ lastRoll = 0
  /\ IF part = "forms" THEN Forms!Init ELSE form = 0 /\ filled = 0 /\ verdict = 0
  /\ IF part = "editor" THEN Editor!Init ELSE drawn = 0 /\ links = 0 /\ linking = 0
  /\ IF part = "offers" THEN Offers!Init
     ELSE viewer = 0 /\ page = 0 /\ thing = 0 /\ showing = 0 /\ asking = 0 /\ served = 0

\* The other parts rest.
Only(p) ==
  /\ part = p /\ UNCHANGED part
  /\ p # "auth" => UNCHANGED authVars
  /\ p # "fanout" => UNCHANGED fanoutVars
  /\ p # "cache" => UNCHANGED cacheVars
  /\ p # "export" => UNCHANGED exportVars
  /\ p # "desk" => UNCHANGED deskVars
  /\ p # "install" => UNCHANGED installVars
  /\ p # "report" => UNCHANGED reportVars
  /\ p # "graph" => UNCHANGED graphVars
  /\ p # "cron" => UNCHANGED cronVars
  /\ p # "decision" => UNCHANGED decisionVars
  /\ p # "mirror" => UNCHANGED mirrorVars
  /\ p # "campaign" => UNCHANGED campaignVars
  /\ p # "live" => UNCHANGED liveVars
  /\ p # "meter" => UNCHANGED meterVars
  /\ p # "rollup" => UNCHANGED rollupVars
  /\ p # "forms" => UNCHANGED formsVars
  /\ p # "editor" => UNCHANGED editorVars
  /\ p # "offers" => UNCHANGED offersVars

Next ==
  \/ Only("auth") /\ Auth!AuthNext
  \/ Only("fanout") /\ Fanout!FanoutNext
  \/ Only("cache") /\ Cache!CacheNext
  \/ Only("export") /\ Export!ExportNext
  \/ Only("desk") /\ Desk!DeskNext
  \/ Only("install") /\ Install!InstallNext
  \/ Only("report") /\ Report!ReportNext
  \/ Only("graph") /\ Graph!GraphNext
  \/ Only("cron") /\ Cron!CronNext
  \/ Only("decision") /\ Decision!DecisionNext
  \/ Only("mirror") /\ Mirror!MirrorNext
  \/ Only("campaign") /\ Campaign!CampaignNext
  \/ Only("live") /\ Live!LiveNext
  \/ Only("meter") /\ Meter!UsageNext
  \/ Only("rollup") /\ Rollup!RollupNext
  \/ Only("forms") /\ Forms!FormsNext
  \/ Only("editor") /\ Editor!EditorNext
  \/ Only("offers") /\ Offers!OffersNext

Spec == Init /\ [][Next]_<<part, authVars, fanoutVars, cacheVars, exportVars, deskVars, installVars,
                          reportVars, graphVars, cronVars, decisionVars, mirrorVars,
                          campaignVars, liveVars, meterVars, rollupVars, formsVars,
                          editorVars, offersVars>>

\* Tabs have no names, and neither have the requests the server holds.
Symmetry == Permutations(Tabs) \cup Permutations(Calls)

\* What each of them promises; the comments are with the components.
ReuseIsTheft       == part = "auth" => Auth!ReuseIsTheft
EventsArrive       == part = "fanout" => Fanout!EventsArrive
FreshUnlessCrossed == part = "cache" => Cache!FreshUnlessCrossed
NoneStranded       == part = "export" => Export!NoneStranded
CountsMessages     == part = "desk" => Desk!CountsMessages
ProvisionedOnce    == part = "install" => Install!ProvisionedOnce
MailedOnce         == part = "report" => Report!MailedOnce
GraphsAgree        == /\ part = "graph" => Graph!AcceptsTheWalkable
                      /\ part = "editor" => Editor!BranchesAreAssigned /\ Editor!LintForetellsTheServer
FiresNext          == part = "cron" => Cron!FiresNext
AdvisedOnce        == part = "decision" => Decision!AdvisedOnce
MirrorsShop        == part = "mirror" => Mirror!MirrorsShop
SnapshotsHold      == part = "campaign" => Campaign!SnapshotsHold
ShowsWhatItKnows   == part = "live" => Live!ShowsWhatItKnows
MetersTrue         == /\ part = "meter" => Meter!QuotaHolds
                      /\ part = "rollup" => Rollup!BucketsTrue
PagesTrue          == /\ part = "forms" => Forms!RefusedOnlyUnchecked
                      /\ part = "offers" => Offers!OffersHold /\ Offers!ReadsAllowed

=============================================================================
