----------------------------- MODULE ReportRun -----------------------------
(***************************************************************************)
(* The period reports of one store on one day: the tick and its job, which     *)
(* builds the kinds that are due and mails them, and the merchant's own         *)
(* requests to build or to mail one (packages/reporting/src/service.ts,          *)
(* preferences.ts, apps/worker/src/handlers/reports.handlers.ts,                  *)
(* apps/api/src/modules/reports/reports.router.ts).                                *)
(*                                                                         *)
(* A kind stands for its report on the period that is closed today, the row     *)
(* its unique key allows.  The merchant has every kind and the mail enabled.     *)
(* An attempt the queue has given up on goes on beside the next one.             *)
(***************************************************************************)
EXTENDS Naturals, FiniteSets

CONSTANTS Kinds,      \* numbers: runDue takes the kinds in order
          Handlers,   \* calls of reportsGenerateHandler
          Clicks,     \* requests of the merchant
          Tries,      \* ReportsGenerateJob.attempts
          MaxTicks,   \* bound: runs of reports.tick
          MaxFlaws    \* bound: timeouts, crashes and refused mails

VARIABLES
  report,   \* reports.status by kind, or "none"
  mailed,   \* the kinds with lastEmailedOn = today
  waiting,  \* the job waits for a worker
  left,     \* attempts it has left, 0 when it is not in flight
  holder,   \* the call whose outcome the queue waits for, or "none"
  at,       \* where each call is
  kind,     \* the kind it is about
  todo,     \* the due kinds it has yet to build
  failed,   \* a kind of it has failed
  mails,    \* what the sender has accepted
  built,    \* ghost: kinds the schedule has made READY
  tangled,  \* ghost: kinds with two deliveries at once, or one undone
  again,    \* ghost: how often the mark could not tell of a mail: deliveries that
            \* passed it while another had yet to set it, and deaths before it
  ticks, flaws

reportVars == <<report, mailed, waiting, left, holder, at, kind, todo, failed, mails,
                built, tangled, again, ticks, flaws>>
queue  == <<waiting, left, holder>>
limits == <<ticks, flaws>>

Parties == Handlers \cup Clicks

Init ==
  /\ report = [k \in Kinds |-> "none"] /\ mailed = {}
  /\ waiting = FALSE /\ left = 0 /\ holder = "none"
  /\ at = [c \in Parties |-> "idle"] /\ kind = [c \in Parties |-> 0]
  /\ todo = [c \in Parties |-> {}] /\ failed = [c \in Parties |-> FALSE]
  /\ mails = [k \in Kinds |-> 0]
  /\ built = {} /\ tangled = {} /\ again = [k \in Kinds |-> 0] /\ ticks = 0 /\ flaws = 0

Flaw == flaws < MaxFlaws /\ flaws' = flaws + 1

-----------------------------------------------------------------------------
(* The job.                                                                 *)

\* reportsTickHandler: the id of the job is the day's, refused in flight.
Tick ==
  /\ ticks < MaxTicks /\ ticks' = ticks + 1
  /\ IF left = 0 THEN waiting' = TRUE /\ left' = Tries ELSE UNCHANGED <<waiting, left>>
  /\ UNCHANGED <<report, mailed, holder, at, kind, todo, failed, mails, built, tangled, again,
                 flaws>>

Deliver(c) ==
  /\ waiting /\ at[c] = "idle"
  /\ waiting' = FALSE /\ holder' = c
  /\ at' = [at EXCEPT ![c] = "due"]
  /\ failed' = [failed EXCEPT ![c] = FALSE]
  /\ UNCHANGED <<report, mailed, left, kind, todo, mails, built, tangled, again, limits>>

\* What becomes of the job when the attempt it waits for throws, or ends.
Settles(threw) ==
  /\ holder' = "none"
  /\ left' = IF threw THEN left - 1 ELSE 0
  /\ waiting' = (threw /\ left > 1)

\* The end of a call; the queue hears of it unless it has given the call up.
Ends(c, threw) ==
  /\ at' = [at EXCEPT ![c] = IF c \in Clicks THEN "done" ELSE "idle"]
  /\ todo' = [todo EXCEPT ![c] = {}] /\ kind' = [kind EXCEPT ![c] = 0]
  /\ IF holder = c THEN Settles(threw) ELSE UNCHANGED queue

TimesOut ==
  /\ holder # "none" /\ Flaw /\ Settles(TRUE)
  /\ UNCHANGED <<report, mailed, at, kind, todo, failed, mails, built, tangled, again, ticks>>

-----------------------------------------------------------------------------
(* ReportService.                                                           *)

Goes(c, to) == at' = [at EXCEPT ![c] = to] /\ UNCHANGED <<kind, todo, queue>>

\* runDue's loop: the next kind, or the end of the handler, which throws when a
\* kind has failed.
Turns(c, rest, bad) ==
  IF c \in Clicks \/ rest = {} THEN Ends(c, bad)
  ELSE LET k == CHOOSE n \in rest : \A m \in rest : n <= m
       IN /\ at' = [at EXCEPT ![c] = "claim"] /\ kind' = [kind EXCEPT ![c] = k]
          /\ todo' = [todo EXCEPT ![c] = rest \ {k}]
          /\ UNCHANGED queue

\* existingPeriodStarts and dueKinds: a period without a row, or with a FAILED one.
\* A row somebody is BUILDING, or was when he died, exists.
Due(c) ==
  /\ at[c] = "due"
  /\ Turns(c, {k \in Kinds : report[k] \in {"none", "FAILED"}}, FALSE)
  /\ UNCHANGED <<report, mailed, failed, mails, built, tangled, again, limits>>

\* POST /generate and POST /:id/email.
Asks(c, k, what) ==
  /\ c \in Clicks /\ at[c] = "idle"
  /\ what = "check" => report[k] # "none"
  /\ at' = [at EXCEPT ![c] = what] /\ kind' = [kind EXCEPT ![c] = k]
  /\ UNCHANGED <<report, mailed, queue, todo, failed, mails, built, tangled, again, limits>>

\* A call other than c that has yet to settle k's delivery.
Delivering(c, k, places) == \E d \in Parties \ {c} : kind[d] = k /\ at[d] \in places

\* Mutant: a rebuilt row is a new one.
ClaimAnew(c) ==
  LET k == kind[c] IN
  /\ at[c] = "claim" /\ Goes(c, "build")
  /\ report' = [report EXCEPT ![k] = "BUILDING"]
  /\ mailed' = mailed \ {k}
  /\ tangled' = IF Delivering(c, k, {"check", "send", "record"}) THEN tangled \cup {k} ELSE tangled
  /\ UNCHANGED <<failed, mails, built, again, limits>>

\* The upsert: BUILDING, whatever the row was; lastEmailedOn stays.
Claim(c) ==
  LET k == kind[c] IN
  /\ at[c] = "claim" /\ Goes(c, "build")
  /\ report' = [report EXCEPT ![k] = "BUILDING"]
  /\ tangled' = IF Delivering(c, k, {"check", "send", "record"}) THEN tangled \cup {k} ELSE tangled
  /\ UNCHANGED <<mailed, failed, mails, built, again, limits>>

\* Sections, summary, PDF.
Build(c, ok) ==
  /\ at[c] = "build" /\ Goes(c, IF ok THEN "save" ELSE "fail")
  /\ UNCHANGED <<report, mailed, failed, mails, built, tangled, again, limits>>

\* READY, by id; the schedule goes on to the delivery.
Save(c) ==
  LET k == kind[c] IN
  /\ at[c] = "save"
  /\ report' = [report EXCEPT ![k] = "READY"]
  /\ built' = IF c \in Handlers THEN built \cup {k} ELSE built
  /\ IF c \in Handlers THEN Goes(c, "check") ELSE Ends(c, FALSE)
  /\ UNCHANGED <<mailed, failed, mails, tangled, again, limits>>

\* FAILED, by id: the row is due again, and the job of a schedule throws at its end.
Fail(c) ==
  LET k == kind[c] IN
  /\ at[c] = "fail"
  /\ report' = [report EXCEPT ![k] = "FAILED"]
  /\ failed' = [failed EXCEPT ![c] = TRUE]
  /\ built' = built \ {k}
  /\ Turns(c, todo[c], TRUE)
  /\ UNCHANGED <<mailed, mails, tangled, again, limits>>

\* deliver's reads: only a READY report which was not mailed today.
Check(c) ==
  LET k == kind[c] IN
  /\ at[c] = "check"
  /\ IF report[k] = "READY" /\ k \notin mailed
       THEN /\ Goes(c, "send")
            /\ IF Delivering(c, k, {"send", "record"})
                 THEN tangled' = tangled \cup {k} /\ again' = [again EXCEPT ![k] = @ + 1]
                 ELSE UNCHANGED <<tangled, again>>
       ELSE Turns(c, todo[c], failed[c]) /\ UNCHANGED <<tangled, again>>
  /\ UNCHANGED <<report, mailed, failed, mails, built, limits>>

Send(c) ==
  LET k == kind[c] IN
  /\ at[c] = "send" /\ Goes(c, "record")
  /\ mails' = [mails EXCEPT ![k] = @ + 1]
  /\ UNCHANGED <<report, mailed, failed, built, tangled, again, limits>>

\* The sender throws: so does runDue, and the next attempt does not find the report due.
SendFails(c) ==
  /\ at[c] = "send" /\ Flaw
  /\ tangled' = tangled \cup {kind[c]}
  /\ Ends(c, TRUE)
  /\ UNCHANGED <<report, mailed, failed, mails, built, again, ticks>>

\* lastEmailedOn; then the notice, which is written once in a day.
Record(c) ==
  LET k == kind[c] IN
  /\ at[c] = "record"
  /\ mailed' = mailed \cup {k}
  /\ Turns(c, todo[c], failed[c])
  /\ UNCHANGED <<report, failed, mails, built, tangled, again, limits>>

\* A statement throws or the process dies.
Dies(c) ==
  /\ at[c] \notin {"idle", "done"} /\ Flaw
  /\ tangled' = IF at[c] \in {"check", "send", "record"} THEN tangled \cup {kind[c]} ELSE tangled
  /\ again' = IF at[c] = "record" THEN [again EXCEPT ![kind[c]] = @ + 1] ELSE again
  /\ Ends(c, TRUE)
  /\ UNCHANGED <<report, mailed, failed, mails, built, ticks>>

ReportNext ==
  \/ Tick \/ TimesOut
  \/ \E c \in Handlers : Deliver(c) \/ Due(c)
  \/ \E c \in Clicks, k \in Kinds, what \in {"claim", "check"} : Asks(c, k, what)
  \/ \E c \in Parties : \/ Claim(c) \/ Save(c) \/ Fail(c) \/ Check(c) \/ Send(c)
                        \/ SendFails(c) \/ Record(c) \/ Dies(c)
                        \/ \E ok \in BOOLEAN : Build(c, ok)

ReportSpec == Init /\ [][ReportNext]_reportVars

-----------------------------------------------------------------------------
(* Properties.                                                              *)

Quiet == left = 0 /\ \A c \in Parties : at[c] \in {"idle", "done"}

\* Whatever fails, is built again, times out or is asked for by the merchant
\* meanwhile: a report is mailed once a day, and once more at most for each delivery
\* that found lastEmailedOn unset while another had found it so and not yet written
\* it, or that died between its mail and that write; and the READY report of a schedule has been mailed when all is quiet,
\* exactly once, unless two calls delivered it, or one delivered and one rebuilt it, at
\* the same time, or its delivery threw or died.
MailedOnce ==
  /\ \A k \in Kinds : mails[k] <= 1 + again[k]
  /\ \A k \in Kinds \ tangled :
       Quiet /\ report[k] = "READY" /\ k \in built => mails[k] = 1

=============================================================================
