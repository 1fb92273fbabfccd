---------------------------- MODULE Subscription ----------------------------
(***************************************************************************)
(* The subscription of one store and the charges Shopify holds for it      *)
(* (packages/billing: billing.service.ts, trial-lifecycle.service.ts,      *)
(* reconcile.service.ts, plans.ts), after the installation that created    *)
(* the row.                                                                *)
(*                                                                         *)
(* Every service call reads the row in a transaction of its own, decides,  *)
(* may speak to Shopify, and writes the row by its id in a later           *)
(* transaction, without comparing what it read: each is an action, and     *)
(* calls interleave.                                                       *)
(*                                                                         *)
(* A date is the number of days until it, 0 or less once it has passed and *)
(* never below -Grace, where no comparison of the code tells days apart.   *)
(***************************************************************************)
EXTENDS Integers

CONSTANTS Charges,    \* recurring charges Shopify can create for the store
          NoCharge,   \* a row that has none
          Members,    \* requests of merchants and operators, and callbacks
          Ticks,      \* runs of the daily trial and reconcile jobs
          Listed,     \* states of the charges Shopify lists
          TrialDays,  \* plans.trialDays
          Grace,      \* TRIAL_GRACE_DAYS
          Cycle,      \* days of a billing cycle
          Limit,      \* PENDING_DECISION_LIMIT_DAYS
          MaxTrial,   \* bound: days a trial is extended to
          MaxFaults   \* bound: calls that die or whose provider fails

ASSUME ChargeAssumption == NoCharge \notin Charges
ASSUME DaysAssumption ==
  /\ TrialDays \in Nat /\ Grace \in Nat /\ Cycle \in Nat \ {0} /\ Limit \in Nat \ {0}
  /\ MaxTrial \in Nat /\ TrialDays <= MaxTrial
\* Shopify lists a charge that is being paid, and none that was refused.
ASSUME ListAssumption == Listed \subseteq {"CREATED", "PENDING", "ACTIVE"} /\ "ACTIVE" \in Listed

VARIABLES
  sub,       \* the subscriptions row: st, charge, trial, grace, period, age
  charges,   \* Shopify's state of each charge; OVER: declined, cancelled, expired
  accepted,  \* the merchant has accepted a charge, some time
  promise,   \* the latest trial end the store was ever granted
  call,      \* what each member's or tick's call has yet to do
  failures

subVars == <<sub, charges, accepted, promise, call, failures>>

Callers == Members \cup Ticks

Null == -Grace - 1   \* a date column that is not set
Past(d)   == d # Null /\ d <= 0
Future(d) == d > 0

\* Null as a date to write leaves the column as it is.
Set(new, old) == IF new = Null THEN old ELSE new

Row(st, charge, trial, grace, period, age) ==
  [st |-> st, charge |-> charge, trial |-> trial, grace |-> grace, period |-> period, age |-> age]

Reads(pc, to, charge, trial, grace, period, stale) ==
  [pc |-> pc, to |-> to, charge |-> charge, trial |-> trial, grace |-> grace,
   period |-> period, stale |-> stale]

Does(pc, to, charge, trial, grace, period) == Reads(pc, to, charge, trial, grace, period, FALSE)

NoCall == Does("idle", "TRIALING", NoCharge, Null, Null, Null)

CallGoes(a, next) == call' = [call EXCEPT ![a] = next]

\* Provisioned by completeInstall: a trial, in force from the first day.
SubInit ==
  /\ sub = Row("TRIALING", NoCharge, TrialDays, Null, Null, 0)
  /\ charges = [c \in Charges |-> "NONE"] /\ accepted = FALSE
  /\ promise = TrialDays
  /\ call = [a \in Callers |-> NoCall]
  /\ failures = 0

-----------------------------------------------------------------------------
(* Time and Shopify.                                                        *)

Earlier(d) == IF d <= -Grace THEN d ELSE d - 1

\* A day goes by: every date, in the row or in a call's hands, is a day closer.
Day ==
  /\ sub' = Row(sub.st, sub.charge, Earlier(sub.trial), Earlier(sub.grace),
                Earlier(sub.period), IF sub.age <= Limit THEN sub.age + 1 ELSE sub.age)
  /\ promise' = Earlier(promise)
  /\ call' = [a \in Callers |->
                Reads(call[a].pc, call[a].to, call[a].charge, Earlier(call[a].trial),
                      Earlier(call[a].grace), Earlier(call[a].period), call[a].stale)]
  /\ UNCHANGED <<charges, accepted, failures>>

\* On Shopify's decision page. A new subscription replaces the one before.
Accept(c) ==
  /\ charges[c] = "PENDING"
  /\ charges' = [d \in Charges |-> IF d = c THEN "ACTIVE"
                                   ELSE IF charges[d] = "ACTIVE" THEN "OVER" ELSE charges[d]]
  /\ accepted' = TRUE
  /\ UNCHANGED <<sub, promise, call, failures>>

Decline(c) ==
  /\ charges[c] = "PENDING"
  /\ charges' = [charges EXCEPT ![c] = "OVER"]
  /\ UNCHANGED <<sub, accepted, promise, call, failures>>

\* The merchant ends the charge in Shopify, without a word to the application.
Revoke(c) ==
  /\ charges[c] = "ACTIVE"
  /\ charges' = [charges EXCEPT ![c] = "OVER"]
  /\ UNCHANGED <<sub, accepted, promise, call, failures>>

-----------------------------------------------------------------------------
(* The row is written by its id; an event is recorded with it.              *)

Commit(a) ==
  /\ call[a].pc = "write"
  /\ LET w == call[a] IN
       /\ sub' = Row(w.to, IF w.charge = NoCharge THEN sub.charge ELSE w.charge,
                     Set(w.trial, sub.trial), Set(w.grace, sub.grace),
                     Set(w.period, sub.period), 0)
       /\ promise' = IF w.trial # Null /\ w.trial > promise THEN w.trial ELSE promise
       \* subscribe answers with the confirmation URL of the charge.
       /\ charges' = IF w.charge # NoCharge /\ charges[w.charge] = "CREATED"
                       THEN [charges EXCEPT ![w.charge] = "PENDING"] ELSE charges
  /\ CallGoes(a, NoCall)
  /\ UNCHANGED <<accepted, failures>>

\* transition: the row is read again, and written unless it is there already.
Transition(a) ==
  /\ call[a].pc = "transition"
  /\ CallGoes(a, IF sub.st = call[a].to THEN NoCall
                 ELSE Does("write", call[a].to, NoCharge, Null, call[a].grace, Null))
  /\ UNCHANGED <<sub, charges, accepted, promise, failures>>

\* The process dies or a provider call throws: the call is lost.
Dies(a) ==
  /\ call[a].pc # "idle"
  /\ failures < MaxFaults
  /\ failures' = failures + 1
  /\ CallGoes(a, NoCall)
  /\ UNCHANGED <<sub, charges, accepted, promise>>

-----------------------------------------------------------------------------
(* Requests.                                                                *)

\* extendTrial: on top of what is left, or from today once it is over.
ExtendTrial(a, days) ==
  /\ call[a].pc = "idle"
  /\ sub.st \in {"TRIALING", "TRIAL_EXPIRED"}
  /\ LET end == IF sub.st = "TRIALING" /\ Future(sub.trial) THEN sub.trial + days ELSE days
     IN /\ end <= MaxTrial
        /\ CallGoes(a, Does("write", "TRIALING", NoCharge, end, Null, Null))
  /\ UNCHANGED <<sub, charges, accepted, promise, failures>>

\* subscribe: refused to a store that is paying; else a charge is created ...
Subscribe(a) ==
  /\ call[a].pc = "idle"
  /\ sub.st # "ACTIVE"
  /\ CallGoes(a, Does("create", "CHARGE_PENDING", NoCharge, sub.trial, Null, Null))
  /\ UNCHANGED <<sub, charges, accepted, promise, failures>>

\* Mutant: the grace period is counted from the request.
CreateChargeToday(a, c) ==
  /\ call[a].pc = "create"
  /\ charges[c] = "NONE"
  /\ charges' = [charges EXCEPT ![c] = "CREATED"]
  /\ CallGoes(a, Does("write", "CHARGE_PENDING", c, Null, Grace, Null))
  /\ UNCHANGED <<sub, accepted, promise, failures>>

\* ... and the row waits for the decision; its grace runs from the trial's
\* end, so that asking again gives nothing away.
CreateCharge(a, c) ==
  /\ call[a].pc = "create"
  /\ charges[c] = "NONE"
  /\ charges' = [charges EXCEPT ![c] = "CREATED"]
  /\ CallGoes(a, Does("write", "CHARGE_PENDING", c, Null, call[a].trial + Grace, Null))
  /\ UNCHANGED <<sub, accepted, promise, failures>>

\* cancel: Shopify first (which refuses a charge that is over), the row next;
\* the period already paid stays in the row.
Cancel(a) ==
  /\ call[a].pc = "idle"
  /\ sub.charge # NoCharge
  /\ sub.st \in {"ACTIVE", "CHARGE_PENDING"}
  /\ CallGoes(a, Does("cancel", "CANCELLED", sub.charge, Null, Null, Null))
  /\ UNCHANGED <<sub, charges, accepted, promise, failures>>

CancelCharge(a) ==
  /\ call[a].pc = "cancel"
  /\ LET c == call[a].charge IN
       \/ /\ charges[c] \in {"PENDING", "ACTIVE"}
          /\ charges' = [charges EXCEPT ![c] = "OVER"]
          /\ CallGoes(a, Does("write", "CANCELLED", NoCharge, Null, Null, Null))
       \/ /\ charges[c] \notin {"PENDING", "ACTIVE"}
          /\ CallGoes(a, NoCall)
          /\ UNCHANGED charges
  /\ UNCHANGED <<sub, accepted, promise, failures>>

-----------------------------------------------------------------------------
(* The decision on a charge.                                                *)

\* The public callback of Shopify's redirect names a charge of the row.
Callback(a) ==
  /\ call[a].pc = "idle"
  /\ sub.charge # NoCharge
  /\ CallGoes(a, Does("resolve", "TRIALING", NoCharge, Null, Null, Null))
  /\ UNCHANGED <<sub, charges, accepted, promise, failures>>

\* Where a declined store falls back to.
Fallback(s) == IF Future(s.trial) THEN "TRIALING" ELSE "TRIAL_EXPIRED"

\* remainingTrialDays, then a cycle.
PaidUntil(s) == (IF Future(s.trial) THEN s.trial ELSE 0) + Cycle

\* resolveChargeOutcome reads the row ...
ResolveCharge(a) ==
  /\ call[a].pc = "resolve"
  /\ CallGoes(a, IF sub.st # "CHARGE_PENDING" THEN NoCall
                 ELSE Reads("live", Fallback(sub), sub.charge, Null, Null, PaidUntil(sub),
                            call[a].stale))
  /\ UNCHANGED <<sub, charges, accepted, promise, failures>>

\* Mutant: a charge Shopify lists is taken for accepted.
SettleListed(a) ==
  /\ call[a].pc = "live"
  /\ CallGoes(a, IF charges[call[a].charge] \in Listed
                   THEN Does("write", "ACTIVE", NoCharge, Null, Null, call[a].period)
                   ELSE Does("write", call[a].to, NoCharge, Null, Null, Null))
  /\ UNCHANGED <<sub, charges, accepted, promise, failures>>

\* Mutant: a decision that is still open is never given up.
SettleNeverStale(a) ==
  /\ call[a].pc = "live"
  /\ CallGoes(a, IF charges[call[a].charge] = "ACTIVE"
                   THEN Does("write", "ACTIVE", NoCharge, Null, Null, call[a].period)
                 ELSE IF charges[call[a].charge] \in Listed THEN NoCall
                 ELSE Does("write", call[a].to, NoCharge, Null, Null, Null))
  /\ UNCHANGED <<sub, charges, accepted, promise, failures>>

\* ... and then the charges Shopify lists: accepted, refused or missing, or
\* still open -- and given up if reconcile has seen it open for too long.
Settle(a) ==
  /\ call[a].pc = "live"
  /\ CallGoes(a, IF charges[call[a].charge] = "ACTIVE"
                   THEN Does("write", "ACTIVE", NoCharge, Null, Null, call[a].period)
                 ELSE IF charges[call[a].charge] \in Listed
                   THEN IF call[a].stale THEN Does("giveUp", "TRIALING", NoCharge, Null, Null, Null)
                                         ELSE NoCall
                 ELSE Does("write", call[a].to, NoCharge, Null, Null, Null))
  /\ UNCHANGED <<sub, charges, accepted, promise, failures>>

\* settleStalePending: declined without a call to Shopify.
GiveUp(a) ==
  /\ call[a].pc = "giveUp"
  /\ CallGoes(a, IF sub.st # "CHARGE_PENDING" THEN NoCall
                 ELSE Does("transition", Fallback(sub), NoCharge, Null, Null, Null))
  /\ UNCHANGED <<sub, charges, accepted, promise, failures>>

-----------------------------------------------------------------------------
(* The daily jobs.                                                          *)

\* ReconcileService.tick: a decision open for a day is read back ...
ReconcilePending(a) ==
  /\ call[a].pc = "idle"
  /\ sub.st = "CHARGE_PENDING" /\ sub.age >= 1
  /\ CallGoes(a, Reads("resolve", "TRIALING", NoCharge, Null, Null, Null, sub.age > Limit))
  /\ UNCHANGED <<sub, charges, accepted, promise, failures>>

\* ... and the charge of a paying store must exist.
ReconcileActive(a) ==
  /\ call[a].pc = "idle"
  /\ sub.st = "ACTIVE" /\ sub.charge # NoCharge
  /\ CallGoes(a, Does("drift", "CANCELLED", sub.charge, Null, Null, Null))
  /\ UNCHANGED <<sub, charges, accepted, promise, failures>>

Drift(a) ==
  /\ call[a].pc = "drift"
  /\ CallGoes(a, IF charges[call[a].charge] \in Listed THEN NoCall
                 ELSE Does("transition", "CANCELLED", NoCharge, Null, Null, Null))
  /\ UNCHANGED <<sub, charges, accepted, promise, failures>>

\* TrialLifecycleService.tick: a trial that is over expires into its grace ...
ExpireTrial(a) ==
  /\ call[a].pc = "idle"
  /\ sub.st = "TRIALING" /\ Past(sub.trial)
  /\ CallGoes(a, Does("transition", "TRIAL_EXPIRED", NoCharge, Null, Grace, Null))
  /\ UNCHANGED <<sub, charges, accepted, promise, failures>>

\* ... and is suspended when the grace is over.
Suspend(a) ==
  /\ call[a].pc = "idle"
  /\ sub.st = "TRIAL_EXPIRED" /\ Past(sub.grace)
  /\ CallGoes(a, Does("transition", "SUSPENDED", NoCharge, Null, Null, Null))
  /\ UNCHANGED <<sub, charges, accepted, promise, failures>>

-----------------------------------------------------------------------------
Request(a) == \/ \E days \in 1 .. MaxTrial : ExtendTrial(a, days)
              \/ Subscribe(a) \/ Cancel(a) \/ Callback(a)

Tick(a) == ReconcilePending(a) \/ ReconcileActive(a) \/ ExpireTrial(a) \/ Suspend(a)

Continue(a) == \/ \E c \in Charges : CreateCharge(a, c)
               \/ CancelCharge(a) \/ ResolveCharge(a) \/ Settle(a) \/ GiveUp(a)
               \/ Drift(a) \/ Transition(a) \/ Commit(a)

SubNext == \/ Day
           \/ \E c \in Charges : Accept(c) \/ Decline(c) \/ Revoke(c)
           \/ \E a \in Members : Request(a)
           \/ \E a \in Ticks : Tick(a)
           \/ \E a \in Callers : Continue(a) \/ Dies(a)

SubSpec == SubInit /\ [][SubNext]_subVars

\* Days go by, the jobs run daily, and a call that is not lost goes on.
SubFairness == /\ WF_subVars(Day)
               /\ \A a \in Ticks : WF_subVars(Tick(a) \/ Continue(a))
               /\ \A a \in Members : WF_subVars(Continue(a))

SubFairSpec == SubSpec /\ SubFairness

-----------------------------------------------------------------------------
(* Properties.                                                              *)

Statuses == {"TRIALING", "TRIAL_EXPIRED", "CHARGE_PENDING", "ACTIVE", "CANCELLED", "SUSPENDED"}
Dates    == {d \in Int : d >= Null}
Steps    == {"idle", "create", "cancel", "resolve", "live", "giveUp", "drift", "transition",
             "write"}

\* Every variable keeps its type.
SubTypeOK ==
  /\ sub \in [st : Statuses, charge : Charges \cup {NoCharge}, trial : Dates,
              grace : Dates, period : Dates, age : 0 .. Limit + 1]
  /\ charges \in [Charges -> {"NONE", "CREATED", "PENDING", "ACTIVE", "OVER"}]
  /\ accepted \in BOOLEAN
  /\ promise \in Dates
  /\ call \in [Callers -> [pc : Steps, to : Statuses, charge : Charges \cup {NoCharge},
                           trial : Dates, grace : Dates, period : Dates, stale : BOOLEAN]]
  /\ \A a \in Callers : /\ call[a].pc = "create" => call[a].trial # Null
                        /\ call[a].pc \in {"live", "cancel", "drift"} => call[a].charge # NoCharge
  /\ failures \in Nat

\* evaluateAccess: may the store run revenue actions now?
Access == \/ sub.st = "ACTIVE"
          \/ sub.st = "TRIALING" /\ Future(sub.trial)
          \/ sub.st = "CHARGE_PENDING"
               /\ (Future(sub.trial) \/ Future(sub.grace) \/ Future(sub.period))
          \/ sub.st = "CANCELLED" /\ Future(sub.period)

\* A store that never accepted a charge has no access beyond the grace of the
\* latest trial end it was granted: asking for charges, abandoning them,
\* cancelling and being extended, in any order and however the calls
\* overwrite each other, gives no day away.
UnpaidAccessEnds == Access /\ ~accepted => promise + Grace > 0

\* "the ONLY path to ACTIVE": a row is active, or carries a paid period, only
\* if the merchant accepted a charge on Shopify.
PaidByAcceptance == sub.st = "ACTIVE" \/ sub.period # Null => accepted

\* Nothing lingers: a pending decision is accepted, refused, cancelled or, without
\* any webhook, given up by the sweep; and an expired trial is suspended when its
\* grace is over, unless the store moves on first.
NothingLingers ==
  \A st \in {"CHARGE_PENDING", "TRIAL_EXPIRED"} : sub.st = st ~> sub.st # st
=============================================================================
