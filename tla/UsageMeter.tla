----------------------------- MODULE UsageMeter -----------------------------
(***************************************************************************)
(* The e-mails a plan allows: the gate every sender passes before it sends,   *)
(* the three ledgers the gate counts, and the overrides that open it            *)
(* (packages/billing: billing.service.ts, plans.ts, access-override.service.ts).  *)
(*                                                                         *)
(* The clock counts days. The gate is a check and what is sent afterwards an     *)
(* act: nothing is reserved in between.                                           *)
(***************************************************************************)
EXTENDS Naturals, FiniteSets, FiniteSetsExt, Functions

CONSTANTS Senders,
          Source,     \* the ledger of each sender: a job's execution, a campaign, a workflow
          Ask,        \* the units each asks the gate for
          Hand,       \* the units each may send on one answer
          Quota,      \* plans.entitlements.quotas.emails
          TrialDays, Grace, Cycle,
          FinalDay,    \* bound: days
          MaxUnits,   \* bound: units sent
          MaxDeeds    \* bound: charges asked for and overrides granted

VARIABLES
  today,
  sub,        \* subscriptions: status, trial, grace, from and to (the current period)
  overrides,  \* access_until of the access_overrides that are not revoked
  ledger,     \* units recorded, by ledger and by the day the gate counts them on
  sender,     \* where each sender is
  deeds,      \* charges asked for and overrides granted
  spent       \* ghost: units sent within the current window

usageVars == <<today, sub, overrides, ledger, sender, deeds, spent>>
gate == <<sender, spent>>

Days    == 0..FinalDay
Ledgers == {"execution", "campaign", "workflow"}
Never   == FinalDay + Cycle + TrialDays + Grace   \* a date that is not set
Asleep  == [at |-> "idle", since |-> 0, born |-> 0, open |-> FALSE, from |-> 0, to |-> 0,
            early |-> [l \in Ledgers |-> 0], left |-> 0]

Init ==
  /\ today = 0
  /\ sub = [status |-> "TRIALING", trial |-> TrialDays, grace |-> Never, from |-> Never, to |-> Never]
  /\ overrides = {}
  /\ ledger = [l \in Ledgers |-> [d \in Days |-> 0]]
  /\ sender = [s \in Senders |-> Asleep]
  /\ deeds = 0 /\ spent = 0

-----------------------------------------------------------------------------
(* Who may send, and what counts.                                           *)

Ahead(d) == d # Never /\ d > today

\* evaluateAccess.
Access == CASE sub.status = "TRIALING"       -> Ahead(sub.trial)
            [] sub.status = "CHARGE_PENDING" -> \E d \in {sub.trial, sub.grace, sub.to} : Ahead(d)
            [] sub.status = "ACTIVE"         -> TRUE
            [] sub.status = "CANCELLED"      -> Ahead(sub.to)
            [] OTHER                         -> FALSE

\* usageWindowFor: the current period, the trial, or everything so far.
Window == IF sub.from # Never THEN [from |-> sub.from, to |-> sub.to, open |-> FALSE]
          ELSE IF sub.status = "TRIALING" THEN [from |-> 0, to |-> sub.trial, open |-> FALSE]
          ELSE [from |-> 0, to |-> today, open |-> TRUE]

Within(w, d) == d >= w.from /\ (w.open \/ d < w.to)

\* countUsage of one ledger.
Counted(l, w) == FoldFunctionOnSet(+, 0, ledger[l], {d \in Days : Within(w, d)})

Total(d) == FoldFunction(+, 0, [l \in Ledgers |-> ledger[l][d]])

Goes(s, next) == sender' = [sender EXCEPT ![s] = next]

-----------------------------------------------------------------------------
(* A sender: checkEntitlement, then what it sends.                          *)

\* An execution has its row, and the day it counts on, before its job runs.
Create(s) ==
  /\ Source[s] = "execution" /\ sender[s].at = "idle"
  /\ Goes(s, [Asleep EXCEPT !.at = "born", !.born = today])
  /\ UNCHANGED <<today, sub, overrides, ledger, deeds, spent>>

\* Mutant: what workflows send is not counted.
ToCountBefore == Ledgers \ {"workflow"}

\* The ledgers the gate counts.
ToCount == Ledgers

\* The subscription is read. Of an open window the gate counts the rows made
\* before it looked; an execution's row may gain units later.
Look(s) ==
  LET w == Window IN
  /\ sender[s].at = IF Source[s] = "execution" THEN "born" ELSE "idle"
  /\ Goes(s, [sender[s] EXCEPT
       !.at = IF Access THEN "count" ELSE "plea",
       !.since = IF Access THEN 0 ELSE today, !.open = w.open, !.from = w.from, !.to = w.to,
       !.early = [l \in Ledgers |-> IF w.open THEN Counted(l, w) ELSE 0]])
  /\ UNCHANGED <<today, sub, overrides, ledger, deeds, spent>>

\* findActiveForStore, where the subscription gives no access.
Plead(s) ==
  /\ sender[s].at = "plea"
  /\ Goes(s, IF \E d \in overrides : d > sender[s].since THEN [sender[s] EXCEPT !.at = "count", !.since = 0]
             ELSE Asleep)
  /\ UNCHANGED <<today, sub, overrides, ledger, deeds, spent>>

\* countUsage, one statement after the other in one transaction, and the answer: the
\* sender goes on, or gives up for good.
Answer(s) ==
  LET of(l) == IF sender[s].open /\ l # "execution" THEN sender[s].early[l]
               ELSE Counted(l, sender[s])
  IN /\ sender[s].at = "count"
     /\ Goes(s, IF MapThenSumSet(of, ToCount) + Ask[s] > Quota THEN Asleep
                ELSE [Asleep EXCEPT !.at = "send", !.born = sender[s].born, !.left = Hand[s]])
     /\ UNCHANGED <<today, sub, overrides, ledger, deeds, spent>>

\* What goes out is counted once it is recorded: mail by mail as events of today, or
\* for an execution all at once, in the row of its day, with its success.
Record(s, n) ==
  LET d == IF Source[s] = "execution" THEN sender[s].born ELSE today IN
  /\ sender[s].at = "send" /\ n <= sender[s].left
  /\ Source[s] = "execution" \/ n = 1
  /\ MapThenSumSet(Total, Days) + n <= MaxUnits
  /\ ledger' = [ledger EXCEPT ![Source[s]][d] = @ + n]
  /\ Goes(s, IF Source[s] = "execution" \/ sender[s].left = n THEN Asleep
             ELSE [sender[s] EXCEPT !.left = @ - n])
  /\ spent' = IF Within(Window, d) /\ (sub.from = Never \/ today < sub.to) THEN spent + n
              ELSE spent
  /\ UNCHANGED <<today, sub, overrides, deeds>>

\* The batch is short, the step fails, or the attempt of the job does and is tried
\* again or not: what went out of it is in no ledger.
Fails(s) ==
  /\ sender[s].at = "send"
  /\ \/ Goes(s, Asleep)
     \/ /\ Source[s] = "execution"
        /\ Goes(s, [Asleep EXCEPT !.at = "born", !.born = sender[s].born])
  /\ UNCHANGED <<today, sub, overrides, ledger, deeds, spent>>

-----------------------------------------------------------------------------
(* The subscription, as far as the gate reads it, and the overrides.        *)

NextDay ==
  /\ today < FinalDay
  /\ today' = today + 1
  /\ UNCHANGED <<sub, overrides, ledger, deeds, gate>>

Subscribe ==
  /\ sub.status # "CHARGE_PENDING" /\ sub.status # "ACTIVE" /\ deeds < MaxDeeds
  /\ sub' = [sub EXCEPT !.status = "CHARGE_PENDING", !.grace = sub.trial + Grace]
  /\ deeds' = deeds + 1
  /\ UNCHANGED <<today, overrides, ledger, gate>>

\* resolveChargeOutcome; the period begins, at the first moment of a day.
Activate ==
  LET preserved == IF sub.trial > today + 1 THEN sub.trial - today - 1 ELSE 0 IN
  /\ sub.status = "CHARGE_PENDING" /\ today < FinalDay
  /\ today' = today + 1
  /\ sub' = [sub EXCEPT !.status = "ACTIVE", !.from = today + 1,
                        !.to = today + 1 + preserved + Cycle]
  /\ spent' = 0
  /\ UNCHANGED <<overrides, ledger, sender, deeds>>

Declined ==
  /\ sub.status = "CHARGE_PENDING"
  /\ sub' = [sub EXCEPT !.status = IF sub.trial > today THEN "TRIALING" ELSE "TRIAL_EXPIRED"]
  /\ UNCHANGED <<today, overrides, ledger, deeds, gate>>

Cancel ==
  /\ sub.status = "ACTIVE"
  /\ sub' = [sub EXCEPT !.status = "CANCELLED"]
  /\ UNCHANGED <<today, overrides, ledger, deeds, gate>>

\* The daily lifecycle tick.
TrialOver ==
  /\ sub.status = "TRIALING" /\ sub.trial <= today
  /\ sub' = [sub EXCEPT !.status = "TRIAL_EXPIRED", !.grace = today + Grace]
  /\ UNCHANGED <<today, overrides, ledger, deeds, gate>>

\* An operator opens the gate until a day, and closes it again.
Grant(until) ==
  /\ deeds < MaxDeeds /\ until > today
  /\ overrides' = overrides \cup {until}
  /\ deeds' = deeds + 1
  /\ UNCHANGED <<today, sub, ledger, gate>>

Revoke(until) ==
  /\ until \in overrides
  /\ overrides' = overrides \ {until}
  /\ UNCHANGED <<today, sub, ledger, deeds, gate>>

-----------------------------------------------------------------------------
UsageNext ==
  \/ \E s \in Senders : \/ Create(s) \/ Look(s) \/ Plead(s) \/ Answer(s)
                        \/ Fails(s) \/ \E n \in 1..MaxUnits : Record(s, n)
  \/ NextDay \/ Subscribe \/ Activate \/ Declined \/ Cancel \/ TrialOver
  \/ \E d \in Days : Grant(d) \/ Revoke(d)

UsageSpec == Init /\ [][UsageNext]_usageVars

-----------------------------------------------------------------------------
(* Properties.                                                              *)

\* The gate counts live what three ledgers hold, and reserves nothing: within a window
\* the units recorded pass the plan's quota by what each sender had in hand at most.
QuotaHolds == spent < Quota + MapThenSumSet(LAMBDA s : Hand[s], Senders)

=============================================================================
