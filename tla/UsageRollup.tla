----------------------------- MODULE UsageRollup -----------------------------
(***************************************************************************)
(* The daily rollup of what a store used into one bucket a day                *)
(* (packages/billing/src/usage.service.ts): it reads the ledgers one after     *)
(* the other, outside any transaction, while they grow, writes the buckets of   *)
(* the two days gone by, and may die between any two statements. One meter,      *)
(* fed by several ledgers; the others are alike.                                  *)
(***************************************************************************)
EXTENDS Naturals, Sequences, Functions

CONSTANTS Sources,   \* the ledgers of a meter, in the order they are read
          LastDay,   \* bound
          MostUsed   \* bound: units

VARIABLES
  date,
  used,      \* units recorded, by ledger and by the day they count on
  bucket,    \* usage_records.count, by day
  rolling,   \* the days the rollup under way has to write, what it has to read, its sums
  behind,    \* ghost: days of which a unit is younger than the last rollup of the day
  lastRoll   \* ghost: the days the rollup under way has seen whole so far

rollupVars == <<date, used, bucket, rolling, behind, lastRoll>>

Dates   == 0..LastDay
Ledgers == 1..Len(Sources)
Resting == [days |-> {}, todo |-> <<>>, sum |-> [d \in Dates |-> 0]]
Total(d) == FoldFunction(+, 0, [l \in Ledgers |-> used[l][d]])
AllUsed == FoldFunction(+, 0, [d \in Dates |-> Total(d)])

Init ==
  /\ date = 0
  /\ used = [l \in Ledgers |-> [d \in Dates |-> 0]]
  /\ bucket = [d \in Dates |-> 0]
  /\ rolling = Resting
  /\ behind = {} /\ lastRoll = {}

Midnight ==
  /\ date < LastDay
  /\ date' = date + 1
  /\ UNCHANGED <<used, bucket, rolling, behind, lastRoll>>

\* A unit is recorded: the mails of an execution count on the day its row was made,
\* however much later they go out, every other unit on its own day.
Record(l, d) ==
  /\ AllUsed < MostUsed
  /\ d = date \/ (Sources[l] = "execution" /\ d < date)
  /\ used' = [used EXCEPT ![l][d] = @ + 1]
  /\ behind' = behind \cup {d}
  /\ lastRoll' = lastRoll \ {d}
  /\ UNCHANGED <<date, bucket, rolling>>

\* ROLLUP_LOOKBACK_DAYS.
Begin ==
  /\ rolling.days = {} /\ date > 0
  /\ LET back == {d \in Dates : d < date /\ d + 2 >= date}
     IN /\ rolling' = [Resting EXCEPT !.days = back, !.todo = [l \in Ledgers |-> l]]
        /\ lastRoll' = back
  /\ UNCHANGED <<date, used, bucket, behind>>

ReadLedger ==
  /\ rolling.todo # <<>>
  /\ LET of == used[Head(rolling.todo)]
     IN rolling' = [rolling EXCEPT
          !.todo = Tail(@),
          !.sum = [d \in Dates |-> @[d] + IF d \in rolling.days THEN of[d] ELSE 0]]
  /\ UNCHANGED <<date, used, bucket, behind, lastRoll>>

\* Mutant: a bucket that exists is added to.
Adds(old, sum) == old + sum

\* onConflictDoUpdate: the bucket is replaced.
Replaces(old, sum) == sum

\* writeBucket; a day without a unit has no row.
WriteBucket(d) ==
  /\ d \in rolling.days /\ rolling.todo = <<>>
  /\ bucket' = [bucket EXCEPT ![d] = IF rolling.sum[d] = 0 THEN @ ELSE Replaces(@, rolling.sum[d])]
  /\ behind' = behind \ ({d} \cap lastRoll)
  /\ IF rolling.days = {d} THEN rolling' = Resting /\ lastRoll' = {}
     ELSE rolling' = [rolling EXCEPT !.days = @ \ {d}] /\ UNCHANGED lastRoll
  /\ UNCHANGED <<date, used>>

\* The job has one attempt; "the next tick recovers".
Dies ==
  /\ rolling.days # {}
  /\ rolling' = Resting /\ lastRoll' = {}
  /\ UNCHANGED <<date, used, bucket, behind>>

RollupNext ==
  \/ Midnight \/ Begin \/ ReadLedger \/ Dies
  \/ \E d \in Dates : WriteBucket(d) \/ \E l \in Ledgers : Record(l, d)

RollupSpec == Init /\ [][RollupNext]_rollupVars

-----------------------------------------------------------------------------
(* "Re-running any window is always safe": a day that was rolled up after its last   *)
(* unit has a bucket of all its ledgers, however often it was rolled up, wherever a    *)
(* rollup died and whatever was recorded while one read.                                *)
BucketsTrue == \A d \in Dates \ behind : bucket[d] = Total(d)

=============================================================================
