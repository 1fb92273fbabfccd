----------------------------- MODULE ExportFile -----------------------------
(***************************************************************************)
(* Report exports of one store: the request that inserts a row and enqueues    *)
(* its job, the attempts of that job, which claim the row, build the file and   *)
(* save it, and the sweep of old files (packages/automation/src/                 *)
(* export.service.ts, apps/api/src/modules/automation-center/exports.router.ts,   *)
(* apps/worker/src/handlers/automation.handlers.ts).                               *)
(*                                                                         *)
(* Every request makes a row and a job of its own, so that an export, its       *)
(* request and its job have one name. An attempt the queue has given up on     *)
(* goes on beside the next one.                                                  *)
(***************************************************************************)
EXTENDS Naturals, FiniteSets

CONSTANTS Exports,
          Attempts,   \* ExportGenerateJob.attempts
          Limit,      \* exports a store may have in progress
          MaxMishaps  \* bound: timeouts, crashes and failed statements

VARIABLES
  status,   \* exports.status, or "none"
  stored,   \* fileData is there
  asker,    \* the request that makes the row
  queued,   \* the job waits for a worker
  begun,    \* attempts begun
  awaited,  \* the attempt whose outcome the queue waits for, 0 for none
  attempt,  \* where each attempt is
  cut,      \* ghost: exports whose enqueue, claim or last write never came about
  upsets

exportVars == <<status, stored, asker, queued, begun, awaited, attempt, cut, upsets>>
exportRow == <<status, stored>>
job       == <<queued, begun, awaited, attempt>>

Runs == 1 .. Attempts

Init ==
  /\ status = [e \in Exports |-> "none"] /\ stored = [e \in Exports |-> FALSE]
  /\ asker = [e \in Exports |-> "idle"]
  /\ queued = {} /\ begun = [e \in Exports |-> 0] /\ awaited = [e \in Exports |-> 0]
  /\ attempt = [e \in Exports |-> [n \in Runs |-> "none"]]
  /\ cut = {} /\ upsets = 0

Mishap == upsets < MaxMishaps /\ upsets' = upsets + 1

-----------------------------------------------------------------------------
(* POST /exports.                                                           *)

InProgress == {e \in Exports : status[e] \in {"QUEUED", "RUNNING"}}

\* request: the count and the insert are two statements, and nothing is locked.
Count(e) ==
  /\ asker[e] = "idle" /\ Cardinality(InProgress) < Limit
  /\ asker' = [asker EXCEPT ![e] = "insert"]
  /\ UNCHANGED <<exportRow, job, cut, upsets>>

Insert(e) ==
  /\ asker[e] = "insert"
  /\ status' = [status EXCEPT ![e] = "QUEUED"]
  /\ asker' = [asker EXCEPT ![e] = "enqueue"]
  /\ UNCHANGED <<stored, job, cut, upsets>>

Enqueue(e) ==
  /\ asker[e] = "enqueue"
  /\ queued' = queued \cup {e}
  /\ asker' = [asker EXCEPT ![e] = "done"]
  /\ UNCHANGED <<exportRow, begun, awaited, attempt, cut, upsets>>

\* The queue is out of reach, or the process dies: the row stays.
EnqueueFails(e) ==
  /\ asker[e] = "enqueue" /\ Mishap
  /\ asker' = [asker EXCEPT ![e] = "done"]
  /\ cut' = cut \cup {e}
  /\ UNCHANGED <<exportRow, job>>

-----------------------------------------------------------------------------
(* exportGenerateHandler.                                                   *)

At(e, n, here) == attempt[e][n] = here
Goes(e, n, to) == attempt' = [attempt EXCEPT ![e][n] = to]

Begin(e) ==
  /\ e \in queued /\ begun[e] < Attempts
  /\ queued' = queued \ {e}
  /\ begun' = [begun EXCEPT ![e] = @ + 1]
  /\ awaited' = [awaited EXCEPT ![e] = begun[e] + 1]
  /\ Goes(e, begun[e] + 1, "claim")
  /\ UNCHANGED <<exportRow, asker, cut, upsets>>

\* The attempt is over; unless the queue had given it up, its job has ended, or
\* is tried again.
Over(e, n, threw) ==
  /\ Goes(e, n, "none")
  /\ awaited' = IF awaited[e] = n THEN [awaited EXCEPT ![e] = 0] ELSE awaited
  /\ queued' = IF threw /\ awaited[e] = n /\ begun[e] < Attempts THEN queued \cup {e} ELSE queued
  /\ UNCHANGED begun

\* QUEUED -> RUNNING, or the attempt has nothing to do.
Claim(e, n) ==
  /\ At(e, n, "claim")
  /\ IF status[e] = "QUEUED"
       THEN /\ status' = [status EXCEPT ![e] = "RUNNING"]
            /\ Goes(e, n, "build")
            /\ UNCHANGED <<queued, begun, awaited>>
       ELSE Over(e, n, FALSE) /\ UNCHANGED status
  /\ UNCHANGED <<stored, asker, cut, upsets>>

\* Mutant: an error of the build leaves generate.
BuildThrows(e, n, ok) ==
  /\ At(e, n, "build")
  /\ IF ok THEN Goes(e, n, "save") /\ UNCHANGED <<queued, begun, awaited>>
     ELSE Over(e, n, TRUE)
  /\ UNCHANGED <<exportRow, asker, cut, upsets>>

\* The parameters, the report or the rendering may fail, or the file be too large.
Build(e, n, ok) ==
  /\ At(e, n, "build")
  /\ Goes(e, n, IF ok THEN "save" ELSE "fail")
  /\ UNCHANGED <<exportRow, queued, begun, awaited, asker, cut, upsets>>

\* READY, by id.
Save(e, n) ==
  /\ At(e, n, "save")
  /\ status' = [status EXCEPT ![e] = "READY"] /\ stored' = [stored EXCEPT ![e] = TRUE]
  /\ Goes(e, n, "notify")
  /\ UNCHANGED <<queued, begun, awaited, asker, cut, upsets>>

\* The write of the file is inside the try block as well; it may have been
\* committed when its answer is lost.
SaveFails(e, n) ==
  /\ At(e, n, "save") /\ Mishap
  /\ \E committed \in BOOLEAN :
       IF committed THEN /\ status' = [status EXCEPT ![e] = "READY"]
                         /\ stored' = [stored EXCEPT ![e] = TRUE]
                    ELSE UNCHANGED exportRow
  /\ Goes(e, n, "fail")
  /\ UNCHANGED <<queued, begun, awaited, asker, cut>>

\* FAILED, by id.
Fail(e, n) ==
  /\ At(e, n, "fail")
  /\ status' = [status EXCEPT ![e] = "FAILED"]
  /\ Goes(e, n, "notify")
  /\ UNCHANGED <<stored, queued, begun, awaited, asker, cut, upsets>>

\* getExport and notify.
Notify(e, n, ok) ==
  /\ At(e, n, "notify")
  /\ (IF ok THEN UNCHANGED upsets ELSE Mishap)
  /\ Over(e, n, ~ok)
  /\ UNCHANGED <<exportRow, asker, cut>>

\* A claim or the write of FAILED throws, or the worker dies: what the attempt
\* had claimed, and what will not be tried again, stays as it is.
Dies(e, n) ==
  /\ attempt[e][n] # "none" /\ Mishap
  /\ Over(e, n, TRUE)
  /\ cut' = IF \/ attempt[e][n] \in {"build", "save", "fail"}
                \/ (attempt[e][n] = "claim" /\ begun[e] = Attempts)
              THEN cut \cup {e} ELSE cut
  /\ UNCHANGED <<exportRow, asker>>

\* timeoutMs: the queue gives the attempt up, which goes on.
TimesOut(e) ==
  /\ awaited[e] # 0 /\ Mishap
  /\ awaited' = [awaited EXCEPT ![e] = 0]
  /\ queued' = IF begun[e] < Attempts THEN queued \cup {e} ELSE queued
  /\ UNCHANGED <<exportRow, begun, attempt, asker, cut>>

\* sweepExpired, in automation.tick.
Sweep(e) ==
  /\ status[e] = "READY" /\ stored[e]
  /\ stored' = [stored EXCEPT ![e] = FALSE]
  /\ UNCHANGED <<status, asker, job, cut, upsets>>

ExportNext == \E e \in Exports :
  \/ Count(e) \/ Insert(e) \/ Enqueue(e) \/ EnqueueFails(e)
  \/ Begin(e) \/ TimesOut(e) \/ Sweep(e)
  \/ \E n \in Runs : \/ Claim(e, n) \/ Save(e, n) \/ SaveFails(e, n) \/ Fail(e, n) \/ Dies(e, n)
                     \/ \E ok \in BOOLEAN : Build(e, n, ok) \/ Notify(e, n, ok)

ExportSpec == Init /\ [][ExportNext]_exportVars

-----------------------------------------------------------------------------
(* Properties.                                                              *)

AtRest(e) == asker[e] = "done" /\ e \notin queued /\ \A n \in Runs : At(e, n, "none")

\* When nobody works on an export any more it is READY or FAILED, whichever
\* attempts timed out, overlapped or failed to build: it does not hold one of
\* the store's places for ever. A crash between the claim and the last write, an
\* enqueue that never came about and a job that died before its claim do.
NoneStranded == \A e \in Exports : AtRest(e) /\ e \notin cut => status[e] \in {"READY", "FAILED"}

=============================================================================
