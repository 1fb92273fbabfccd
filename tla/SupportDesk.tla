----------------------------- MODULE SupportDesk -----------------------------
(***************************************************************************)
(* One support ticket: merchants and operators reply, resolve and close       *)
(* (packages/automation/src/support.service.ts, called by the routers of the   *)
(* automation center and of the admin module).                                  *)
(*                                                                         *)
(* A merchant's reply is one transaction, which locks the row only when it      *)
(* writes it; an operator's reply is three statements of their own.              *)
(***************************************************************************)
EXTENDS Naturals, FiniteSets

CONSTANTS Merchants, Operators,  \* calls of each side
          MaxMessages,           \* bound: messages of the thread
          MaxCrashes             \* bound: calls that die half way

VARIABLES
  ticket,     \* support_tickets: status, messageCount, operatorAttention
  messages,   \* how many support_ticket_messages there are
  calls,      \* each call: where it is, and the row it has read
  orphans,    \* ghost: messages whose reply died before it counted them
  crashes

deskVars == <<ticket, messages, calls, orphans, crashes>>

Desk    == Merchants \cup Operators
Resting == [at |-> "idle", read |-> "OPEN", count |-> 0]

\* createTicket: the ticket and its first message are one transaction.
Init ==
  /\ ticket = [status |-> "OPEN", messageCount |-> 1, operatorAttention |-> TRUE]
  /\ messages = 1
  /\ calls = [d \in Desk |-> Resting]
  /\ orphans = 0 /\ crashes = 0

-----------------------------------------------------------------------------

Steps(d, to) == calls' = [calls EXCEPT ![d] = to]

\* replyAsMerchant and replyAsOperator read the row; a closed ticket is refused.
Read(d) ==
  /\ calls[d].at = "idle" /\ messages < MaxMessages
  /\ ticket.status # "CLOSED"
  /\ Steps(d, [at |-> "insert", read |-> ticket.status, count |-> ticket.messageCount])
  /\ UNCHANGED <<ticket, messages, orphans, crashes>>

\* Mutant: the count is written from the row that was read.
CountedBefore(d) == calls[d].count + 1

\* messageCount + 1, computed by the UPDATE itself.
Counted(d) == ticket.messageCount + 1

\* The merchant's message and the row, in one transaction. The status is decided
\* by the row as it was read, whatever it has become.
MerchantReplies(m) ==
  /\ calls[m].at = "insert"
  /\ messages' = messages + 1
  /\ ticket' = [status |-> IF calls[m].read \in {"RESOLVED", "WAITING_ON_CUSTOMER"} THEN "OPEN"
                           ELSE calls[m].read,
                messageCount |-> Counted(m), operatorAttention |-> TRUE]
  /\ Steps(m, Resting)
  /\ UNCHANGED <<orphans, crashes>>

OperatorInserts(o) ==
  /\ calls[o].at = "insert"
  /\ messages' = messages + 1
  /\ Steps(o, [calls[o] EXCEPT !.at = "update"])
  /\ UNCHANGED <<ticket, orphans, crashes>>

OperatorUpdates(o) ==
  /\ calls[o].at = "update"
  /\ ticket' = [status |-> "WAITING_ON_CUSTOMER", messageCount |-> Counted(o),
                operatorAttention |-> FALSE]
  /\ Steps(o, Resting)
  /\ UNCHANGED <<messages, orphans, crashes>>

\* closeByMerchant and operatorTransition write by id, whatever the status is.
Closes(status) ==
  /\ ticket' = [ticket EXCEPT !.status = status, !.operatorAttention = FALSE]
  /\ UNCHANGED <<messages, calls, orphans, crashes>>

\* A statement throws or the process dies: what is committed stays.
Crash(d) ==
  /\ calls[d].at # "idle" /\ crashes < MaxCrashes
  /\ orphans' = IF calls[d].at = "update" THEN orphans + 1 ELSE orphans
  /\ crashes' = crashes + 1
  /\ Steps(d, Resting)
  /\ UNCHANGED <<ticket, messages>>

DeskNext ==
  \/ \E d \in Desk : Read(d) \/ Crash(d)
  \/ \E m \in Merchants : MerchantReplies(m)
  \/ \E o \in Operators : OperatorInserts(o) \/ OperatorUpdates(o)
  \/ \E status \in {"RESOLVED", "CLOSED"} : Closes(status)

DeskSpec == Init /\ [][DeskNext]_deskVars

-----------------------------------------------------------------------------
(* Properties.                                                              *)

\* The count of a ticket is the length of its thread, however replies of both
\* sides overlap: it lacks only the messages of operators that have yet to
\* count theirs, or died before they could.
CountsMessages ==
  ticket.messageCount + Cardinality({o \in Operators : calls[o].at = "update"}) + orphans
    = messages

=============================================================================
