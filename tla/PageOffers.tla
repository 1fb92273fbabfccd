----------------------------- MODULE PageOffers -----------------------------
(***************************************************************************)
(* What a page offers to whom, and what the server answers: the buttons and     *)
(* queries of apps/web/src/pages and shell behind hasPermission and a row's        *)
(* status, against requirePermission and the statuses the services take.             *)
(*                                                                         *)
(* A page is about one row, known by its status; what it shows is what its last   *)
(* answer held, while others, and the worker, move the row on. A button sends one   *)
(* request, directly or behind a dialog that keeps what it was opened at. What a    *)
(* form holds is PageForms', how answers reach a page is LiveView's; quotas, flags,  *)
(* rate limits and rows that are gone are left out.                                   *)
(***************************************************************************)
EXTENDS PageTables

VARIABLES
  viewer,   \* the role of who is signed in
  page,     \* the page on screen, "nowhere", or "denied": the guard's refusal
  thing,    \* the status, on the server, of what the page is about
  showing,  \* the status the page shows, Loading before its first answer
  asking,   \* what an open dialog asks about, and the status shown when it was opened
  served    \* history: the request last answered, the status shown and the one met

offersVars == <<viewer, page, thing, showing, asking, served>>

NoRequest == [request |-> "none", shown |-> Loading]
NothingServed == [request |-> "none", shown |-> Loading, met |-> Loading, answer |-> "none"]

-----------------------------------------------------------------------------
(* A visit.                                                                 *)

Init ==
  /\ viewer \in Roles
  /\ page = "nowhere" /\ thing = "there"
  /\ showing = Loading /\ asking = NoRequest /\ served = NothingServed

AtRest == served = NothingServed

\* RequireAuth lets everyone signed in through, RequirePermission the permitted.
Visit(p) ==
  /\ page = "nowhere"
  /\ IF Opens(viewer, p) THEN page' = p /\ thing' \in Statuses(Subjects[p])
     ELSE page' = "denied" /\ UNCHANGED thing
  /\ UNCHANGED <<viewer, showing, asking, served>>

\* A link away; the denial has one as well.
Leave ==
  /\ page # "nowhere" /\ AtRest
  /\ page' = "nowhere" /\ thing' = "there" /\ showing' = Loading /\ asking' = NoRequest
  /\ UNCHANGED <<viewer, served>>

Open == page \in DOMAIN PageButtons /\ AtRest

Move ==
  /\ Open
  /\ \E step \in Courses[Subjects[page]] : thing = step[1] /\ thing' = step[2]
  /\ UNCHANGED <<viewer, page, showing, asking, served>>

\* An answer arrives.
Refresh ==
  /\ Open
  /\ showing' = Look(thing)
  /\ UNCHANGED <<viewer, page, thing, asking, served>>

Offered(u, p, request, status) ==
  /\ request \in DOMAIN PageButtons[p]
  /\ Granted(u, PageButtons[p][request].asks) /\ status \in PageButtons[p][request].at

\* The permission is looked at before the row.
Answered(request, shown) ==
  LET route == Routes[request]
      answer == IF ~Granted(viewer, route.requires) THEN "forbidden"
                ELSE IF thing \in DOMAIN route.becomes THEN "done" ELSE "refused"
  IN /\ served' = [request |-> request, shown |-> shown, met |-> thing, answer |-> answer]
     /\ thing' = IF answer = "done" THEN route.becomes[thing] ELSE thing

Press(request) ==
  /\ Open /\ asking = NoRequest
  /\ Offered(viewer, page, request, showing) /\ ~PageButtons[page][request].dialog
  /\ Answered(request, showing)
  /\ UNCHANGED <<viewer, page, showing, asking>>

OpenDialog(request) ==
  /\ Open /\ asking = NoRequest
  /\ Offered(viewer, page, request, showing) /\ PageButtons[page][request].dialog
  /\ asking' = [request |-> request, shown |-> showing]
  /\ UNCHANGED <<viewer, page, thing, showing, served>>

Confirm ==
  /\ Open /\ asking # NoRequest
  /\ Answered(asking.request, asking.shown)
  /\ asking' = NoRequest
  /\ UNCHANGED <<viewer, page, showing>>

\* What was answered is looked at once, before anything else happens.
Dismiss ==
  /\ served # NothingServed
  /\ served' = NothingServed
  /\ UNCHANGED <<viewer, page, thing, showing, asking>>

OffersNext ==
  \/ \E p \in DOMAIN PageButtons : Visit(p)
  \/ Leave \/ Move \/ Refresh \/ Confirm \/ Dismiss
  \/ \E request \in DOMAIN Routes : Press(request) \/ OpenDialog(request)

OffersSpec == Init /\ [][OffersNext]_offersVars

-----------------------------------------------------------------------------
TypeOK ==
  /\ viewer \in Roles
  /\ page \in DOMAIN PageButtons \cup {"nowhere", "denied"}
  /\ thing \in Known /\ showing \in Anytime
  /\ asking \in [request : DOMAIN Routes \cup {"none"}, shown : Anytime]
  /\ served \in [request : DOMAIN Routes \cup {"none"}, shown : Anytime, met : Anytime,
                  answer : {"none", "done", "refused", "forbidden"}]

\* Offered and refused with nothing changed in between: a winner while the campaign is
\* still sending, another plan beside a paid one, the swept file of a READY export.
Dead == {<<"declareWinner", "SENDING">>, <<"choosePlan", "ACTIVE">>, <<"downloadExport", "SWEPT">>}

\* Done at a status the button is not offered at, to a page that showed an earlier one.
Blind ==
  ({"startTrial", "startTrialAtOnce"} \X (Statuses("subscription") \ {"absent"}))
  \cup ({"activate"} \X {"ACTIVE", "ARCHIVED"}) \cup {<<"archive", "ARCHIVED">>}
  \cup ({"pause", "runOnce"} \X {"PAUSED", "ARCHIVED"})
  \cup {<<"closeTicket", "CLOSED">>, <<"declareWinner", "WON">>, <<"syncModule", "RUNNING">>,
        <<"cancelPlan", "CHARGE_PENDING">>, <<"downloadReport", "REBUILDING">>,
        <<"downloadReport", "REFAILED">>}

\* A page offers what the server does: a request is refused only where the row has
\* changed since it was shown, or is one of the dead; it is forbidden only where the
\* schedule asks for another permission than its route, or the modules are not yet
\* known; and what is done unseen is one of the blind.
OffersHold ==
  LET o == served
  IN /\ o.answer = "refused" /\ Look(o.met) = o.shown => <<o.request, o.met>> \in Dead
     /\ o.answer = "forbidden" =>
          \/ o.request = "saveSchedule" /\ viewer = "MANAGER"
          \/ o.request = "fullSyncEarly" /\ ~Granted(viewer, Syncing)
     /\ o.answer = "done" /\ ~Offered(viewer, page, o.request, Look(o.met)) =>
          <<o.request, o.met>> \in Blind \/ o.request = "fullSyncEarly"

\* No query of an open page is forbidden, but the unread count, which the shell asks of
\* everyone, and the subscription, which the onboarding does; every section shown opens;
\* and the link of a denial leads everyone but SUPPORT somewhere.
ReadsAllowed ==
  /\ page \in DOMAIN PageButtons =>
       \A r \in Reads(viewer, page) :
         \/ Granted(viewer, {Reading[r]})
         \/ r = "unread"
         \/ r = "subscription" /\ page \in {"onboarding", "activation"}
  /\ \A p \in VisibleSections(viewer) : Opens(viewer, p)
  /\ page = "denied" => Opens(viewer, "dashboard") \/ viewer = "SUPPORT"

=============================================================================
