--------------------------- MODULE RealtimeFanout ---------------------------
(***************************************************************************)
(* The event stream of one store: browser tabs open sockets to an API          *)
(* instance, the gateway counts them and holds one handler on the store's       *)
(* channel, and the pub/sub driver holds one Redis subscription for the         *)
(* handlers of a channel (apps/web/src/lib/realtime.ts, apps/web/src/shell/      *)
(* AppLayout.tsx, apps/api/src/modules/realtime/gateway.ts,                       *)
(* packages/cache/src/redis.pubsub.ts).                                           *)
(*                                                                         *)
(* A socket has two ends. The client's end closes first, or the server's; the  *)
(* other end learns of it later, in a step of its own.                           *)
(***************************************************************************)
EXTENDS Naturals, Sequences, FiniteSets

CONSTANTS Pages,        \* mounted AppLayouts, each with its RealtimeClient
          MaxSockets,   \* bound: sockets opened
          MaxFailures   \* bound: SUBSCRIBEs that fail

Sockets == 1 .. MaxSockets

VARIABLES
  \* RealtimeClient
  started,   \* ~stopped
  ws,        \* this.ws, 0 for null
  timers,    \* pending reconnect timers: how many, and whether the last is known
  starts,    \* ghost: how often start() has been called
  owner,     \* of each socket, its page
  near, far, \* its ends: at the client and at the server
  \* gateway.ts
  count,     \* subscribedStores: 0 when the store has no entry
  handler,   \* storeHandlers: the number of the handler, 0 for none
  \* redis.pubsub.ts and Redis
  listening, \* the handlers in the channel's set, or Absent
  set,       \* which of the sets made for the channel the map holds, 0 for none
  wire,      \* commands on the subscriber connection, not yet answered
  on,        \* Redis sends the channel to this connection
  failures

client  == <<started, ws, timers, starts>>
sockets == <<owner, near, far>>
server  == <<count, handler>>
bus     == <<listening, set, wire, on, failures>>
fanoutVars == <<client, sockets, server, bus>>

Made == Len(owner)

Init ==
  /\ started = [p \in Pages |-> FALSE]
  /\ ws = [p \in Pages |-> 0]
  /\ timers = [p \in Pages |-> [known |-> FALSE, lost |-> 0]]
  /\ starts = [p \in Pages |-> 0]
  /\ owner = <<>> /\ near = <<>> /\ far = <<>>
  /\ count = 0 /\ handler = 0
  /\ listening = <<>> /\ set = 0 /\ wire = <<>> /\ on = FALSE
  /\ failures = 0

-----------------------------------------------------------------------------
(* RealtimeClient.                                                          *)

\* open() of page p: a new socket becomes this.ws, whatever this.ws was.
Opens(p) ==
  /\ Made < MaxSockets
  /\ owner' = Append(owner, p)
  /\ near' = Append(near, "open") /\ far' = Append(far, "upgrading")
  /\ ws' = [ws EXCEPT ![p] = Made + 1]

\* start(token), when the page becomes ready or its access token has changed.
Start(p) ==
  /\ ~started[p]
  /\ Opens(p)
  /\ started' = [started EXCEPT ![p] = TRUE]
  /\ starts' = [starts EXCEPT ![p] = @ + 1]
  /\ UNCHANGED <<timers, server, bus>>

\* stop(): the timer it knows is cleared and the socket it knows is closed; the
\* onclose of that socket comes later.
Stop(p) ==
  /\ started[p]
  /\ started' = [started EXCEPT ![p] = FALSE]
  /\ timers' = [timers EXCEPT ![p].known = FALSE]
  /\ near' = IF ws[p] = 0 THEN near ELSE [near EXCEPT ![ws[p]] = "closing"]
  /\ ws' = [ws EXCEPT ![p] = 0]
  /\ UNCHANGED <<starts, owner, far, server, bus>>

\* scheduleReconnect goes ahead unless the client is stopped.
Reconnects(s) == started[owner[s]]

\* onclose, of whichever socket of the page: this.ws is forgotten, and a timer is
\* set over the one that may be pending.
OnClose(s) ==
  LET p == owner[s] IN
  /\ near[s] = "closing" \/ (near[s] = "open" /\ far[s] = "closed")
  /\ near' = [near EXCEPT ![s] = "closed"]
  /\ ws' = [ws EXCEPT ![p] = 0]
  /\ timers' = IF Reconnects(s)
                 THEN [timers EXCEPT ![p] = [known |-> TRUE,
                                             lost |-> @.lost + IF @.known THEN 1 ELSE 0]]
                 ELSE timers
  /\ UNCHANGED <<started, starts, owner, far, server, bus>>

\* A timer fires; stop() cannot have cleared one that another has replaced.
Fires(p) ==
  /\ \/ timers[p].known /\ timers' = [timers EXCEPT ![p].known = FALSE]
     \/ timers[p].lost > 0 /\ timers' = [timers EXCEPT ![p].lost = @ - 1]
  /\ IF started[p] THEN Opens(p) ELSE UNCHANGED <<ws, sockets>>
  /\ UNCHANGED <<started, starts, server, bus>>

-----------------------------------------------------------------------------
(* redis.pubsub.ts. Commands are answered in the order they were sent.      *)

\* subscribe(channel, h): an empty set and a SUBSCRIBE for a channel without
\* one; the handler joins the set when the answer is there.
Subscribe(h) ==
  IF set = 0
    THEN /\ listening' = Append(listening, {})
         /\ set' = Len(listening) + 1
         /\ wire' = Append(wire, [cmd |-> "SUBSCRIBE", handler |-> h, set |-> Len(listening) + 1])
    ELSE /\ listening' = [listening EXCEPT ![set] = @ \cup {h}]
         /\ UNCHANGED <<set, wire>>

\* unsubscribe(channel, h): the last handler takes the set with it.
Unsubscribe(h) ==
  IF set = 0 THEN UNCHANGED <<listening, set, wire>>
  ELSE /\ listening' = [listening EXCEPT ![set] = @ \ {h}]
       /\ IF listening[set] \ {h} = {}
            THEN /\ set' = 0
                 /\ wire' = Append(wire, [cmd |-> "UNSUBSCRIBE", handler |-> h, set |-> set])
            ELSE UNCHANGED <<set, wire>>

\* Redis answers; a handler joins the set it was meant for, which the map may
\* have dropped by now.
Answered ==
  /\ wire # <<>>
  /\ LET c == Head(wire)
     IN /\ on' = (c.cmd = "SUBSCRIBE")
        /\ listening' = IF c.cmd = "SUBSCRIBE"
                          THEN [listening EXCEPT ![c.set] = @ \cup {c.handler}]
                          ELSE listening
  /\ wire' = Tail(wire)
  /\ UNCHANGED <<set, failures, client, sockets, server>>

\* A SUBSCRIBE is refused: the gateway logs it and keeps its count and handler.
SubscribeFails ==
  /\ failures < MaxFailures
  /\ wire # <<>> /\ Head(wire).cmd = "SUBSCRIBE"
  /\ wire' = Tail(wire)
  /\ failures' = failures + 1
  /\ UNCHANGED <<listening, set, on, client, sockets, server>>

-----------------------------------------------------------------------------
(* gateway.ts.                                                              *)

\* handleUpgrade after the token is verified; addStoreSubscription.
Upgrade(s) ==
  /\ far[s] = "upgrading"
  /\ far' = [far EXCEPT ![s] = "open"]
  /\ count' = count + 1
  /\ IF count = 0 THEN handler' = Len(listening) + 1 /\ Subscribe(Len(listening) + 1)
     ELSE UNCHANGED <<handler, listening, set, wire>>
  /\ UNCHANGED <<client, owner, near, on, failures>>

\* The token has expired, or the client has gone.
Rejects(s) ==
  /\ far[s] = "upgrading"
  /\ far' = [far EXCEPT ![s] = "closed"]
  /\ UNCHANGED <<client, owner, near, server, bus>>

\* Mutant: any socket that closes ends the subscription.
RemovesAlways ==
  /\ count' = IF count > 0 THEN count - 1 ELSE 0
  /\ IF handler # 0 THEN handler' = 0 /\ Unsubscribe(handler)
     ELSE UNCHANGED <<handler, listening, set, wire>>

\* removeStoreSubscription.
Removes ==
  /\ count' = count - 1
  /\ IF count = 1 /\ handler # 0 THEN handler' = 0 /\ Unsubscribe(handler)
     ELSE UNCHANGED <<handler, listening, set, wire>>

\* "close" at the server: the client has closed, the heartbeat terminated a
\* socket that did not answer, or the connection broke.
Gone(s) ==
  /\ far[s] = "open"
  /\ far' = [far EXCEPT ![s] = "closed"]
  /\ Removes
  /\ UNCHANGED <<client, owner, near, on, failures>>

FanoutNext ==
  \/ \E p \in Pages : Start(p) \/ Stop(p) \/ Fires(p)
  \/ \E s \in DOMAIN owner : OnClose(s) \/ Upgrade(s) \/ Rejects(s) \/ Gone(s)
  \/ Answered \/ SubscribeFails

FanoutSpec == Init /\ [][FanoutNext]_fanoutVars

-----------------------------------------------------------------------------
(* Properties.                                                              *)

\* How often a socket that is open at the server is sent an event published now.
Copies == IF on /\ set # 0 THEN Cardinality(listening[set]) ELSE 0

\* Once Redis has answered, every open socket of the store is sent each event
\* exactly once, however sockets came and went while it had not; and a store
\* without sockets costs no subscription.
HeardOnce == wire = <<>> /\ failures = 0 =>
  Copies = IF \E s \in DOMAIN owner : far[s] = "open" THEN 1 ELSE 0

\* A page that is started never falls silent: it has a socket it has not seen
\* close, or a reconnect before it, through restarts with a new token while
\* the old socket still closes.
StaysTuned == \A p \in Pages : started[p] =>
  \/ \E s \in DOMAIN owner : owner[s] = p /\ near[s] = "open"
  \/ timers[p].known \/ timers[p].lost > 0

\* The sockets a page has not seen close and has not begun to close: it routes
\* whatever comes over them, and shows an event once for each.
Ears(p) == {s \in DOMAIN owner : owner[s] = p /\ near[s] = "open"}

\* A page is told of an event more than once only after a restart: the onclose of a
\* socket that stop() has closed, or a timer that stop() did not know, opens one
\* socket more, but never more than one for each start.
NoMoreThanStarts == \A p \in Pages : Cardinality(Ears(p)) <= starts[p]

\* Events arrive: once Redis has answered, each goes exactly once to every socket
\* that is open at the server; a page that is started has such a socket, one that
\* is about to be or whose end it is about to notice, or a reconnect before it;
\* and it holds one socket, or after restarts with a new token at most one for each.
EventsArrive == HeardOnce /\ StaysTuned /\ NoMoreThanStarts

=============================================================================
