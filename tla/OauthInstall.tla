---------------------------- MODULE OauthInstall ----------------------------
(***************************************************************************)
(* Installation of the application in one shop: the single-use state, the      *)
(* callback that verifies it, provisions the store and follows up, and the       *)
(* webhook that undoes it (apps/api/src/modules/shopify/oauth.service.ts and      *)
(* webhooks/handlers.ts, apps/api/src/server.ts).                                  *)
(*                                                                         *)
(* Each statement of the provisioning transaction is a step; the upsert of     *)
(* the store locks its row until the transaction commits, and so does the        *)
(* update of app/uninstalled. Shopify's side of an installation is the number    *)
(* of times it was granted and whether it stands.                                 *)
(***************************************************************************)
EXTENDS Naturals, FiniteSets

CONSTANTS States,      \* rows of shopify_oauth_states
          Callbacks,   \* requests that carry a state
          MaxTroubles    \* bound: calls that fail and processes that die

VARIABLES
  minted,    \* states that have been inserted
  burned,    \* their usedAt is set
  store,     \* stores.status, and whether its OFFLINE session has a token
  trials,    \* subscriptions of the store
  locked,    \* the callback that holds the lock of the stores row
  install,   \* each callback: where it is, its state, whether a trial exists
  provisioned, \* ghost: how many provisionings each state has paid for
  jobs,      \* SyncStoreFull and ShopifyEnsureWebhooks have been enqueued
  troubles

installVars == <<minted, burned, store, trials, locked, install, provisioned, jobs, troubles>>

None     == "none"
Waiting  == [at |-> "none", state |-> None, trial |-> FALSE]

Init ==
  /\ minted = {} /\ burned = {}
  /\ store = [status |-> "absent", token |-> FALSE]
  /\ trials = 0 /\ locked = None
  /\ install = [c \in Callbacks |-> Waiting]
  /\ provisioned = [s \in States |-> 0]
  /\ jobs = {} /\ troubles = 0

-----------------------------------------------------------------------------
(* The state.                                                               *)

Moves(c, from, to) ==
  /\ install[c].at = from
  /\ install' = [install EXCEPT ![c].at = to]

\* buildInstallUrl.
Mint(s) ==
  /\ s \notin minted
  /\ minted' = minted \cup {s}
  /\ UNCHANGED <<burned, store, trials, locked, install, provisioned, jobs, troubles>>

\* A callback, or a copy of one, arrives; its signature is good.
Arrives(c, s) ==
  /\ install[c].at = "none" /\ s \in minted
  /\ install' = [install EXCEPT ![c] = [Waiting EXCEPT !.at = "burn", !.state = s]]
  /\ UNCHANGED <<minted, burned, store, trials, locked, provisioned, jobs, troubles>>

\* burnState: one UPDATE ... WHERE used_at IS NULL; what it burns may have expired.
BurnState(c) ==
  /\ \E fresh \in BOOLEAN :
       Moves(c, "burn", IF install[c].state \notin burned /\ fresh THEN "exchange" ELSE "over")
  /\ burned' = burned \cup {install[c].state}
  /\ UNCHANGED <<minted, store, trials, locked, provisioned, jobs, troubles>>

\* exchangeCodeForOfflineToken and fetchShopProfile.
Exchange(c) ==
  /\ Moves(c, "exchange", "upsert")
  /\ UNCHANGED <<minted, burned, store, trials, locked, provisioned, jobs, troubles>>

-----------------------------------------------------------------------------
(* provisionStore, one transaction at READ COMMITTED.                       *)

\* Mutant: no transaction, so that the upsert keeps no lock.
UpsertAlone(c) ==
  /\ Moves(c, "upsert", "trial")
  /\ UNCHANGED <<minted, burned, store, trials, locked, provisioned, jobs, troubles>>

\* The upsert waits for whoever holds the row, or inserts it as well.
UpsertStore(c) ==
  /\ locked = None
  /\ Moves(c, "upsert", "trial")
  /\ locked' = c
  /\ UNCHANGED <<minted, burned, store, trials, provisioned, jobs, troubles>>

\* The subscriptions of the store as they are committed now.
LookForTrial(c) ==
  /\ install[c].at = "trial"
  /\ install' = [install EXCEPT ![c].at = "commit", ![c].trial = trials > 0]
  /\ UNCHANGED <<minted, burned, store, trials, locked, provisioned, jobs, troubles>>

\* ACTIVE, the token, and a trial with its event unless there was one.
Commit(c) ==
  /\ Moves(c, "commit", "audit")
  /\ store' = [status |-> "ACTIVE", token |-> TRUE]
  /\ trials' = IF install[c].trial THEN trials ELSE trials + 1
  /\ locked' = None
  /\ provisioned' = [provisioned EXCEPT ![install[c].state] = @ + 1]
  /\ UNCHANGED <<minted, burned, jobs, troubles>>

-----------------------------------------------------------------------------
(* After the commit: audit, webhook, and afterStoreProvisioned.             *)

\* audit.record and registerInstallWebhooks, whose failure is recorded.
Record(c) ==
  /\ Moves(c, "audit", "full")
  /\ UNCHANGED <<minted, burned, store, trials, locked, provisioned, jobs, troubles>>

\* sync:full with a new run group, and then webhooks:ensure.
EnqueueSync(c) ==
  /\ Moves(c, "full", "ensure")
  /\ jobs' = jobs \cup {"full"}
  /\ UNCHANGED <<minted, burned, store, trials, locked, provisioned, troubles>>

EnqueueWebhooks(c) ==
  /\ Moves(c, "ensure", "over")
  /\ jobs' = jobs \cup {"ensure"}
  /\ UNCHANGED <<minted, burned, store, trials, locked, provisioned, troubles>>

\* Shopify or a statement fails, or the process dies: an open transaction is rolled
\* back, a burned state stays burned, and what follows the commit does not happen.
Fails(c) ==
  /\ install[c].at \notin {"none", "over"} /\ troubles < MaxTroubles
  /\ install' = [install EXCEPT ![c].at = "over"]
  /\ locked' = IF locked = c THEN None ELSE locked
  /\ troubles' = troubles + 1
  /\ UNCHANGED <<minted, burned, store, trials, provisioned, jobs>>

\* The redirect has been sent; the next request of the merchant.
Again(c) ==
  /\ install[c].at = "over"
  /\ install' = [install EXCEPT ![c] = Waiting]
  /\ UNCHANGED <<minted, burned, store, trials, locked, provisioned, jobs, troubles>>

\* handleAppUninstalled, for a webhook that may be late: one transaction, which
\* begins with the row of the store.
AppUninstalled ==
  /\ store.status = "ACTIVE" /\ locked = None
  /\ store' = [status |-> "UNINSTALLED", token |-> FALSE]
  /\ UNCHANGED <<minted, burned, trials, locked, install, provisioned, jobs, troubles>>

InstallNext ==
  \/ \E s \in States : Mint(s) \/ \E c \in Callbacks : Arrives(c, s)
  \/ \E c \in Callbacks : \/ BurnState(c) \/ Exchange(c)
                           \/ UpsertStore(c) \/ LookForTrial(c) \/ Commit(c)
                           \/ Record(c) \/ EnqueueSync(c) \/ EnqueueWebhooks(c)
                           \/ Fails(c) \/ Again(c)
  \/ AppUninstalled

InstallSpec == Init /\ [][InstallNext]_installVars

-----------------------------------------------------------------------------
(* Properties.                                                              *)

\* However callbacks overlap, are repeated or fail, and however often the shop
\* installs again, its store starts one trial, and a state, "single-use atomic even
\* under concurrent replay attempts", pays for one provisioning.
ProvisionedOnce == trials <= 1 /\ \A s \in States : provisioned[s] <= 1

=============================================================================
