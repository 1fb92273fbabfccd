------------------------- MODULE MCPlatform_proofs -------------------------
(***************************************************************************)
(* The small components, for every value of their constants: what MCPlatform   *)
(* checks of each of them on a small instance.  A behaviour of the platform is   *)
(* one of a single part, so that each theorem is the component's own: the steps   *)
(* of the platform are shown once to be steps of the part or to leave it alone,    *)
(* and then each part has an inductive invariant.                                  *)
(***************************************************************************)
EXTENDS MCPlatform, FiniteSetTheorems, SequenceTheorems, TLAPS

platformVars == <<part, authVars, fanoutVars, cacheVars, exportVars, deskVars, installVars,
                  reportVars, graphVars, cronVars, decisionVars, mirrorVars,
                  campaignVars, liveVars, meterVars, rollupVars, formsVars, editorVars,
                  offersVars>>

\* No step changes which part it is.
LEMMA PartStays == [Next]_platformVars => part' = part
BY DEF Next, Only, platformVars

\* A component counts with the Cardinality of FiniteSets.
LEMMA DeskCardinality == \A S : Desk!Cardinality(S) = Cardinality(S)
BY DEF Desk!Cardinality, Cardinality

-----------------------------------------------------------------------------
(* The support desk.                                                        *)

TicketStatuses == {"OPEN", "WAITING_ON_CUSTOMER", "RESOLVED", "CLOSED"}
DeskCalls == [at : {"idle", "insert", "update"}, read : TicketStatuses, count : Nat]

DeskTypeOK ==
  /\ ticket \in [status : TicketStatuses, messageCount : Nat, operatorAttention : BOOLEAN]
  /\ messages \in Nat /\ orphans \in Nat
  /\ calls \in [Merchants \cup Operators -> DeskCalls]

\* Operators whose message is in and not counted yet.
Uncounted(c) == {o \in Operators : c[o].at = "update"}

AddsUp == ticket.messageCount + Cardinality(Uncounted(calls)) + orphans = messages

DeskInv ==
  /\ DeskTypeOK
  /\ \A d \in Merchants \cup Operators : calls[d].at = "update" => d \in Operators
  /\ AddsUp

LEMMA DeskSteps ==
  ASSUME part = "desk", [Next]_platformVars
  PROVE  [Desk!DeskNext]_deskVars
BY DEF Next, Only, platformVars

LEMMA DeskInit == Init /\ part = "desk" => DeskInv
<1> SUFFICES ASSUME Desk!Init PROVE DeskInv
  BY DEF Init
<1>1. Uncounted(calls) = {}
  BY DEF Desk!Init, Desk!Resting, Desk!Desk, Uncounted
<1>2. Cardinality(Uncounted(calls)) = 0
  BY <1>1, FS_EmptySet
<1> QED
  BY <1>2 DEF Desk!Init, Desk!Resting, Desk!Desk, DeskInv, AddsUp, DeskTypeOK, TicketStatuses,
               DeskCalls

\* What a call's step does to the number of uncounted messages.
LEMMA Counting ==
  ASSUME DeskTypeOK, NEW d \in Merchants \cup Operators, NEW to \in DeskCalls,
         calls' = [calls EXCEPT ![d] = to],
         calls[d].at = "update" \/ to.at = "update" => d \in Operators
  PROVE  /\ Cardinality(Uncounted(calls)) \in Nat
         /\ calls[d].at # "update" /\ to.at # "update" => Uncounted(calls') = Uncounted(calls)
         /\ calls[d].at # "update" /\ to.at = "update" =>
              Cardinality(Uncounted(calls')) = Cardinality(Uncounted(calls)) + 1
         /\ calls[d].at = "update" /\ to.at # "update" =>
              Cardinality(Uncounted(calls')) + 1 = Cardinality(Uncounted(calls))
<1>1. IsFiniteSet(Uncounted(calls))
  BY DeskAssumption, FS_Subset DEF Uncounted
<1>2. Cardinality(Uncounted(calls)) \in Nat
  BY <1>1, FS_CardinalityType
<1>3. calls[d].at # "update" /\ to.at # "update" => Uncounted(calls') = Uncounted(calls)
  BY DEF DeskTypeOK, Uncounted
<1>4. ASSUME calls[d].at # "update", to.at = "update"
      PROVE  Cardinality(Uncounted(calls')) = Cardinality(Uncounted(calls)) + 1
  <2>1. Uncounted(calls') = Uncounted(calls) \cup {d} /\ d \notin Uncounted(calls)
    BY <1>4 DEF DeskTypeOK, Uncounted
  <2>2. Cardinality(Uncounted(calls) \cup {d}) =
          IF d \in Uncounted(calls) THEN Cardinality(Uncounted(calls))
          ELSE Cardinality(Uncounted(calls)) + 1
    BY <1>1, FS_AddElement
  <2> QED
    BY <2>1, <2>2
<1>5. ASSUME calls[d].at = "update", to.at # "update"
      PROVE  Cardinality(Uncounted(calls')) + 1 = Cardinality(Uncounted(calls))
  <2>1. Uncounted(calls') = Uncounted(calls) \ {d} /\ d \in Uncounted(calls)
    BY <1>5 DEF DeskTypeOK, Uncounted
  <2>2. Cardinality(Uncounted(calls) \ {d}) =
          IF d \in Uncounted(calls) THEN Cardinality(Uncounted(calls)) - 1
          ELSE Cardinality(Uncounted(calls))
    BY <1>1, FS_RemoveElement
  <2>3. Cardinality(Uncounted(calls) \ {d}) = Cardinality(Uncounted(calls)) - 1
    BY <2>1, <2>2
  <2>4. Cardinality(Uncounted(calls')) = Cardinality(Uncounted(calls)) - 1
    BY <2>1, <2>3
  <2> QED
    BY <1>2, <2>4
<1> QED
  BY <1>2, <1>3, <1>4, <1>5

LEMMA DeskKept == ASSUME DeskInv, [Desk!DeskNext]_deskVars PROVE DeskInv'
<1> USE DEF TicketStatuses, DeskCalls, Desk!Desk
<1>1. ASSUME NEW d \in Desk!Desk, Desk!Read(d) PROVE DeskInv'
  <2>1. [at |-> "insert", read |-> ticket.status, count |-> ticket.messageCount] \in DeskCalls
    BY DEF DeskInv, DeskTypeOK
  <2>2. Uncounted(calls') = Uncounted(calls)
    BY <1>1, <2>1 DEF DeskInv, DeskTypeOK, Desk!Read, Desk!Steps, Uncounted
  <2> QED
    BY <1>1, <2>1, <2>2 DEF DeskInv, DeskTypeOK, AddsUp, Desk!Read, Desk!Steps
<1>2. ASSUME NEW d \in Desk!Desk, Desk!Crash(d) PROVE DeskInv'
  <2>1. Desk!Resting \in DeskCalls /\ Desk!Resting.at = "idle"
    BY DEF Desk!Resting
  <2>2. calls[d].at = "update" => d \in Operators
    BY DEF DeskInv
  <2>3. calls' = [calls EXCEPT ![d] = Desk!Resting]
    BY <1>2 DEF Desk!Crash, Desk!Steps
  <2>4. /\ Cardinality(Uncounted(calls)) \in Nat
        /\ calls[d].at # "update" => Uncounted(calls') = Uncounted(calls)
        /\ calls[d].at = "update" =>
             Cardinality(Uncounted(calls')) + 1 = Cardinality(Uncounted(calls))
    BY <2>1, <2>2, <2>3, Counting DEF DeskInv
  <2>5. AddsUp
    BY DEF DeskInv
  <2>6. Cardinality(Uncounted(calls')) \in Nat
    BY DeskAssumption, FS_Subset, FS_CardinalityType DEF Uncounted
  <2>7. UNCHANGED <<ticket, messages>> /\ orphans' = IF calls[d].at = "update" THEN orphans + 1 ELSE orphans
    BY <1>2 DEF Desk!Crash
  <2>8. orphans' \in Nat /\ ticket.messageCount \in Nat /\ orphans \in Nat
    BY <2>7 DEF DeskInv, DeskTypeOK
  <2>9. AddsUp'
    BY <2>4, <2>5, <2>6, <2>7, <2>8 DEF AddsUp
  <2> QED
    BY <2>1, <2>3, <2>7, <2>8, <2>9 DEF DeskInv, DeskTypeOK
<1>3. ASSUME NEW m \in Merchants, Desk!MerchantReplies(m) PROVE DeskInv'
  <2>1. Desk!Resting \in DeskCalls /\ Desk!Resting.at = "idle"
    BY DEF Desk!Resting
  <2>2. Uncounted(calls') = Uncounted(calls)
    BY <1>3, <2>1 DEF DeskInv, DeskTypeOK, Desk!MerchantReplies, Desk!Steps, Uncounted
  <2>3. Cardinality(Uncounted(calls)) \in Nat
    BY DeskAssumption, FS_Subset, FS_CardinalityType DEF Uncounted
  <2>4. (DeskTypeOK /\ \A d \in Merchants \cup Operators : calls[d].at = "update" => d \in Operators)'
    BY <1>3, <2>1 DEF DeskInv, DeskTypeOK, Desk!MerchantReplies, Desk!Steps, Desk!Counted
  <2>5. ticket'.messageCount = ticket.messageCount + 1 /\ messages' = messages + 1 /\ orphans' = orphans
    BY <1>3 DEF Desk!MerchantReplies, Desk!Counted
  <2>6. ticket.messageCount \in Nat /\ orphans \in Nat /\ messages \in Nat /\ AddsUp
    BY DEF DeskInv, DeskTypeOK
  <2>7. AddsUp'
    BY <2>2, <2>3, <2>5, <2>6 DEF AddsUp
  <2> QED
    BY <2>4, <2>7 DEF DeskInv
<1>4. ASSUME NEW o \in Operators, Desk!OperatorInserts(o) PROVE DeskInv'
  <2> DEFINE to == [calls[o] EXCEPT !.at = "update"]
  <2>1. to \in DeskCalls /\ to.at = "update" /\ calls' = [calls EXCEPT ![o] = to] /\ calls[o].at = "insert"
    BY <1>4 DEF DeskInv, DeskTypeOK, Desk!OperatorInserts, Desk!Steps
  <2> HIDE DEF to
  <2>2. /\ Cardinality(Uncounted(calls)) \in Nat
        /\ Cardinality(Uncounted(calls')) = Cardinality(Uncounted(calls)) + 1
    BY <2>1, Counting DEF DeskInv
  <2>3. (DeskTypeOK /\ \A d \in Merchants \cup Operators : calls[d].at = "update" => d \in Operators)'
    BY <1>4, <2>1 DEF DeskInv, DeskTypeOK, Desk!OperatorInserts
  <2>4. UNCHANGED <<ticket, orphans>> /\ messages' = messages + 1
    BY <1>4 DEF Desk!OperatorInserts
  <2>5. ticket.messageCount \in Nat /\ orphans \in Nat /\ messages \in Nat /\ AddsUp
    BY DEF DeskInv, DeskTypeOK
  <2>6. AddsUp'
    BY <2>2, <2>4, <2>5 DEF AddsUp
  <2> QED
    BY <2>3, <2>6 DEF DeskInv
<1>5. ASSUME NEW o \in Operators, Desk!OperatorUpdates(o) PROVE DeskInv'
  <2>1. /\ Desk!Resting \in DeskCalls /\ Desk!Resting.at = "idle"
        /\ calls' = [calls EXCEPT ![o] = Desk!Resting] /\ calls[o].at = "update"
    BY <1>5 DEF Desk!Resting, Desk!OperatorUpdates, Desk!Steps
  <2>2. /\ Cardinality(Uncounted(calls)) \in Nat
        /\ Cardinality(Uncounted(calls')) + 1 = Cardinality(Uncounted(calls))
    BY <2>1, Counting DEF DeskInv
  <2>3. Cardinality(Uncounted(calls')) \in Nat
    BY DeskAssumption, FS_Subset, FS_CardinalityType DEF Uncounted
  <2>4. (DeskTypeOK /\ \A d \in Merchants \cup Operators : calls[d].at = "update" => d \in Operators)'
    BY <1>5, <2>1 DEF DeskInv, DeskTypeOK, Desk!OperatorUpdates, Desk!Counted
  <2>5. ticket'.messageCount = ticket.messageCount + 1 /\ UNCHANGED <<messages, orphans>>
    BY <1>5 DEF Desk!OperatorUpdates, Desk!Counted
  <2>6. ticket.messageCount \in Nat /\ orphans \in Nat /\ messages \in Nat /\ AddsUp
    BY DEF DeskInv, DeskTypeOK
  <2>7. AddsUp'
    BY <2>2, <2>3, <2>5, <2>6 DEF AddsUp
  <2> QED
    BY <2>4, <2>7 DEF DeskInv
<1>6. ASSUME NEW final \in {"RESOLVED", "CLOSED"}, Desk!Closes(final) PROVE DeskInv'
  <2>1. Uncounted(calls') = Uncounted(calls)
    BY <1>6 DEF Desk!Closes, Uncounted
  <2> QED
    BY <1>6, <2>1 DEF DeskInv, DeskTypeOK, AddsUp, Desk!Closes
<1>7. ASSUME UNCHANGED deskVars PROVE DeskInv'
  <2>1. Uncounted(calls') = Uncounted(calls)
    BY <1>7 DEF deskVars, Uncounted
  <2> QED
    BY <1>7, <2>1 DEF DeskInv, DeskTypeOK, AddsUp, deskVars
<1> QED
  BY <1>1, <1>2, <1>3, <1>4, <1>5, <1>6, <1>7 DEF Desk!DeskNext

\* A ticket counts the messages of its thread: replies of both sides overlap, and it
\* lacks only those whose operator has yet to count them or died before he could.
THEOREM MessagesCounted == Spec => []CountsMessages
<1> DEFINE Inv == part = "desk" => DeskInv
<1>1. Init => Inv
  BY DeskInit
<1>2. Inv /\ [Next]_platformVars => Inv'
  BY PartStays, DeskSteps, DeskKept
<1>3. Inv => CountsMessages
  BY DeskCardinality DEF CountsMessages, Desk!CountsMessages, DeskInv, AddsUp, Uncounted
<1> QED
  BY <1>1, <1>2, <1>3, PTL DEF Spec, platformVars

-----------------------------------------------------------------------------
(* The installation.                                                        *)

InstallPlaces == {"none", "burn", "exchange", "upsert", "trial", "commit", "audit", "full",
                  "ensure", "over"}

InstallTypeOK ==
  /\ trials \in Nat /\ provisioned \in [States -> Nat]
  /\ install \in [Callbacks -> [at : InstallPlaces, state : States \cup {Install!None}, trial : BOOLEAN]]
  /\ \A c \in Callbacks : install[c].at # "none" => install[c].state \in States

\* From the burn of its state to the commit a callback may still provision the store.
Paying == {"exchange", "upsert", "trial", "commit"}

\* The transaction that looks for a trial holds the row until it commits what it saw.
TransactionHolds == \A c \in Callbacks :
  /\ install[c].at \in {"trial", "commit"} => locked = c
  /\ install[c].at = "commit" => (install[c].trial <=> trials > 0)

\* A burned state is in the hands of one callback, and of none once it has paid.
StateInOneHand ==
  /\ \A s \in States : provisioned[s] <= 1 /\ (provisioned[s] = 1 => s \in burned)
  /\ \A c \in Callbacks : install[c].at \in Paying =>
       /\ install[c].state \in burned /\ provisioned[install[c].state] = 0
       /\ \A d \in Callbacks \ {c} :
            install[d].at \in Paying => install[d].state # install[c].state

InstallInv == InstallTypeOK /\ TransactionHolds /\ StateInOneHand /\ trials <= 1

LEMMA InstallSteps ==
  ASSUME part = "install", [Next]_platformVars
  PROVE  [Install!InstallNext]_installVars
BY DEF Next, Only, platformVars

LEMMA InstallInit == Init /\ part = "install" => InstallInv
<1> SUFFICES ASSUME Install!Init PROVE InstallInv
  BY DEF Init
<1> QED
  BY DEF Install!Init, Install!Waiting, Install!None, InstallInv, InstallTypeOK, TransactionHolds,
         StateInOneHand, InstallPlaces, Paying

\* A step of one callback that stays out of the transaction and pays for nothing new.
LEMMA InstallMoves ==
  ASSUME InstallInv, NEW c \in Callbacks, NEW to \in InstallPlaces,
         install' = [install EXCEPT ![c].at = to], UNCHANGED <<trials, locked, provisioned>>,
         burned \subseteq burned', to \notin {"trial", "commit"},
         install[c].at # "none" \/ to = "none", to \in Paying => install[c].at \in Paying
  PROVE  InstallInv'
<1>1. InstallTypeOK'
  BY DEF InstallInv, InstallTypeOK
<1>2. TransactionHolds'
  BY DEF InstallInv, InstallTypeOK, TransactionHolds
<1>3. StateInOneHand'
  <2>1. \A s \in States : (provisioned[s] <= 1 /\ (provisioned[s] = 1 => s \in burned))'
    BY DEF InstallInv, StateInOneHand
  <2>2. \A d \in Callbacks : /\ install'[d].state = install[d].state
                             /\ install'[d].at \in Paying => install[d].at \in Paying
    BY DEF InstallInv, InstallTypeOK
  <2> QED
    BY <2>1, <2>2 DEF InstallInv, StateInOneHand
<1> QED
  BY <1>1, <1>2, <1>3 DEF InstallInv

LEMMA InstallKept == ASSUME InstallInv, [Install!InstallNext]_installVars PROVE InstallInv'
<1>1. ASSUME NEW s \in States, Install!Mint(s) PROVE InstallInv'
  BY <1>1 DEF Install!Mint, InstallInv, InstallTypeOK, TransactionHolds, StateInOneHand
<1>2. ASSUME NEW s \in States, NEW c \in Callbacks, Install!Arrives(c, s) PROVE InstallInv'
  <2> DEFINE to == [Install!Waiting EXCEPT !.at = "burn", !.state = s]
  <2>1. /\ to \in [at : InstallPlaces, state : States \cup {Install!None}, trial : BOOLEAN]
        /\ to.at = "burn" /\ to.state = s
    BY DEF Install!Waiting, InstallPlaces
  <2>2. install' = [install EXCEPT ![c] = to] /\ UNCHANGED <<trials, locked, provisioned, burned>>
    BY <1>2 DEF Install!Arrives
  <2> HIDE DEF to
  <2>3. InstallTypeOK'
    BY <2>1, <2>2 DEF InstallInv, InstallTypeOK, InstallPlaces
  <2>4. TransactionHolds'
    BY <2>1, <2>2 DEF InstallInv, InstallTypeOK, TransactionHolds
  <2>5. StateInOneHand'
    BY <2>1, <2>2 DEF InstallInv, InstallTypeOK, StateInOneHand, Paying
  <2> QED
    BY <2>2, <2>3, <2>4, <2>5 DEF InstallInv
<1>3. ASSUME NEW c \in Callbacks, Install!BurnState(c) PROVE InstallInv'
  <2>1. CASE install[c].state \notin burned /\ install' = [install EXCEPT ![c].at = "exchange"]
    <3>1. install[c].at = "burn" /\ burned' = burned \cup {install[c].state}
          /\ UNCHANGED <<trials, locked, provisioned>>
      BY <1>3 DEF Install!BurnState, Install!Moves
    <3>2. InstallTypeOK' /\ TransactionHolds'
      BY <2>1, <3>1 DEF InstallInv, InstallTypeOK, InstallPlaces, TransactionHolds
    <3>3. install[c].state \in States /\ provisioned[install[c].state] = 0
      <4>1. install[c].state \in States
        BY <3>1 DEF InstallInv, InstallTypeOK
      <4>2. /\ provisioned[install[c].state] \in Nat /\ provisioned[install[c].state] <= 1
            /\ provisioned[install[c].state] # 1
        BY <2>1, <4>1 DEF InstallInv, InstallTypeOK, StateInOneHand
      <4> QED
        BY <4>1, <4>2
    <3>4. StateInOneHand'
      BY <2>1, <3>1, <3>3 DEF InstallInv, InstallTypeOK, StateInOneHand, Paying
    <3> QED
      BY <3>1, <3>2, <3>4 DEF InstallInv
  <2>2. CASE install' = [install EXCEPT ![c].at = "over"]
    <3>1. install[c].at = "burn" /\ burned \subseteq burned' /\ UNCHANGED <<trials, locked, provisioned>>
      BY <1>3 DEF Install!BurnState, Install!Moves
    <3> QED
      BY <2>2, <3>1, InstallMoves DEF InstallPlaces, Paying
  <2> QED
    BY <1>3, <2>1, <2>2 DEF Install!BurnState, Install!Moves
<1>4. ASSUME NEW c \in Callbacks, Install!Exchange(c) PROVE InstallInv'
  BY <1>4, InstallMoves DEF Install!Exchange, Install!Moves, InstallPlaces, Paying
<1>5. ASSUME NEW c \in Callbacks, Install!UpsertStore(c) PROVE InstallInv'
  <2>1. /\ install[c].at = "upsert" /\ install' = [install EXCEPT ![c].at = "trial"]
        /\ locked = Install!None /\ locked' = c /\ UNCHANGED <<trials, provisioned, burned>>
    BY <1>5 DEF Install!UpsertStore, Install!Moves
  <2>2. \A d \in Callbacks : install[d].at \notin {"trial", "commit"}
    BY <2>1, InstallAssumption DEF InstallInv, TransactionHolds, Install!None
  <2>3. InstallTypeOK' /\ TransactionHolds'
    BY <2>1, <2>2 DEF InstallInv, InstallTypeOK, InstallPlaces, TransactionHolds
  <2>4. StateInOneHand'
    BY <2>1 DEF InstallInv, InstallTypeOK, StateInOneHand, Paying
  <2> QED
    BY <2>1, <2>3, <2>4 DEF InstallInv
<1>6. ASSUME NEW c \in Callbacks, Install!LookForTrial(c) PROVE InstallInv'
  <2> DEFINE saw == trials > 0
  <2>1. /\ install[c].at = "trial" /\ UNCHANGED <<trials, provisioned, burned, locked>>
        /\ install' = [install EXCEPT ![c].at = "commit", ![c].trial = saw]
    BY <1>6 DEF Install!LookForTrial
  <2>2. saw \in BOOLEAN
    BY DEF InstallInv, InstallTypeOK
  <2> HIDE DEF saw
  <2>3. InstallTypeOK'
    BY <2>1, <2>2 DEF InstallInv, InstallTypeOK, InstallPlaces
  <2>4. /\ install'[c].at = "commit" /\ install'[c].trial = saw
        /\ \A d \in Callbacks \ {c} : install'[d] = install[d]
    BY <2>1, <2>2 DEF InstallInv, InstallTypeOK
  <2>5. \A d \in Callbacks : install'[d].state = install[d].state
    BY <2>1, <2>2 DEF InstallInv, InstallTypeOK
  <2>6. locked = c /\ locked' = c /\ trials' = trials
    BY <2>1 DEF InstallInv, TransactionHolds
  <2>7. TransactionHolds'
    BY <2>4, <2>6 DEF InstallInv, TransactionHolds, saw
  <2>8. \A d \in Callbacks : install'[d].at \in Paying => install[d].at \in Paying
    BY <2>1, <2>4 DEF Paying
  <2>9. UNCHANGED <<provisioned, burned>>
    BY <2>1
  <2>10. StateInOneHand'
    BY <2>5, <2>8, <2>9 DEF InstallInv, StateInOneHand
  <2> QED
    BY <2>1, <2>3, <2>7, <2>10 DEF InstallInv
<1>7. ASSUME NEW c \in Callbacks, Install!Commit(c) PROVE InstallInv'
  <2>1. /\ install[c].at = "commit" /\ install' = [install EXCEPT ![c].at = "audit"]
        /\ trials' = (IF install[c].trial THEN trials ELSE trials + 1)
        /\ provisioned' = [provisioned EXCEPT ![install[c].state] = @ + 1]
        /\ UNCHANGED burned
    BY <1>7 DEF Install!Commit, Install!Moves
  <2>2. trials \in Nat /\ (install[c].trial <=> trials > 0)
    BY <2>1 DEF InstallInv, InstallTypeOK, TransactionHolds
  <2>3. trials' \in Nat /\ trials' <= 1
    BY <2>1, <2>2 DEF InstallInv
  <2>4. InstallTypeOK'
    BY <2>1, <2>3 DEF InstallInv, InstallTypeOK, InstallPlaces
  <2>5. \A d \in Callbacks \ {c} : install[d].at \notin {"trial", "commit"}
    BY <2>1 DEF InstallInv, TransactionHolds
  <2>6. TransactionHolds'
    BY <2>1, <2>5 DEF InstallInv, InstallTypeOK, TransactionHolds
  <2>7. StateInOneHand'
    <3>1. /\ install[c].state \in States /\ install[c].state \in burned
          /\ provisioned[install[c].state] = 0
          /\ \A d \in Callbacks \ {c} :
               install[d].at \in Paying => install[d].state # install[c].state
      BY <2>1 DEF InstallInv, InstallTypeOK, StateInOneHand, Paying
    <3>2. \A d \in Callbacks : /\ install'[d].state = install[d].state
                               /\ d # c => install'[d].at = install[d].at
      BY <2>1 DEF InstallInv, InstallTypeOK
    <3>3. install'[c].at \notin Paying
      BY <2>1 DEF InstallInv, InstallTypeOK, Paying
    <3>4. \A s \in States : provisioned'[s] = IF s = install[c].state THEN 1 ELSE provisioned[s]
      BY <2>1, <3>1 DEF InstallInv, InstallTypeOK
    <3>5. \A s \in States : (provisioned[s] <= 1 /\ (provisioned[s] = 1 => s \in burned))'
      BY <2>1, <3>1, <3>4 DEF InstallInv, StateInOneHand
    <3>6. ASSUME NEW d \in Callbacks, install'[d].at \in Paying
          PROVE  /\ install'[d].state \in burned' /\ provisioned'[install'[d].state] = 0
                 /\ \A e \in Callbacks \ {d} :
                      install'[e].at \in Paying => install'[e].state # install'[d].state
      <4>1. d # c /\ install[d].at \in Paying /\ install[d].state \in States
        BY <3>2, <3>3, <3>6 DEF InstallInv, InstallTypeOK, Paying
      <4>2. install'[d].state \in burned' /\ provisioned'[install'[d].state] = 0
        BY <2>1, <3>1, <3>2, <3>4, <4>1 DEF InstallInv, StateInOneHand
      <4>3. \A e \in Callbacks \ {d} :
              install'[e].at \in Paying => install'[e].state # install'[d].state
        BY <3>2, <3>3, <4>1 DEF InstallInv, StateInOneHand
      <4> QED
        BY <4>2, <4>3
    <3> QED
      BY <3>5, <3>6 DEF StateInOneHand
  <2> QED
    BY <2>3, <2>4, <2>6, <2>7 DEF InstallInv
<1>8. ASSUME NEW c \in Callbacks, Install!Record(c) \/ Install!EnqueueSync(c) \/ Install!EnqueueWebhooks(c)
      PROVE  InstallInv'
  BY <1>8, InstallMoves
     DEF Install!Record, Install!EnqueueSync, Install!EnqueueWebhooks, Install!Moves, InstallPlaces,
         Paying
<1>9. ASSUME NEW c \in Callbacks, Install!Fails(c) PROVE InstallInv'
  <2>1. /\ install' = [install EXCEPT ![c].at = "over"] /\ UNCHANGED <<trials, provisioned, burned>>
        /\ locked' = (IF locked = c THEN Install!None ELSE locked) /\ install[c].at # "none"
    BY <1>9 DEF Install!Fails
  <2>2. InstallTypeOK'
    BY <2>1 DEF InstallInv, InstallTypeOK, InstallPlaces
  <2>3. TransactionHolds'
    BY <2>1 DEF InstallInv, InstallTypeOK, TransactionHolds
  <2>4. StateInOneHand'
    BY <2>1 DEF InstallInv, InstallTypeOK, StateInOneHand, Paying
  <2> QED
    BY <2>1, <2>2, <2>3, <2>4 DEF InstallInv
<1>10. ASSUME NEW c \in Callbacks, Install!Again(c) PROVE InstallInv'
  <2>1. /\ install' = [install EXCEPT ![c] = Install!Waiting]
        /\ UNCHANGED <<trials, provisioned, burned, locked>>
    BY <1>10 DEF Install!Again
  <2>2. Install!Waiting = [at |-> "none", state |-> Install!None, trial |-> FALSE]
    BY DEF Install!Waiting
  <2>3. InstallTypeOK'
    BY <2>1, <2>2 DEF InstallInv, InstallTypeOK, InstallPlaces
  <2>4. TransactionHolds'
    BY <2>1, <2>2 DEF InstallInv, InstallTypeOK, TransactionHolds
  <2>5. StateInOneHand'
    BY <2>1, <2>2 DEF InstallInv, InstallTypeOK, StateInOneHand, Paying
  <2> QED
    BY <2>1, <2>3, <2>4, <2>5 DEF InstallInv
<1>11. ASSUME Install!AppUninstalled PROVE InstallInv'
  BY <1>11 DEF Install!AppUninstalled, InstallInv, InstallTypeOK, TransactionHolds, StateInOneHand
<1>12. ASSUME UNCHANGED installVars PROVE InstallInv'
  BY <1>12 DEF installVars, InstallInv, InstallTypeOK, TransactionHolds, StateInOneHand
<1> QED
  BY <1>1, <1>2, <1>3, <1>4, <1>5, <1>6, <1>7, <1>8, <1>9, <1>10, <1>11, <1>12
     DEF Install!InstallNext

\* A shop's store starts one trial and a state pays for one provisioning, however its
\* callbacks overlap, are repeated or fail: whoever looks for a trial holds the row of
\* the store until he commits, and a burned state is in one callback's hands.
THEOREM ProvisionedOnceOnly == Spec => []ProvisionedOnce
<1> DEFINE Inv == part = "install" => InstallInv
<1>1. Init => Inv
  BY InstallInit
<1>2. Inv /\ [Next]_platformVars => Inv'
  BY PartStays, InstallSteps, InstallKept
<1>3. Inv => ProvisionedOnce
  BY DEF ProvisionedOnce, Install!ProvisionedOnce, InstallInv, StateInOneHand
<1> QED
  BY <1>1, <1>2, <1>3, PTL DEF Spec, platformVars

-----------------------------------------------------------------------------
(* The cache.                                                               *)

Entries == [value : Nat, missed : Nat]

CacheTypeOK ==
  /\ data \in Nat /\ version \in 0 .. MaxBumps
  /\ entry \in [0 .. MaxBumps -> Entries]
  /\ reader \in [Readers -> [at : {"idle", "get", "compute", "set", "put"}, version : 0 .. MaxBumps,
                             missed : Nat, value : Nat]]
  /\ writer \in [Writers -> {0, 1}]

\* A job has changed the data, and not bumped the version yet.
Busy == \E w \in Writers : writer[w] # 0

\* A value that a reader computed after it had missed under a version: the version is
\* no later than today's, and if it is today's, the data have not changed since, or
\* the one who changed them has yet to bump.
Computed(value, missed) == missed <= version /\ (missed = version => value = data \/ Busy)

Fresh ==
  /\ \A v \in 0 .. MaxBumps : entry[v] # Cache!NoEntry => Computed(entry[v].value, entry[v].missed)
  /\ \A r \in Readers :
       /\ reader[r].at = "get" => reader[r].version <= version
       /\ reader[r].at = "compute" => reader[r].missed <= version
       /\ reader[r].at \in {"set", "put"} => Computed(reader[r].value, reader[r].missed)

CacheInv == CacheTypeOK /\ Fresh

LEMMA CacheSteps ==
  ASSUME part = "cache", [Next]_platformVars
  PROVE  [Cache!CacheNext]_cacheVars
BY DEF Next, Only, platformVars

LEMMA CacheInit == Init /\ part = "cache" => CacheInv
<1> SUFFICES ASSUME Cache!Init PROVE CacheInv
  BY DEF Init
<1>1. Cache!NoEntry \in Entries
  BY CacheAssumption DEF Cache!NoEntry, Entries
<1> QED
  BY <1>1, CacheAssumption DEF Cache!Init, Cache!Versions, Cache!Asleep, CacheInv, CacheTypeOK, Fresh

\* A reader that goes on, while nothing changes.
LEMMA ReaderGoes ==
  ASSUME CacheInv, NEW r \in Readers, NEW to, reader' = [reader EXCEPT ![r] = to],
         UNCHANGED <<data, version, entry, writer>>,
         to \in [at : {"idle", "get", "compute", "set", "put"}, version : 0 .. MaxBumps,
                 missed : Nat, value : Nat],
         to.at = "get" => to.version <= version,
         to.at = "compute" => to.missed <= version,
         to.at \in {"set", "put"} => Computed(to.value, to.missed)
  PROVE  CacheInv'
<1>1. CacheTypeOK'
  BY DEF CacheInv, CacheTypeOK
<1>2. \A q \in Readers : reader'[q] = IF q = r THEN to ELSE reader[q]
  BY DEF CacheInv, CacheTypeOK
<1>3. Busy' <=> Busy
  BY DEF Busy
<1>4. Fresh'
  BY <1>2, <1>3 DEF CacheInv, Fresh, Computed
<1> QED
  BY <1>1, <1>4 DEF CacheInv

\* A change of the data, by a job that has yet to bump.
LEMMA DataChange ==
  ASSUME CacheInv, NEW w \in Writers, data' = data + 1, writer' = [writer EXCEPT ![w] = 1],
         UNCHANGED <<version, entry, reader>>
  PROVE  CacheInv'
<1>1. CacheTypeOK'
  BY DEF CacheInv, CacheTypeOK
<1>2. Busy'
  BY DEF CacheInv, CacheTypeOK, Busy
<1>3. Fresh'
  BY <1>2 DEF CacheInv, Fresh, Computed
<1> QED
  BY <1>1, <1>3 DEF CacheInv

LEMMA CacheKept == ASSUME CacheInv, [Cache!CacheNext]_cacheVars PROVE CacheInv'
<1> DEFINE Places == {"idle", "get", "compute", "set", "put"}
           Requests == [at : Places, version : 0 .. MaxBumps, missed : Nat, value : Nat]
<1>1. Cache!Asleep \in Requests /\ Cache!Asleep.at = "idle"
  BY CacheAssumption DEF Cache!Asleep
<1>2. ASSUME NEW r \in Readers, Cache!GetVersion(r) PROVE CacheInv'
  <2> DEFINE to == [Cache!Asleep EXCEPT !.at = "get", !.version = version]
  <2>1. to \in Requests /\ to.at = "get" /\ to.version = version /\ version \in 0 .. MaxBumps
    BY <1>1 DEF CacheInv, CacheTypeOK
  <2>2. reader' = [reader EXCEPT ![r] = to] /\ UNCHANGED <<data, version, entry, writer>>
    BY <1>2 DEF Cache!GetVersion, Cache!Goes
  <2> HIDE DEF to
  <2>3. version <= version
    BY <2>1, CacheAssumption
  <2> QED
    BY <2>1, <2>2, <2>3, ReaderGoes
<1>3. ASSUME NEW r \in Readers, Cache!GetEntry(r) PROVE CacheInv'
  <2>1. reader[r] \in Requests /\ reader[r].at = "get" /\ reader[r].version <= version
        /\ UNCHANGED <<data, version, entry, writer>>
    BY <1>3 DEF Cache!GetEntry, CacheInv, CacheTypeOK, Fresh
  <2>2. CASE reader' = [reader EXCEPT ![r] = Cache!Asleep]
    BY <1>1, <2>1, <2>2, ReaderGoes
  <2>3. CASE reader' = [reader EXCEPT ![r] = [reader[r] EXCEPT !.at = "compute", !.missed = reader[r].version]]
    <3> DEFINE to == [reader[r] EXCEPT !.at = "compute", !.missed = reader[r].version]
    <3>1. reader[r].version \in Nat
      BY <2>1
    <3>2. to \in Requests /\ to.at = "compute" /\ to.missed = reader[r].version
      BY <2>1, <3>1
    <3>3. reader' = [reader EXCEPT ![r] = to]
      BY <2>3
    <3> HIDE DEF to
    <3> QED
      BY <2>1, <3>2, <3>3, ReaderGoes
  <2> QED
    BY <1>3, <2>2, <2>3 DEF Cache!GetEntry, Cache!Goes
<1>4. ASSUME NEW r \in Readers, Cache!Compute(r) PROVE CacheInv'
  <2> DEFINE to == [reader[r] EXCEPT !.at = "set", !.value = data]
  <2>1. reader[r] \in Requests /\ reader[r].missed <= version /\ data \in Nat
    BY <1>4 DEF Cache!Compute, CacheInv, CacheTypeOK, Fresh
  <2>2. reader' = [reader EXCEPT ![r] = to] /\ UNCHANGED <<data, version, entry, writer>>
    BY <1>4 DEF Cache!Compute, Cache!Goes
  <2>3. to \in Requests /\ to.at = "set" /\ to.value = data /\ to.missed = reader[r].missed
    BY <2>1
  <2> HIDE DEF to
  <2>4. Computed(to.value, to.missed)
    BY <2>1, <2>3 DEF Computed
  <2> QED
    BY <2>2, <2>3, <2>4, ReaderGoes
<1>5. ASSUME NEW r \in Readers, Cache!SetVersion(r) PROVE CacheInv'
  <2> DEFINE to == [reader[r] EXCEPT !.at = "put", !.version = version]
  <2>1. reader[r] \in Requests /\ Computed(reader[r].value, reader[r].missed) /\ version \in 0 .. MaxBumps
    BY <1>5 DEF Cache!SetVersion, CacheInv, CacheTypeOK, Fresh
  <2>2. reader' = [reader EXCEPT ![r] = to] /\ UNCHANGED <<data, version, entry, writer>>
    BY <1>5 DEF Cache!SetVersion, Cache!Goes
  <2>3. /\ to \in Requests /\ to.at = "put"
        /\ to.value = reader[r].value /\ to.missed = reader[r].missed
    BY <2>1
  <2> HIDE DEF to
  <2> QED
    BY <2>1, <2>2, <2>3, ReaderGoes
<1>6. ASSUME NEW r \in Readers, Cache!Put(r) PROVE CacheInv'
  <2> DEFINE new == [value |-> reader[r].value, missed |-> reader[r].missed]
  <2>1. reader[r] \in Requests /\ Computed(reader[r].value, reader[r].missed)
    BY <1>6 DEF Cache!Put, CacheInv, CacheTypeOK, Fresh
  <2>2. /\ entry' = [entry EXCEPT ![reader[r].version] = new]
        /\ reader' = [reader EXCEPT ![r] = Cache!Asleep] /\ UNCHANGED <<data, version, writer>>
    BY <1>6 DEF Cache!Put, Cache!Goes
  <2>3. new \in Entries /\ Computed(new.value, new.missed)
    BY <2>1 DEF Entries
  <2> HIDE DEF new
  <2>4. CacheTypeOK'
    BY <1>1, <2>1, <2>2, <2>3 DEF CacheInv, CacheTypeOK
  <2>5. \A v \in 0 .. MaxBumps : entry'[v] = new \/ entry'[v] = entry[v]
    BY <2>2 DEF CacheInv, CacheTypeOK
  <2>6. \A q \in Readers : reader'[q] = reader[q] \/ reader'[q].at = "idle"
    BY <1>1, <2>2 DEF CacheInv, CacheTypeOK
  <2>7. Busy' <=> Busy
    BY <2>2 DEF Busy
  <2>8. Fresh'
    BY <2>2, <2>3, <2>5, <2>6, <2>7 DEF CacheInv, Fresh, Computed
  <2> QED
    BY <2>4, <2>8 DEF CacheInv
<1>7. ASSUME NEW r \in Readers, Cache!Abandons(r) PROVE CacheInv'
  BY <1>1, <1>7, ReaderGoes DEF Cache!Abandons, Cache!Goes
<1>8. ASSUME NEW v \in 0 .. MaxBumps, Cache!Expires(v) PROVE CacheInv'
  <2>1. entry' = [entry EXCEPT ![v] = Cache!NoEntry] /\ UNCHANGED <<data, version, reader, writer>>
    BY <1>8 DEF Cache!Expires
  <2>2. Cache!NoEntry \in Entries
    BY CacheAssumption DEF Cache!NoEntry, Entries
  <2>3. CacheTypeOK'
    BY <2>1, <2>2 DEF CacheInv, CacheTypeOK
  <2>4. \A u \in 0 .. MaxBumps : entry'[u] = Cache!NoEntry \/ entry'[u] = entry[u]
    BY <2>1 DEF CacheInv, CacheTypeOK
  <2>5. Busy' <=> Busy
    BY <2>1 DEF Busy
  <2>6. Fresh'
    BY <2>1, <2>4, <2>5 DEF CacheInv, Fresh, Computed
  <2> QED
    BY <2>3, <2>6 DEF CacheInv
<1>9. /\ Cache!Plan[0 + 1] = "change" /\ Cache!Plan[1 + 1] = "bump" /\ (0 + 1) % Len(Cache!Plan) = 1
      /\ (1 + 1) % Len(Cache!Plan) = 0
  BY DEF Cache!Plan
<1>10. ASSUME NEW w \in Writers, Cache!Change(w) PROVE CacheInv'
  <2>1. writer[w] = 0
    BY <1>9, <1>10 DEF Cache!Change, Cache!Does, CacheInv, CacheTypeOK
  <2>2. writer' = [writer EXCEPT ![w] = 1]
    BY <1>9, <1>10, <2>1 DEF Cache!Change, Cache!Does, CacheInv, CacheTypeOK
  <2> QED
    BY <1>10, <2>2, DataChange DEF Cache!Change
<1>11. ASSUME NEW w \in Writers, Cache!Again(w) PROVE CacheInv'
  BY <1>11, DataChange DEF Cache!Again
<1>12. ASSUME NEW w \in Writers, Cache!Bump(w) PROVE CacheInv'
  <2>1. version' = version + 1 /\ version' \in 0 .. MaxBumps /\ UNCHANGED <<data, entry, reader>>
    BY <1>12, CacheAssumption DEF Cache!Bump, CacheInv, CacheTypeOK
  <2>2. writer[w] = 1 /\ writer' = [writer EXCEPT ![w] = (@ + 1) % Len(Cache!Plan)]
    BY <1>9, <1>12 DEF Cache!Bump, Cache!Does, CacheInv, CacheTypeOK
  <2>3. writer' \in [Writers -> {0, 1}]
    BY <1>9, <2>2 DEF CacheInv, CacheTypeOK
  <2>4. CacheTypeOK'
    BY <2>1, <2>3 DEF CacheInv, CacheTypeOK
  <2>5. \A value, missed \in Nat : Computed(value, missed) => Computed(value, missed)'
    BY <2>1 DEF Computed, CacheInv, CacheTypeOK
  <2>6. \A v \in 0 .. MaxBumps : entry[v].value \in Nat /\ entry[v].missed \in Nat
    BY DEF CacheInv, CacheTypeOK, Entries
  <2>7. \A r \in Readers : /\ reader[r].value \in Nat /\ reader[r].missed \in Nat
                           /\ reader[r].version \in Nat
    BY DEF CacheInv, CacheTypeOK
  <2>8. version \in Nat
    BY DEF CacheInv, CacheTypeOK
  <2>9. Fresh'
    <3>1. \A v \in 0 .. MaxBumps : (entry[v] # Cache!NoEntry => Computed(entry[v].value, entry[v].missed))'
      BY <2>1, <2>5, <2>6 DEF CacheInv, Fresh
    <3>2. \A r \in Readers : (/\ reader[r].at = "get" => reader[r].version <= version
                              /\ reader[r].at = "compute" => reader[r].missed <= version)'
      BY <2>1, <2>7, <2>8 DEF CacheInv, Fresh
    <3>3. \A r \in Readers : (reader[r].at \in {"set", "put"} =>
                                Computed(reader[r].value, reader[r].missed))'
      BY <2>1, <2>5, <2>7 DEF CacheInv, Fresh
    <3> QED
      BY <3>1, <3>2, <3>3 DEF Fresh
  <2> QED
    BY <2>4, <2>9 DEF CacheInv
<1>13. ASSUME UNCHANGED cacheVars PROVE CacheInv'
  BY <1>13 DEF cacheVars, CacheInv, CacheTypeOK, Fresh, Computed, Busy
<1> QED
  BY <1>2, <1>3, <1>4, <1>5, <1>6, <1>7, <1>8, <1>10, <1>11, <1>12, <1>13
     DEF Cache!CacheNext, Cache!Versions

\* When no job is at work, a hit shows the data as they are, unless its reader
\* missed before a bump and stored after it: the key of a value is a version no earlier
\* than the one under which it was computed, and a bump leaves the older keys behind.
THEOREM HitsAreFresh == Spec => []FreshUnlessCrossed
<1> DEFINE Inv == part = "cache" => CacheInv
<1>1. Init => Inv
  BY CacheInit
<1>2. Inv /\ [Next]_platformVars => Inv'
  BY PartStays, CacheSteps, CacheKept
<1>3. Inv => FreshUnlessCrossed
  BY DEF FreshUnlessCrossed, Cache!FreshUnlessCrossed, CacheInv, CacheTypeOK, Fresh, Computed, Busy
<1> QED
  BY <1>1, <1>2, <1>3, PTL DEF Spec, platformVars

-----------------------------------------------------------------------------
(* The exports.                                                             *)

AttemptPlaces == {"none", "claim", "build", "save", "fail", "notify"}

ExportTypeOK ==
  /\ status \in [Exports -> {"none", "QUEUED", "RUNNING", "READY", "FAILED"}]
  /\ asker \in [Exports -> {"idle", "insert", "enqueue", "done"}]
  /\ begun \in [Exports -> 0 .. Attempts] /\ awaited \in [Exports -> 0 .. Attempts]
  /\ attempt \in [Exports -> [Export!Runs -> AttemptPlaces]]

\* Attempts are begun in their order, and the row is there before its job is.
Begun(e) ==
  /\ \A n \in Export!Runs : n > begun[e] => attempt[e][n] = "none"
  /\ status[e] = "none" => asker[e] \in {"idle", "insert"}

\* A row that waits for its claim has a job, or the attempt the queue waits for is
\* about to claim it, or any attempt once there is no other.
WaitsForClaim(e) ==
  \/ e \in queued
  \/ awaited[e] = begun[e] /\ begun[e] \in Export!Runs /\ attempt[e][begun[e]] = "claim"
  \/ begun[e] = Attempts /\ \E n \in Export!Runs : attempt[e][n] = "claim"

InHand(e) == \E n \in Export!Runs : attempt[e][n] \in {"build", "save", "fail"}

Cared(e) == e \notin cut =>
  /\ status[e] = "QUEUED" /\ asker[e] = "done" => WaitsForClaim(e)
  /\ status[e] = "RUNNING" => InHand(e)

ExportInv == ExportTypeOK /\ \A e \in Exports : Begun(e) /\ Cared(e)

LEMMA ExportSteps ==
  ASSUME part = "export", [Next]_platformVars
  PROVE  [Export!ExportNext]_exportVars
BY DEF Next, Only, platformVars

LEMMA ExportInit == Init /\ part = "export" => ExportInv
<1> SUFFICES ASSUME Export!Init PROVE ExportInv
  BY DEF Init
<1> QED
  BY ExportAssumption
  DEF Export!Init, ExportInv, ExportTypeOK, Begun, Cared, AttemptPlaces

\* What is said of one export does not depend on the others.
LEMMA ExportAlone ==
  ASSUME ExportInv, NEW e \in Exports, ExportTypeOK', Begun(e)', Cared(e)',
         \A f \in Exports \ {e} :
           /\ status'[f] = status[f] /\ asker'[f] = asker[f] /\ begun'[f] = begun[f]
           /\ awaited'[f] = awaited[f] /\ attempt'[f] = attempt[f]
           /\ (f \in queued' <=> f \in queued) /\ (f \in cut => f \in cut')
  PROVE  ExportInv'
<1>1. ASSUME NEW f \in Exports \ {e} PROVE Begun(f)' /\ Cared(f)'
  BY <1>1 DEF ExportInv, Begun, Cared, WaitsForClaim, InHand
<1> QED
  BY <1>1 DEF ExportInv

\* The end of an attempt, seen from its own export.
LEMMA AttemptOver ==
  ASSUME ExportInv, NEW e \in Exports, NEW n \in Export!Runs, NEW threw \in BOOLEAN,
         Export!Over(e, n, threw)
  PROVE  /\ attempt' = [attempt EXCEPT ![e][n] = "none"] /\ begun' = begun
         /\ attempt' \in [Exports -> [Export!Runs -> AttemptPlaces]]
         /\ awaited' \in [Exports -> 0 .. Attempts]
         /\ \A f \in Exports \ {e} : /\ awaited'[f] = awaited[f] /\ attempt'[f] = attempt[f]
                                     /\ (f \in queued' <=> f \in queued)
         /\ attempt'[e][n] = "none" /\ \A m \in Export!Runs \ {n} : attempt'[e][m] = attempt[e][m]
         /\ awaited'[e] = IF awaited[e] = n THEN 0 ELSE awaited[e]
         /\ e \in queued' <=> e \in queued \/ (threw /\ awaited[e] = n /\ begun[e] < Attempts)
<1>1. /\ attempt' = [attempt EXCEPT ![e][n] = "none"] /\ begun' = begun
      /\ awaited' = (IF awaited[e] = n THEN [awaited EXCEPT ![e] = 0] ELSE awaited)
      /\ queued' = (IF threw /\ awaited[e] = n /\ begun[e] < Attempts THEN queued \cup {e} ELSE queued)
  BY DEF Export!Over, Export!Goes
<1>2. 0 \in 0 .. Attempts
  BY ExportAssumption
<1> QED
  BY <1>1, <1>2 DEF ExportInv, ExportTypeOK, AttemptPlaces

LEMMA OverTyped ==
  ASSUME ExportInv, NEW e \in Exports, NEW n \in Export!Runs, NEW threw \in BOOLEAN,
         Export!Over(e, n, threw), UNCHANGED <<status, asker>>
  PROVE  ExportTypeOK'
<1>1. /\ begun' = begun /\ status' = status /\ asker' = asker
      /\ attempt' \in [Exports -> [Export!Runs -> AttemptPlaces]]
      /\ awaited' \in [Exports -> 0 .. Attempts]
  BY AttemptOver
<1> QED
  BY <1>1 DEF ExportInv, ExportTypeOK

LEMMA ExportKept == ASSUME ExportInv, [Export!ExportNext]_exportVars PROVE ExportInv'
<1> USE DEF Export!exportRow, Export!job
<1>1. ASSUME NEW e \in Exports, Export!Count(e) PROVE ExportInv'
  <2>1. asker[e] = "idle" /\ asker' = [asker EXCEPT ![e] = "insert"]
        /\ UNCHANGED <<status, queued, begun, awaited, attempt, cut>>
    BY <1>1 DEF Export!Count
  <2>2. ExportTypeOK' /\ Begun(e)' /\ Cared(e)'
    BY <2>1 DEF ExportInv, ExportTypeOK, Begun, Cared, InHand
  <2> QED
    BY <2>1, <2>2, ExportAlone DEF ExportInv, ExportTypeOK
<1>2. ASSUME NEW e \in Exports, Export!Insert(e) PROVE ExportInv'
  <2>1. /\ asker[e] = "insert" /\ asker' = [asker EXCEPT ![e] = "enqueue"]
        /\ status' = [status EXCEPT ![e] = "QUEUED"]
        /\ UNCHANGED <<queued, begun, awaited, attempt, cut>>
    BY <1>2 DEF Export!Insert
  <2>2. ExportTypeOK' /\ Begun(e)' /\ Cared(e)'
    BY <2>1 DEF ExportInv, ExportTypeOK, Begun, Cared
  <2> QED
    BY <2>1, <2>2, ExportAlone DEF ExportInv, ExportTypeOK
<1>3. ASSUME NEW e \in Exports, Export!Enqueue(e) PROVE ExportInv'
  <2>1. /\ asker[e] = "enqueue" /\ asker' = [asker EXCEPT ![e] = "done"]
        /\ queued' = queued \cup {e} /\ UNCHANGED <<status, begun, awaited, attempt, cut>>
    BY <1>3 DEF Export!Enqueue
  <2>2. ExportTypeOK' /\ Begun(e)' /\ Cared(e)'
    BY <2>1 DEF ExportInv, ExportTypeOK, Begun, Cared, WaitsForClaim, InHand
  <2> QED
    BY <2>1, <2>2, ExportAlone DEF ExportInv, ExportTypeOK
<1>4. ASSUME NEW e \in Exports, Export!EnqueueFails(e) PROVE ExportInv'
  <2>1. /\ asker[e] = "enqueue" /\ asker' = [asker EXCEPT ![e] = "done"]
        /\ cut' = cut \cup {e} /\ UNCHANGED <<status, queued, begun, awaited, attempt>>
    BY <1>4 DEF Export!EnqueueFails
  <2>2. ExportTypeOK' /\ Begun(e)' /\ Cared(e)'
    BY <2>1 DEF ExportInv, ExportTypeOK, Begun, Cared
  <2> QED
    BY <2>1, <2>2, ExportAlone DEF ExportInv, ExportTypeOK
<1>5. ASSUME NEW e \in Exports, Export!Begin(e) PROVE ExportInv'
  <2> DEFINE n == begun[e] + 1
  <2>1. /\ begun[e] < Attempts /\ queued' = queued \ {e} /\ begun' = [begun EXCEPT ![e] = n]
        /\ awaited' = [awaited EXCEPT ![e] = n] /\ attempt' = [attempt EXCEPT ![e][n] = "claim"]
        /\ UNCHANGED <<status, asker, cut>>
    BY <1>5 DEF Export!Begin, Export!Goes, ExportInv, ExportTypeOK
  <2>2. n \in Export!Runs /\ n \in 0 .. Attempts /\ n > begun[e]
    BY <2>1, ExportAssumption DEF ExportInv, ExportTypeOK, Export!Runs
  <2> HIDE DEF n
  <2>3. /\ attempt'[e][n] = "claim" /\ begun'[e] = n /\ awaited'[e] = n
        /\ \A m \in Export!Runs \ {n} : attempt'[e][m] = attempt[e][m]
    BY <2>1, <2>2 DEF ExportInv, ExportTypeOK
  <2>4. ExportTypeOK'
    BY <2>1, <2>2 DEF ExportInv, ExportTypeOK, AttemptPlaces
  <2>5. Begun(e)'
    <3>1. \A m \in Export!Runs : m > n => m > begun[e] /\ m # n
      BY <2>1, <2>2, ExportAssumption DEF Export!Runs, ExportInv, ExportTypeOK
    <3>2. \A m \in Export!Runs : m > begun'[e] => attempt'[e][m] = "none"
      BY <2>3, <3>1 DEF ExportInv, Begun
    <3>3. (status[e] = "none" => asker[e] \in {"idle", "insert"})'
      BY <2>1 DEF ExportInv, Begun
    <3> QED
      BY <3>2, <3>3, Zenon DEF Begun
  <2>6. Cared(e)'
    <3>1. attempt[e][n] = "none"
      BY <2>2 DEF ExportInv, Begun
    <3>2. InHand(e) => InHand(e)'
      BY <2>3, <3>1 DEF InHand
    <3> QED
      BY <2>1, <2>2, <2>3, <3>2 DEF ExportInv, Cared, WaitsForClaim
  <2> QED
    BY <2>1, <2>4, <2>5, <2>6, ExportAlone DEF ExportInv, ExportTypeOK
<1>6. ASSUME NEW e \in Exports, Export!TimesOut(e) PROVE ExportInv'
  <2>1. /\ awaited[e] # 0 /\ awaited' = [awaited EXCEPT ![e] = 0]
        /\ queued' = (IF begun[e] < Attempts THEN queued \cup {e} ELSE queued)
        /\ UNCHANGED <<status, begun, attempt, asker, cut>>
    BY <1>6 DEF Export!TimesOut
  <2>2. ExportTypeOK' /\ Begun(e)'
    BY <2>1, ExportAssumption DEF ExportInv, ExportTypeOK, Begun
  <2>3. begun[e] < Attempts \/ begun[e] = Attempts
    <3>1. begun[e] \in 0..Attempts
      BY DEF ExportInv, ExportTypeOK
    <3> QED BY ExportAssumption, <3>1
  <2>4. Cared(e)'
    BY <2>1, <2>3 DEF ExportInv, Cared, WaitsForClaim, InHand
  <2> QED
    BY <2>1, <2>2, <2>4, ExportAlone DEF ExportInv, ExportTypeOK
<1>7. ASSUME NEW e \in Exports, Export!Sweep(e) PROVE ExportInv'
  BY <1>7 DEF Export!Sweep, ExportInv, ExportTypeOK, Begun, Cared, WaitsForClaim, InHand
<1>8. ASSUME NEW e \in Exports, NEW n \in Export!Runs, Export!Claim(e, n) PROVE ExportInv'
  <2>1. CASE status[e] = "QUEUED"
    <3>1. /\ attempt[e][n] = "claim" /\ status' = [status EXCEPT ![e] = "RUNNING"]
          /\ attempt' = [attempt EXCEPT ![e][n] = "build"]
          /\ UNCHANGED <<queued, begun, awaited, asker, cut>>
      BY <1>8, <2>1 DEF Export!Claim, Export!At, Export!Goes
    <3>2. attempt'[e][n] = "build" /\ \A m \in Export!Runs \ {n} : attempt'[e][m] = attempt[e][m]
      BY <3>1 DEF ExportInv, ExportTypeOK
    <3>3. ExportTypeOK'
      BY <3>1 DEF ExportInv, ExportTypeOK, AttemptPlaces
    <3>4. Begun(e)' /\ Cared(e)'
      BY <2>1, <3>1, <3>2, <3>3 DEF ExportInv, ExportTypeOK, Begun, Cared, InHand
    <3> QED
      BY <3>1, <3>3, <3>4, ExportAlone DEF ExportInv, ExportTypeOK
  <2>2. CASE status[e] # "QUEUED"
    <3>1. attempt[e][n] = "claim" /\ Export!Over(e, n, FALSE) /\ UNCHANGED <<status, asker, cut>>
      BY <1>8, <2>2 DEF Export!Claim, Export!At
    <3>2. ExportTypeOK'
      BY <3>1, OverTyped
    <3>3. begun' = begun /\ attempt'[e][n] = "none"
          /\ \A m \in Export!Runs \ {n} : attempt'[e][m] = attempt[e][m]
      BY <3>1, AttemptOver
    <3>4. Begun(e)' /\ Cared(e)'
      BY <2>2, <3>1, <3>3 DEF ExportInv, Begun, Cared, InHand
    <3>5. \A f \in Exports \ {e} : /\ awaited'[f] = awaited[f] /\ attempt'[f] = attempt[f]
                                   /\ (f \in queued' <=> f \in queued)
      BY <3>1, AttemptOver
    <3> QED
      BY <3>1, <3>2, <3>3, <3>4, <3>5, ExportAlone
  <2> QED
    BY <2>1, <2>2
<1>9. ASSUME NEW e \in Exports, NEW n \in Export!Runs, NEW ok \in BOOLEAN, Export!Build(e, n, ok)
      PROVE  ExportInv'
  <2>1. /\ attempt[e][n] = "build" /\ attempt' = [attempt EXCEPT ![e][n] = IF ok THEN "save" ELSE "fail"]
        /\ UNCHANGED <<status, queued, begun, awaited, asker, cut>>
    BY <1>9 DEF Export!Build, Export!At, Export!Goes
  <2>2. /\ attempt'[e][n] \in {"save", "fail"}
        /\ \A m \in Export!Runs \ {n} : attempt'[e][m] = attempt[e][m]
    BY <2>1 DEF ExportInv, ExportTypeOK
  <2>3. ExportTypeOK'
    BY <2>1 DEF ExportInv, ExportTypeOK, AttemptPlaces
  <2>4. Begun(e)'
    BY <2>1, <2>2 DEF ExportInv, ExportTypeOK, Begun
  <2>5. Cared(e)'
    BY <2>1, <2>2 DEF ExportInv, ExportTypeOK, Cared, WaitsForClaim, InHand
  <2> QED
    BY <2>1, <2>3, <2>4, <2>5, ExportAlone DEF ExportInv, ExportTypeOK
<1>10. ASSUME NEW e \in Exports, NEW n \in Export!Runs,
              Export!Save(e, n) \/ Export!SaveFails(e, n) \/ Export!Fail(e, n)
       PROVE  ExportInv'
  <2>1. /\ attempt[e][n] \in {"save", "fail"}
        /\ \/ /\ \/ status' = [status EXCEPT ![e] = "READY"]
                 \/ status' = [status EXCEPT ![e] = "FAILED"]
              /\ \E to \in {"notify", "fail"} : attempt' = [attempt EXCEPT ![e][n] = to]
           \/ status' = status /\ attempt' = [attempt EXCEPT ![e][n] = "fail"]
        /\ UNCHANGED <<queued, begun, awaited, asker, cut>>
    BY <1>10 DEF Export!Save, Export!SaveFails, Export!Fail, Export!At, Export!Goes
  <2>2. PICK to \in {"notify", "fail"} : attempt' = [attempt EXCEPT ![e][n] = to]
    BY <2>1
  <2>3. attempt'[e][n] = to /\ \A m \in Export!Runs \ {n} : attempt'[e][m] = attempt[e][m]
    BY <2>2 DEF ExportInv, ExportTypeOK
  <2>4. ExportTypeOK'
    BY <2>1, <2>2 DEF ExportInv, ExportTypeOK, AttemptPlaces
  <2>5. /\ status'[e] \in {"READY", "FAILED"} \/ (status'[e] = status[e] /\ attempt'[e][n] = "fail")
        /\ \A f \in Exports \ {e} : status'[f] = status[f]
    BY <2>1 DEF ExportInv, ExportTypeOK
  <2>6. Begun(e)'
    BY <2>1, <2>3, <2>5 DEF ExportInv, ExportTypeOK, Begun
  <2>7. Cared(e)'
    BY <2>1, <2>3, <2>5 DEF ExportInv, ExportTypeOK, Cared, WaitsForClaim, InHand
  <2> QED
    BY <2>1, <2>2, <2>4, <2>5, <2>6, <2>7, ExportAlone DEF ExportInv, ExportTypeOK
<1>11. ASSUME NEW e \in Exports, NEW n \in Export!Runs, NEW ok \in BOOLEAN, Export!Notify(e, n, ok)
       PROVE  ExportInv'
  <2>1. attempt[e][n] = "notify" /\ Export!Over(e, n, ~ok) /\ UNCHANGED <<status, asker, cut>>
    BY <1>11 DEF Export!Notify, Export!At
  <2>2. (~ok) \in BOOLEAN
    OBVIOUS
  <2>3. ExportTypeOK'
    BY <2>1, <2>2, OverTyped
  <2>4. /\ begun' = begun /\ attempt'[e][n] = "none"
        /\ \A m \in Export!Runs \ {n} : attempt'[e][m] = attempt[e][m]
        /\ awaited'[e] = IF awaited[e] = n THEN 0 ELSE awaited[e]
        /\ e \in queued => e \in queued'
    BY <2>1, <2>2, AttemptOver
  <2>5. Begun(e)'
    BY <2>1, <2>4 DEF ExportInv, Begun
  <2>6. InHand(e) => InHand(e)'
    BY <2>1, <2>4 DEF InHand
  <2>7. WaitsForClaim(e) => WaitsForClaim(e)'
    BY <2>1, <2>4 DEF WaitsForClaim
  <2>8. Cared(e)'
    BY <2>1, <2>6, <2>7 DEF ExportInv, Cared
  <2>9. \A f \in Exports \ {e} : /\ awaited'[f] = awaited[f] /\ attempt'[f] = attempt[f]
                                 /\ (f \in queued' <=> f \in queued)
    BY <2>1, <2>2, AttemptOver
  <2> QED
    BY <2>1, <2>3, <2>4, <2>5, <2>8, <2>9, ExportAlone
<1>12. ASSUME NEW e \in Exports, NEW n \in Export!Runs, Export!Dies(e, n) PROVE ExportInv'
  <2>1. /\ attempt[e][n] # "none" /\ Export!Over(e, n, TRUE) /\ UNCHANGED <<status, asker>>
        /\ cut' = IF \/ attempt[e][n] \in {"build", "save", "fail"}
                     \/ (attempt[e][n] = "claim" /\ begun[e] = Attempts)
                  THEN cut \cup {e} ELSE cut
    BY <1>12 DEF Export!Dies
  <2>2. ExportTypeOK'
    BY <2>1, OverTyped
  <2>3. /\ begun' = begun /\ attempt'[e][n] = "none"
        /\ \A m \in Export!Runs \ {n} : attempt'[e][m] = attempt[e][m]
        /\ awaited'[e] = IF awaited[e] = n THEN 0 ELSE awaited[e]
        /\ e \in queued' <=> e \in queued \/ (awaited[e] = n /\ begun[e] < Attempts)
    <3>1. /\ attempt' = [attempt EXCEPT ![e][n] = "none"] /\ begun' = begun
          /\ awaited' = (IF awaited[e] = n THEN [awaited EXCEPT ![e] = 0] ELSE awaited)
          /\ queued' = (IF awaited[e] = n /\ begun[e] < Attempts THEN queued \cup {e} ELSE queued)
      BY <2>1 DEF Export!Over, Export!Goes
    <3>2. attempt'[e][n] = "none" /\ \A m \in Export!Runs \ {n} : attempt'[e][m] = attempt[e][m]
      BY <3>1 DEF ExportInv, ExportTypeOK
    <3>3. awaited'[e] = IF awaited[e] = n THEN 0 ELSE awaited[e]
      BY <3>1 DEF ExportInv, ExportTypeOK
    <3> QED
      BY <3>1, <3>2, <3>3
  <2>4. Begun(e)'
    BY <2>1, <2>3 DEF ExportInv, Begun
  <2>5. ASSUME e \notin cut' PROVE InHand(e) => InHand(e)'
    BY <2>1, <2>3, <2>5 DEF InHand
  <2>6. ASSUME e \notin cut' PROVE WaitsForClaim(e) => WaitsForClaim(e)'
    <3>1. attempt[e][n] = "claim" => begun[e] # Attempts
      BY <2>1, <2>6
    <3>2. begun[e] \in 0..Attempts
      BY DEF ExportInv, ExportTypeOK
    <3>3. begun[e] # Attempts => begun[e] < Attempts
      BY ExportAssumption, <3>2
    <3> QED
      BY <2>1, <2>3, <3>1, <3>3 DEF WaitsForClaim
  <2>7. Cared(e)'
    BY <2>1, <2>5, <2>6 DEF ExportInv, Cared
  <2>8. \A f \in Exports \ {e} : /\ awaited'[f] = awaited[f] /\ attempt'[f] = attempt[f]
                                 /\ (f \in queued' <=> f \in queued)
    BY <2>1, AttemptOver
  <2> QED
    BY <2>1, <2>2, <2>3, <2>4, <2>7, <2>8, ExportAlone
<1>13. ASSUME UNCHANGED exportVars PROVE ExportInv'
  BY <1>13 DEF exportVars, ExportInv, ExportTypeOK, Begun, Cared, WaitsForClaim, InHand
<1> QED
  BY <1>1, <1>2, <1>3, <1>4, <1>5, <1>6, <1>7, <1>8, <1>9, <1>10, <1>11, <1>12, <1>13
     DEF Export!ExportNext

\* An export nobody works on any more is READY or FAILED, whichever attempts timed
\* out, overlapped or failed to build, unless its enqueue, its claim or its last write
\* never came about: a row that waits for its claim has a job or an attempt on its way.
THEOREM NoneLeftBehind == Spec => []NoneStranded
<1> DEFINE Inv == part = "export" => ExportInv
<1>1. Init => Inv
  BY ExportInit
<1>2. Inv /\ [Next]_platformVars => Inv'
  BY PartStays, ExportSteps, ExportKept
<1>3. Inv => NoneStranded
  BY DEF NoneStranded, Export!NoneStranded, Export!AtRest, Export!At, ExportInv, ExportTypeOK, Begun,
         Cared, WaitsForClaim, InHand
<1> QED
  BY <1>1, <1>2, <1>3, PTL DEF Spec, platformVars

-----------------------------------------------------------------------------
(* The period reports.                                                      *)

\* Of a kind that was delivered by one call at a time: who is about to send it finds it
\* unsent, who has sent it has sent it once, and what the schedule built somebody sends.
DeliveredByOne(k) ==
  /\ \A c, d \in Report!Parties :
       c # d /\ kind[c] = k /\ kind[d] = k /\ at[c] \in {"send", "record"} => at[d] \notin {"send", "record"}
  /\ \A c \in Report!Parties : kind[c] = k =>
       /\ at[c] = "send" => mails[k] = 0 /\ k \notin mailed
       /\ at[c] = "record" => mails[k] = 1
  /\ mails[k] \in {0, 1}
  /\ mails[k] = 1 => k \in mailed \/ \E c \in Report!Parties : kind[c] = k /\ at[c] = "record"
  /\ k \in mailed => mails[k] = 1
  /\ k \in built /\ mails[k] = 0 =>
       /\ report[k] = "READY"
       /\ \E c \in Report!Parties : kind[c] = k /\ at[c] \in {"check", "send"}

ReportInv ==
  /\ DOMAIN at = Report!Parties /\ DOMAIN kind = Report!Parties
  /\ DOMAIN mails = Kinds /\ DOMAIN report = Kinds
  /\ \A k \in Kinds \ tangled : DeliveredByOne(k)

\* The mails of a report and the calls about to send it: each has an entry in `again`,
\* but one while the report is marked or in somebody's hands.
AboutToSend(k, place, about) == {c \in Report!Parties : about[c] = k /\ place[c] = "send"}
InHands(k) == \E c \in Report!Parties : kind[c] = k /\ at[c] \in {"send", "record"}
Paid(k) == mails[k] + Cardinality(AboutToSend(k, at, kind)) <=
             again[k] + IF k \in mailed \/ InHands(k) THEN 1 ELSE 0

PaidInv == mails \in [Kinds -> Nat] /\ again \in [Kinds -> Nat] /\ \A k \in Kinds : Paid(k)

LEMMA ReportSteps ==
  ASSUME part = "report", [Next]_platformVars
  PROVE  [Report!ReportNext]_reportVars
BY DEF Next, Only, platformVars

LEMMA ReportInit == Init /\ part = "report" => ReportInv /\ PaidInv
<1> SUFFICES ASSUME Report!Init PROVE ReportInv /\ PaidInv
  BY DEF Init
<1>1. ReportInv
  BY DEF Report!Init, ReportInv, DeliveredByOne
<1>2. ASSUME NEW k \in Kinds PROVE Paid(k)
  <2>1. AboutToSend(k, at, kind) = {}
    BY DEF Report!Init, AboutToSend
  <2>2. Cardinality(AboutToSend(k, at, kind)) = 0
    BY <2>1, FS_EmptySet
  <2> QED
    BY <2>2 DEF Report!Init, Paid
<1>3. PaidInv
  BY <1>2 DEF Report!Init, PaidInv
<1> QED
  BY <1>1, <1>3

\* One call goes on, to another place and perhaps another kind.
CallGoes(c) ==
  /\ DOMAIN at' = Report!Parties /\ DOMAIN kind' = Report!Parties
  /\ \A d \in Report!Parties \ {c} : at'[d] = at[d] /\ kind'[d] = kind[d]

LEMMA Going ==
  ASSUME ReportInv, NEW c \in Report!Parties
  PROVE  /\ \A to : Report!Goes(c, to) => CallGoes(c) /\ at'[c] = to /\ kind' = kind
         /\ \A threw : Report!Ends(c, threw) => CallGoes(c) /\ at'[c] \in {"idle", "done"}
         /\ \A rest, bad : Report!Turns(c, rest, bad) => CallGoes(c) /\ at'[c] \in {"idle", "done", "claim"}
<1>1. ASSUME NEW to, Report!Goes(c, to) PROVE CallGoes(c) /\ at'[c] = to /\ kind' = kind
  BY <1>1 DEF ReportInv, CallGoes, Report!Goes
<1>2. ASSUME NEW threw, Report!Ends(c, threw) PROVE CallGoes(c) /\ at'[c] \in {"idle", "done"}
  BY <1>2 DEF ReportInv, CallGoes, Report!Ends
<1>3. ASSUME NEW rest, NEW bad, Report!Turns(c, rest, bad)
      PROVE  CallGoes(c) /\ at'[c] \in {"idle", "done", "claim"}
  <2>1. CASE c \in Clicks \/ rest = {}
    BY <1>2, <1>3, <2>1 DEF Report!Turns
  <2>2. CASE ~(c \in Clicks \/ rest = {})
    <3>1. PICK k : at' = [at EXCEPT ![c] = "claim"] /\ kind' = [kind EXCEPT ![c] = k]
      BY <1>3, <2>2 DEF Report!Turns
    <3> QED
      BY <3>1 DEF ReportInv, CallGoes
  <2> QED
    BY <2>1, <2>2
<1> QED
  BY <1>1, <1>2, <1>3

\* A call goes on outside the delivery, or leaves one that its report is exempt for.
LEMMA OutsideKeeps ==
  ASSUME ReportInv, NEW c \in Report!Parties, CallGoes(c),
         at'[c] \notin {"send", "record"}, at[c] \in {"check", "send", "record"} => kind[c] \in tangled',
         UNCHANGED <<report, mailed, mails>>, built' = built, tangled \subseteq tangled'
  PROVE  ReportInv'
<1> SUFFICES ASSUME NEW k \in Kinds \ tangled' PROVE DeliveredByOne(k)'
  BY DEF ReportInv, CallGoes
<1>1. DeliveredByOne(k)
  BY DEF ReportInv
<1>2. \A d \in Report!Parties : d = c \/ (at'[d] = at[d] /\ kind'[d] = kind[d])
  BY DEF CallGoes
<1>3. kind[c] = k => at[c] \notin {"check", "send", "record"}
  OBVIOUS
<1> QED
  BY <1>1, <1>2, <1>3 DEF DeliveredByOne, Report!Parties

\* The queue and the calls before and after a delivery.
LEMMA AroundReports ==
  ASSUME ReportInv,
         \/ Report!Tick \/ Report!TimesOut
         \/ \E c \in Handlers : Report!Deliver(c) \/ Report!Due(c)
         \/ \E c \in Clicks, k \in Kinds, what \in {"claim", "check"} : Report!Asks(c, k, what)
         \/ \E c \in Report!Parties : (\E ok \in BOOLEAN : Report!Build(c, ok)) \/ Report!SendFails(c) \/ Report!Dies(c)
  PROVE  ReportInv'
<1> USE DEF Report!Parties
<1>1. ASSUME Report!Tick \/ Report!TimesOut PROVE ReportInv'
  <2>1. UNCHANGED <<report, mailed, at, kind, mails, built, tangled>>
    BY <1>1 DEF Report!Tick, Report!TimesOut
  <2> QED
    BY <2>1 DEF ReportInv, DeliveredByOne
<1>2. ASSUME NEW c \in Handlers, Report!Deliver(c) PROVE ReportInv'
  <2>1. CallGoes(c) /\ at[c] = "idle" /\ at'[c] = "due" /\ UNCHANGED <<report, mailed, mails, built, tangled>>
    BY <1>2 DEF ReportInv, CallGoes, Report!Deliver
  <2> QED
    BY <2>1, OutsideKeeps
<1>3. ASSUME NEW c \in Handlers, Report!Due(c) PROVE ReportInv'
  <2>1. /\ Report!Turns(c, {k \in Kinds : report[k] \in {"none", "FAILED"}}, FALSE)
        /\ at[c] = "due" /\ UNCHANGED <<report, mailed, mails, built, tangled>>
    BY <1>3 DEF Report!Due
  <2>2. CallGoes(c) /\ at'[c] \in {"idle", "done", "claim"}
    BY <2>1, Going
  <2> QED
    BY <2>1, <2>2, OutsideKeeps
<1>4. ASSUME NEW c \in Clicks, NEW k \in Kinds, NEW what \in {"claim", "check"}, Report!Asks(c, k, what)
      PROVE  ReportInv'
  <2>1. /\ CallGoes(c) /\ at[c] = "idle" /\ at'[c] = what
        /\ UNCHANGED <<report, mailed, mails, built, tangled>>
    BY <1>4 DEF ReportInv, CallGoes, Report!Asks
  <2> QED
    BY <2>1, OutsideKeeps
<1>5. ASSUME NEW c \in Report!Parties, NEW ok \in BOOLEAN, Report!Build(c, ok) PROVE ReportInv'
  <2>1. /\ at[c] = "build" /\ UNCHANGED <<report, mailed, mails, built, tangled>>
        /\ Report!Goes(c, IF ok THEN "save" ELSE "fail")
    BY <1>5 DEF Report!Build
  <2>2. CallGoes(c) /\ at'[c] \in {"save", "fail"}
    BY <2>1, Going
  <2> QED
    BY <2>1, <2>2, OutsideKeeps
<1>6. ASSUME NEW c \in Report!Parties, Report!SendFails(c) \/ Report!Dies(c) PROVE ReportInv'
  <2>1. /\ at[c] \in {"check", "send", "record"} => kind[c] \in tangled'
        /\ UNCHANGED <<report, mailed, mails, built>> /\ tangled \subseteq tangled' /\ Report!Ends(c, TRUE)
    BY <1>6 DEF Report!SendFails, Report!Dies
  <2>2. CallGoes(c) /\ at'[c] \in {"idle", "done"}
    BY <2>1, Going
  <2> QED
    BY <2>1, <2>2, OutsideKeeps
<1> QED
  BY <1>1, <1>2, <1>3, <1>4, <1>5, <1>6

\* The row: claimed, READY or FAILED.
LEMMA RowsOfReports ==
  ASSUME ReportInv, NEW c \in Report!Parties, Report!Claim(c) \/ Report!Save(c) \/ Report!Fail(c)
  PROVE  ReportInv'
<1>1. ASSUME Report!Claim(c) PROVE ReportInv'
  <2>1. /\ at[c] = "claim" /\ Report!Goes(c, "build") /\ report' = [report EXCEPT ![kind[c]] = "BUILDING"]
        /\ tangled' = IF Report!Delivering(c, kind[c], {"check", "send", "record"}) THEN tangled \cup {kind[c]} ELSE tangled
        /\ UNCHANGED <<mailed, mails, built>>
    BY <1>1 DEF Report!Claim
  <2>2. CallGoes(c) /\ at'[c] = "build"
    BY <2>1, Going
  <2> SUFFICES ASSUME NEW k \in Kinds \ tangled' PROVE DeliveredByOne(k)'
    BY <2>1, <2>2 DEF ReportInv, CallGoes
  <2>3. DeliveredByOne(k)
    BY <2>1 DEF ReportInv
  <2>4. \A d \in Report!Parties : d = c \/ (at'[d] = at[d] /\ kind'[d] = kind[d])
    BY <2>2 DEF CallGoes
  <2>5. k = kind[c] => ~\E d \in Report!Parties : kind[d] = k /\ at[d] \in {"check", "send", "record"}
    BY <2>1 DEF Report!Delivering
  <2>6. k # kind[c] => report'[k] = report[k]
    BY <2>1
  <2>7. UNCHANGED <<mailed, mails, built>>
    BY <2>1
  <2>8. at[c] = "claim"
    BY <2>1
  <2> QED
    BY <2>2, <2>3, <2>4, <2>5, <2>6, <2>7, <2>8 DEF DeliveredByOne, Report!Parties
<1>2. ASSUME Report!Save(c) PROVE ReportInv'
  <2>1. /\ at[c] = "save" /\ report' = [report EXCEPT ![kind[c]] = "READY"]
        /\ built' = IF c \in Handlers THEN built \cup {kind[c]} ELSE built
        /\ IF c \in Handlers THEN Report!Goes(c, "check") ELSE Report!Ends(c, FALSE)
        /\ UNCHANGED <<mailed, mails, tangled>>
    BY <1>2 DEF Report!Save
  <2>2. CallGoes(c) /\ at'[c] \in {"check", "idle", "done"}
        /\ (c \in Handlers => at'[c] = "check" /\ kind'[c] = kind[c])
    BY <2>1, Going
  <2> SUFFICES ASSUME NEW k \in Kinds \ tangled' PROVE DeliveredByOne(k)'
    BY <2>1, <2>2 DEF ReportInv, CallGoes
  <2>3. DeliveredByOne(k)
    BY <2>1 DEF ReportInv
  <2>4. \A d \in Report!Parties : d = c \/ (at'[d] = at[d] /\ kind'[d] = kind[d])
    BY <2>2 DEF CallGoes
  <2>5. report'[k] = report[k] \/ report'[k] = "READY"
    BY <2>1
  <2>6. k \in built' => k \in built \/ (c \in Handlers /\ k = kind[c] /\ report'[k] = "READY")
    BY <2>1 DEF ReportInv
  <2>7. UNCHANGED <<mailed, mails>>
    BY <2>1
  <2>8. at[c] = "save"
    BY <2>1
  <2> QED
    BY <2>2, <2>3, <2>4, <2>5, <2>6, <2>7, <2>8 DEF DeliveredByOne, Report!Parties
<1>3. ASSUME Report!Fail(c) PROVE ReportInv'
  <2>1. /\ at[c] = "fail" /\ report' = [report EXCEPT ![kind[c]] = "FAILED"]
        /\ built' = built \ {kind[c]} /\ Report!Turns(c, todo[c], TRUE)
        /\ UNCHANGED <<mailed, mails, tangled>>
    BY <1>3 DEF Report!Fail
  <2>2. CallGoes(c) /\ at'[c] \in {"idle", "done", "claim"}
    BY <2>1, Going
  <2> SUFFICES ASSUME NEW k \in Kinds \ tangled' PROVE DeliveredByOne(k)'
    BY <2>1, <2>2 DEF ReportInv, CallGoes
  <2>3. DeliveredByOne(k)
    BY <2>1 DEF ReportInv
  <2>4. \A d \in Report!Parties : d = c \/ (at'[d] = at[d] /\ kind'[d] = kind[d])
    BY <2>2 DEF CallGoes
  <2>5. k \in built' => k \in built /\ report'[k] = report[k]
    BY <2>1
  <2>6. UNCHANGED <<mailed, mails>>
    BY <2>1
  <2>7. at[c] = "fail"
    BY <2>1
  <2> QED
    BY <2>2, <2>3, <2>4, <2>5, <2>6, <2>7 DEF DeliveredByOne, Report!Parties
<1> QED
  BY <1>1, <1>2, <1>3

\* The delivery.
LEMMA DeliveryOfReports ==
  ASSUME ReportInv, NEW c \in Report!Parties, Report!Check(c) \/ Report!Send(c) \/ Report!Record(c)
  PROVE  ReportInv'
<1>1. ASSUME Report!Check(c), report[kind[c]] = "READY", kind[c] \notin mailed PROVE ReportInv'
  <2>1. /\ at[c] = "check" /\ Report!Goes(c, "send") /\ UNCHANGED <<report, mailed, mails, built>>
        /\ tangled' = IF Report!Delivering(c, kind[c], {"send", "record"}) THEN tangled \cup {kind[c]} ELSE tangled
    BY <1>1 DEF Report!Check
  <2>2. CallGoes(c) /\ at'[c] = "send" /\ kind' = kind
    BY <2>1, Going
  <2> SUFFICES ASSUME NEW k \in Kinds \ tangled' PROVE DeliveredByOne(k)'
    BY <2>1, <2>2 DEF ReportInv, CallGoes
  <2>3. DeliveredByOne(k)
    BY <2>1 DEF ReportInv
  <2>4. \A d \in Report!Parties : d = c \/ at'[d] = at[d]
    BY <2>2 DEF CallGoes
  <2>5. k = kind[c] => ~\E d \in Report!Parties : kind[d] = k /\ at[d] \in {"send", "record"}
    BY <2>1 DEF Report!Delivering
  <2>6. at[c] = "check" /\ UNCHANGED <<report, mailed, mails, built>>
    BY <2>1
  <2>7. k = kind[c] => mails[k] = 0 /\ k \notin mailed
    BY <1>1, <2>3, <2>5 DEF DeliveredByOne
  <2> QED
    BY <2>2, <2>3, <2>4, <2>5, <2>6, <2>7 DEF DeliveredByOne, Report!Parties
<1>2. ASSUME Report!Check(c), ~(report[kind[c]] = "READY" /\ kind[c] \notin mailed) PROVE ReportInv'
  <2>1. at[c] = "check" /\ Report!Turns(c, todo[c], failed[c]) /\ UNCHANGED <<report, mailed, mails, built, tangled>>
    BY <1>2 DEF Report!Check
  <2>2. CallGoes(c) /\ at'[c] \in {"idle", "done", "claim"}
    BY <2>1, Going
  <2> SUFFICES ASSUME NEW k \in Kinds \ tangled' PROVE DeliveredByOne(k)'
    BY <2>1, <2>2 DEF ReportInv, CallGoes
  <2>3. DeliveredByOne(k)
    BY <2>1 DEF ReportInv
  <2>4. \A d \in Report!Parties : d = c \/ (at'[d] = at[d] /\ kind'[d] = kind[d])
    BY <2>2 DEF CallGoes
  <2>5. k = kind[c] => ~(k \in built /\ mails[k] = 0)
    BY <1>2, <2>3 DEF DeliveredByOne
  <2>6. at[c] = "check" /\ UNCHANGED <<report, mailed, mails, built>>
    BY <2>1
  <2> QED
    BY <2>2, <2>3, <2>4, <2>5, <2>6 DEF DeliveredByOne, Report!Parties
<1>3. ASSUME Report!Send(c) PROVE ReportInv'
  <2>1. /\ at[c] = "send" /\ Report!Goes(c, "record") /\ UNCHANGED <<report, mailed, built, tangled>>
        /\ mails' = [mails EXCEPT ![kind[c]] = @ + 1]
    BY <1>3 DEF Report!Send
  <2>2. CallGoes(c) /\ at'[c] = "record" /\ kind' = kind
    BY <2>1, Going
  <2> SUFFICES ASSUME NEW k \in Kinds \ tangled' PROVE DeliveredByOne(k)'
    BY <2>1, <2>2 DEF ReportInv, CallGoes
  <2>3. DeliveredByOne(k)
    BY <2>1 DEF ReportInv
  <2>4. \A d \in Report!Parties : d = c \/ at'[d] = at[d]
    BY <2>2 DEF CallGoes
  <2>5. IF k = kind[c] THEN mails[k] = 0 /\ mails'[k] = 1 ELSE mails'[k] = mails[k]
    BY <2>1, <2>3 DEF DeliveredByOne, ReportInv
  <2>6. at[c] = "send" /\ UNCHANGED <<report, mailed, built>>
    BY <2>1
  <2> QED
    BY <2>2, <2>3, <2>4, <2>5, <2>6 DEF DeliveredByOne, Report!Parties
<1>4. ASSUME Report!Record(c) PROVE ReportInv'
  <2>1. /\ at[c] = "record" /\ Report!Turns(c, todo[c], failed[c]) /\ UNCHANGED <<report, mails, built, tangled>>
        /\ mailed' = mailed \cup {kind[c]}
    BY <1>4 DEF Report!Record
  <2>2. CallGoes(c) /\ at'[c] \in {"idle", "done", "claim"}
    BY <2>1, Going
  <2> SUFFICES ASSUME NEW k \in Kinds \ tangled' PROVE DeliveredByOne(k)'
    BY <2>1, <2>2 DEF ReportInv, CallGoes
  <2>3. DeliveredByOne(k)
    BY <2>1 DEF ReportInv
  <2>4. \A d \in Report!Parties : d = c \/ (at'[d] = at[d] /\ kind'[d] = kind[d])
    BY <2>2 DEF CallGoes
  <2>5. k \in mailed' <=> (k \in mailed \/ k = kind[c])
    BY <2>1
  <2>6. at[c] = "record" /\ UNCHANGED <<report, mails, built>>
    BY <2>1
  <2> QED
    BY <2>2, <2>3, <2>4, <2>5, <2>6 DEF DeliveredByOne, Report!Parties
<1> QED
  BY <1>1, <1>2, <1>3, <1>4

\* What the step of one call does to the number of those about to send.
LEMMA SendingMoves ==
  ASSUME ReportInv, NEW c \in Report!Parties, CallGoes(c), NEW k \in Kinds
  PROVE  LET before == kind[c] = k /\ at[c] = "send"
             after  == kind'[c] = k /\ at'[c] = "send"
             n == Cardinality(AboutToSend(k, at, kind))
             m == Cardinality(AboutToSend(k, at', kind'))
         IN /\ n \in Nat /\ m \in Nat
            /\ (before <=> after) => m = n
            /\ ~before /\ after => m = n + 1
            /\ before /\ ~after => n = m + 1
<1> DEFINE S == AboutToSend(k, at, kind)
           T == AboutToSend(k, at', kind')
<1>1. IsFiniteSet(Report!Parties)
  BY ReportAssumption, FS_Union DEF Report!Parties
<1>2. IsFiniteSet(S) /\ IsFiniteSet(T)
  BY <1>1, FS_Subset DEF AboutToSend
<1>3. Cardinality(S) \in Nat /\ Cardinality(T) \in Nat
  BY <1>2, FS_CardinalityType
<1>4. S \ {c} = T \ {c}
  BY DEF AboutToSend, CallGoes
<1>5. /\ c \in S <=> kind[c] = k /\ at[c] = "send"
      /\ c \in T <=> kind'[c] = k /\ at'[c] = "send"
  BY DEF AboutToSend
<1> HIDE DEF S, T
<1>6. (c \in S <=> c \in T) => S = T
  BY <1>4
<1>7. c \notin S /\ c \in T => Cardinality(T) = Cardinality(S) + 1
  <2>1. c \notin S /\ c \in T => T = S \cup {c}
    BY <1>4
  <2>2. Cardinality(S \cup {c}) = IF c \in S THEN Cardinality(S) ELSE Cardinality(S) + 1
    BY <1>2, FS_AddElement
  <2> QED BY <2>1, <2>2
<1>8. c \in S /\ c \notin T => Cardinality(S) = Cardinality(T) + 1
  <2>1. c \in S /\ c \notin T => S = T \cup {c}
    BY <1>4
  <2>2. Cardinality(T \cup {c}) = IF c \in T THEN Cardinality(T) ELSE Cardinality(T) + 1
    BY <1>2, FS_AddElement
  <2> QED BY <2>1, <2>2
<1>9. LET before == kind[c] = k /\ at[c] = "send"
          after  == kind'[c] = k /\ at'[c] = "send"
      IN /\ (before <=> after) => Cardinality(T) = Cardinality(S)
         /\ ~before /\ after => Cardinality(T) = Cardinality(S) + 1
         /\ before /\ ~after => Cardinality(S) = Cardinality(T) + 1
  BY <1>5, <1>6, <1>7, <1>8
<1> QED
  BY <1>3, <1>9 DEF S, T

\* Counting one up for a kind.
LEMMA OneUp ==
  ASSUME NEW f \in [Kinds -> Nat], NEW x
  PROVE  /\ [f EXCEPT ![x] = @ + 1] \in [Kinds -> Nat]
         /\ \A k \in Kinds : [f EXCEPT ![x] = @ + 1][k] = IF k = x THEN f[k] + 1 ELSE f[k]
<1>1. CASE x \in Kinds
  BY <1>1
<1>2. CASE x \notin Kinds
  <2>1. [f EXCEPT ![x] = @ + 1] = f
    BY <1>2
  <2> QED BY <1>2, <2>1
<1> QED BY <1>1, <1>2

\* A call that delivers nothing goes on, or one is lost on its way.
LEMMA LossesPay ==
  ASSUME ReportInv, PaidInv, NEW c \in Report!Parties, CallGoes(c), at'[c] \notin {"send", "record"},
         UNCHANGED <<mailed, mails>>,
         again' = IF at[c] = "record" THEN [again EXCEPT ![kind[c]] = @ + 1] ELSE again
  PROVE  PaidInv'
<1>1. again' \in [Kinds -> Nat] /\ mails' \in [Kinds -> Nat]
  BY OneUp DEF PaidInv
<1>2. ASSUME NEW k \in Kinds PROVE Paid(k)'
  <2> DEFINE n == Cardinality(AboutToSend(k, at, kind))
             m == Cardinality(AboutToSend(k, at', kind'))
  <2>1. /\ n \in Nat /\ m \in Nat
        /\ (kind[c] = k /\ at[c] = "send") => n = m + 1
        /\ ~(kind[c] = k /\ at[c] = "send") => m = n
    BY SendingMoves
  <2> HIDE DEF n, m
  <2>2. mails[k] + n <= again[k] + IF k \in mailed \/ InHands(k) THEN 1 ELSE 0
    BY DEF PaidInv, Paid, n
  <2>3. mails[k] \in Nat /\ again[k] \in Nat
    BY DEF PaidInv
  <2>4. again'[k] = IF at[c] = "record" /\ kind[c] = k THEN again[k] + 1 ELSE again[k]
    BY OneUp DEF PaidInv
  <2>5. ~(kind[c] = k /\ at[c] \in {"send", "record"}) => (InHands(k) => InHands(k)')
    BY DEF InHands, CallGoes
  <2>6. mails[k] + m <= again'[k] + IF k \in mailed \/ InHands(k)' THEN 1 ELSE 0
    <3>1. CASE kind[c] = k /\ at[c] = "record"
      <4>1. again'[k] = again[k] + 1 /\ m = n
        BY <2>1, <2>4, <3>1
      <4> QED
        BY <2>1, <2>2, <2>3, <4>1
    <3>2. CASE kind[c] = k /\ at[c] = "send"
      <4>1. again'[k] = again[k] /\ n = m + 1
        BY <2>1, <2>4, <3>2
      <4> QED
        BY <2>1, <2>2, <2>3, <4>1
    <3>3. CASE ~(kind[c] = k /\ at[c] \in {"send", "record"})
      <4>1. again'[k] = again[k] /\ m = n /\ (InHands(k) => InHands(k)')
        BY <2>1, <2>4, <2>5, <3>3
      <4> QED
        BY <2>1, <2>2, <2>3, <4>1
    <3> QED
      BY <3>1, <3>2, <3>3
  <2> QED
    BY <2>6 DEF Paid, AboutToSend, m
<1> QED
  BY <1>1, <1>2 DEF PaidInv

LEMMA PaidKept == ASSUME ReportInv, PaidInv, [Report!ReportNext]_reportVars PROVE PaidInv'
<1>1. ASSUME UNCHANGED reportVars \/ Report!Tick \/ Report!TimesOut PROVE PaidInv'
  <2>1. UNCHANGED <<mailed, at, kind, mails, again>>
    BY <1>1 DEF reportVars, Report!Tick, Report!TimesOut
  <2> QED
    BY <2>1 DEF PaidInv, Paid, InHands
<1>2. ASSUME NEW c \in Handlers, Report!Deliver(c) \/ Report!Due(c) PROVE PaidInv'
  <2>1. c \in Report!Parties
    BY DEF Report!Parties
  <2>2. CallGoes(c) /\ at'[c] \notin {"send", "record"}
    <3>1. CASE Report!Deliver(c)
      BY <2>1, <3>1 DEF ReportInv, CallGoes, Report!Deliver
    <3>2. CASE Report!Due(c)
      BY <2>1, <3>2, Going DEF Report!Due
    <3> QED
      BY <1>2, <3>1, <3>2
  <2>3. at[c] # "record" /\ UNCHANGED <<mailed, mails, again>>
    BY <1>2 DEF Report!Deliver, Report!Due
  <2> QED
    BY <2>1, <2>2, <2>3, LossesPay
<1>3. ASSUME NEW c \in Clicks, NEW k \in Kinds, NEW what \in {"claim", "check"}, Report!Asks(c, k, what)
      PROVE  PaidInv'
  <2>1. c \in Report!Parties
    BY DEF Report!Parties
  <2>2. CallGoes(c) /\ at'[c] \notin {"send", "record"}
    BY <1>3, <2>1 DEF ReportInv, CallGoes, Report!Asks
  <2>3. at[c] # "record" /\ UNCHANGED <<mailed, mails, again>>
    BY <1>3 DEF Report!Asks
  <2> QED
    BY <2>1, <2>2, <2>3, LossesPay
<1>4. ASSUME NEW c \in Report!Parties,
             \/ \E ok \in BOOLEAN : Report!Build(c, ok)
             \/ Report!Claim(c) \/ Report!Save(c) \/ Report!Fail(c)
      PROVE  PaidInv'
  <2>1. CallGoes(c) /\ at'[c] \notin {"send", "record"}
    <3>1. CASE \E ok \in BOOLEAN : Report!Build(c, ok)
      BY <3>1, Going DEF Report!Build
    <3>2. CASE Report!Claim(c)
      BY <3>2, Going DEF Report!Claim
    <3>3. CASE Report!Save(c)
      <4>1. CASE c \in Handlers
        BY <3>3, <4>1, Going DEF Report!Save
      <4>2. CASE c \notin Handlers
        BY <3>3, <4>2, Going DEF Report!Save
      <4> QED
        BY <4>1, <4>2
    <3>4. CASE Report!Fail(c)
      BY <3>4, Going DEF Report!Fail
    <3> QED
      BY <1>4, <3>1, <3>2, <3>3, <3>4
  <2>2. at[c] # "record" /\ UNCHANGED <<mailed, mails, again>>
    BY <1>4 DEF Report!Build, Report!Claim, Report!Save, Report!Fail
  <2> QED
    BY <2>1, <2>2, LossesPay
<1>5. ASSUME NEW c \in Report!Parties, Report!SendFails(c) \/ Report!Dies(c) PROVE PaidInv'
  <2>1. /\ again' = IF at[c] = "record" THEN [again EXCEPT ![kind[c]] = @ + 1] ELSE again
        /\ Report!Ends(c, TRUE) /\ UNCHANGED <<mailed, mails>>
    BY <1>5 DEF Report!SendFails, Report!Dies
  <2>2. CallGoes(c) /\ at'[c] \notin {"send", "record"}
    BY <2>1, Going
  <2> QED
    BY <2>1, <2>2, LossesPay
<1>6. ASSUME NEW c \in Report!Parties, Report!Check(c) PROVE PaidInv'
  <2>1. CASE ~(report[kind[c]] = "READY" /\ kind[c] \notin mailed)
    <3>1. /\ at[c] = "check" /\ Report!Turns(c, todo[c], failed[c])
          /\ UNCHANGED <<mailed, mails, again>>
      BY <1>6, <2>1 DEF Report!Check
    <3>2. CallGoes(c) /\ at'[c] \notin {"send", "record"}
      BY <3>1, Going
    <3> QED
      BY <3>1, <3>2, LossesPay
  <2>2. CASE report[kind[c]] = "READY" /\ kind[c] \notin mailed
    <3>1. /\ at[c] = "check" /\ Report!Goes(c, "send") /\ UNCHANGED <<mailed, mails>>
          /\ again' = IF Report!Delivering(c, kind[c], {"send", "record"})
                        THEN [again EXCEPT ![kind[c]] = @ + 1] ELSE again
      BY <1>6, <2>2 DEF Report!Check
    <3>2. CallGoes(c) /\ at'[c] = "send" /\ kind' = kind
      BY <3>1, Going
    <3>3. again' \in [Kinds -> Nat] /\ mails' \in [Kinds -> Nat]
      BY <3>1, OneUp DEF PaidInv
    <3>4. ASSUME NEW k \in Kinds PROVE Paid(k)'
      <4> DEFINE n == Cardinality(AboutToSend(k, at, kind))
                 m == Cardinality(AboutToSend(k, at', kind'))
      <4>1. /\ n \in Nat /\ m \in Nat
            /\ kind[c] = k => m = n + 1
            /\ kind[c] # k => m = n
        BY <3>1, <3>2, SendingMoves
      <4> HIDE DEF n, m
      <4>2. mails[k] + n <= again[k] + IF k \in mailed \/ InHands(k) THEN 1 ELSE 0
        BY DEF PaidInv, Paid, n
      <4>3. mails[k] \in Nat /\ again[k] \in Nat
        BY DEF PaidInv
      <4>4. again'[k] = IF kind[c] = k /\ Report!Delivering(c, k, {"send", "record"})
                          THEN again[k] + 1 ELSE again[k]
        BY <3>1, OneUp DEF PaidInv
      <4>5. kind[c] = k => InHands(k)' /\ k \notin mailed
                           /\ (InHands(k) => Report!Delivering(c, k, {"send", "record"}))
        BY <2>2, <3>1, <3>2 DEF InHands, Report!Delivering
      <4>6. InHands(k) => InHands(k)'
        BY <3>1, <3>2 DEF InHands, CallGoes
      <4>7. mails[k] + m <= again'[k] + IF k \in mailed \/ InHands(k)' THEN 1 ELSE 0
        <5>1. CASE kind[c] # k
          <6>1. again'[k] = again[k] /\ m = n
            BY <4>1, <4>4, <5>1
          <6> QED
            BY <4>1, <4>2, <4>3, <4>6, <6>1
        <5>2. CASE kind[c] = k /\ InHands(k)
          <6>1. again'[k] = again[k] + 1 /\ m = n + 1 /\ InHands(k)' /\ k \notin mailed
            BY <4>1, <4>4, <4>5, <5>2
          <6> QED
            BY <4>1, <4>2, <4>3, <5>2, <6>1
        <5>3. CASE kind[c] = k /\ ~InHands(k)
          <6>1. again'[k] >= again[k] /\ again'[k] \in Nat /\ m = n + 1 /\ InHands(k)' /\ k \notin mailed
            BY <4>1, <4>3, <4>4, <4>5, <5>3
          <6> QED
            BY <4>1, <4>2, <4>3, <5>3, <6>1
        <5> QED
          BY <5>1, <5>2, <5>3
      <4> QED
        BY <3>1, <4>7 DEF Paid, AboutToSend, m
    <3> QED
      BY <3>3, <3>4 DEF PaidInv
  <2> QED
    BY <2>1, <2>2
<1>7. ASSUME NEW c \in Report!Parties, Report!Send(c) PROVE PaidInv'
  <2>1. /\ at[c] = "send" /\ Report!Goes(c, "record") /\ UNCHANGED <<mailed, again>>
        /\ mails' = [mails EXCEPT ![kind[c]] = @ + 1]
    BY <1>7 DEF Report!Send
  <2>2. CallGoes(c) /\ at'[c] = "record" /\ kind' = kind
    BY <2>1, Going
  <2>3. again' \in [Kinds -> Nat] /\ mails' \in [Kinds -> Nat]
    BY <2>1, OneUp DEF PaidInv
  <2>4. ASSUME NEW k \in Kinds PROVE Paid(k)'
    <3> DEFINE n == Cardinality(AboutToSend(k, at, kind))
               m == Cardinality(AboutToSend(k, at', kind'))
    <3>1. /\ n \in Nat /\ m \in Nat
          /\ kind[c] = k => n = m + 1
          /\ kind[c] # k => m = n
      BY <2>1, <2>2, SendingMoves
    <3> HIDE DEF n, m
    <3>2. mails[k] + n <= again[k] + IF k \in mailed \/ InHands(k) THEN 1 ELSE 0
      BY DEF PaidInv, Paid, n
    <3>3. mails[k] \in Nat /\ again[k] \in Nat
      BY DEF PaidInv
    <3>4. mails'[k] = IF kind[c] = k THEN mails[k] + 1 ELSE mails[k]
      BY <2>1, OneUp DEF PaidInv
    <3>5. InHands(k) => InHands(k)'
      BY <2>1, <2>2 DEF InHands, CallGoes
    <3>6. mails'[k] + m <= again[k] + IF k \in mailed \/ InHands(k)' THEN 1 ELSE 0
      <4>1. mails'[k] + m = mails[k] + n
        BY <3>1, <3>3, <3>4
      <4> QED
        BY <3>1, <3>2, <3>3, <3>5, <4>1
    <3> QED
      BY <2>1, <3>6 DEF Paid, AboutToSend, m
  <2> QED
    BY <2>3, <2>4 DEF PaidInv
<1>8. ASSUME NEW c \in Report!Parties, Report!Record(c) PROVE PaidInv'
  <2>1. /\ at[c] = "record" /\ Report!Turns(c, todo[c], failed[c]) /\ UNCHANGED <<mails, again>>
        /\ mailed' = mailed \cup {kind[c]}
    BY <1>8 DEF Report!Record
  <2>2. CallGoes(c) /\ at'[c] \notin {"send", "record"}
    BY <2>1, Going
  <2>3. ASSUME NEW k \in Kinds PROVE Paid(k)'
    <3> DEFINE n == Cardinality(AboutToSend(k, at, kind))
               m == Cardinality(AboutToSend(k, at', kind'))
    <3>1. n \in Nat /\ m = n
      BY <2>1, <2>2, SendingMoves
    <3> HIDE DEF n, m
    <3>2. mails[k] + n <= again[k] + IF k \in mailed \/ InHands(k) THEN 1 ELSE 0
      BY DEF PaidInv, Paid, n
    <3>3. mails[k] \in Nat /\ again[k] \in Nat
      BY DEF PaidInv
    <3>4. kind[c] # k => (InHands(k) => InHands(k)')
      BY <2>2 DEF InHands, CallGoes
    <3>5. mails[k] + m <= again[k] + IF k \in mailed' \/ InHands(k)' THEN 1 ELSE 0
      BY <2>1, <3>1, <3>2, <3>3, <3>4
    <3> QED
      BY <2>1, <3>5 DEF Paid, AboutToSend, m
  <2> QED
    BY <2>1, <2>3 DEF PaidInv
<1> QED
  BY <1>1, <1>2, <1>3, <1>4, <1>5, <1>6, <1>7, <1>8 DEF Report!ReportNext

LEMMA ReportKept == ASSUME ReportInv, [Report!ReportNext]_reportVars PROVE ReportInv'
<1>1. ASSUME UNCHANGED reportVars PROVE ReportInv'
  BY <1>1 DEF reportVars, ReportInv, DeliveredByOne, Report!Parties
<1> QED
  BY <1>1, AroundReports, RowsOfReports, DeliveryOfReports DEF Report!ReportNext

\* A report is mailed once a day, and once more at most for each delivery that passed its
\* mark while another was on its way to it, or died there; and that of a schedule has been
\* mailed exactly once when all is quiet, whatever fails or is built again, unless two
\* deliveries of it overlapped or one died.
THEOREM MailedOnceOnly == Spec => []MailedOnce
<1> DEFINE Inv == part = "report" => ReportInv /\ PaidInv
<1>1. Init => Inv
  BY ReportInit
<1>2. Inv /\ [Next]_platformVars => Inv'
  BY PartStays, ReportSteps, ReportKept, PaidKept
<1>3. ReportInv /\ PaidInv => Report!MailedOnce
  <2> SUFFICES ASSUME ReportInv, PaidInv PROVE Report!MailedOnce
    OBVIOUS
  <2>1. ASSUME NEW k \in Kinds PROVE mails[k] <= 1 + again[k]
    <3>1. IsFiniteSet(Report!Parties)
      BY ReportAssumption, FS_Union DEF Report!Parties
    <3>2. Cardinality(AboutToSend(k, at, kind)) \in Nat
      BY <3>1, FS_Subset, FS_CardinalityType DEF AboutToSend
    <3> QED
      BY <3>2 DEF PaidInv, Paid
  <2>2. ASSUME NEW k \in Kinds \ tangled, Report!Quiet, report[k] = "READY", k \in built
        PROVE  mails[k] = 1
    <3>1. DeliveredByOne(k)
      BY DEF ReportInv
    <3> QED
      BY <2>2, <3>1 DEF DeliveredByOne, Report!Quiet
  <2> QED
    BY <2>1, <2>2 DEF Report!MailedOnce
<1>4. Inv => MailedOnce
  BY <1>3 DEF MailedOnce
<1> QED
  BY <1>1, <1>2, <1>4, PTL DEF Spec, platformVars

-----------------------------------------------------------------------------
(* The analysis runs.                                                       *)

Advice == [of : Prints, job : BOOLEAN,
           status : {"PENDING_APPROVAL", "APPROVED", "EXECUTED", "REJECTED", "EXPIRED", "FORGOTTEN"}]
AnalysisRuns ==
  [at : {"idle", "ask", "lookup", "insert", "enqueue"}, policy : Decision!Policies,
   fired : SUBSET Prints, spent : Nat, aborted : BOOLEAN, drafts : SUBSET Prints,
   item : Prints \cup {"none"}, written : Seq(Advice), queue : SUBSET Nat]

DecisionTypeOK ==
  /\ rows \in Seq(Advice)
  /\ run \in [Callers -> AnalysisRuns]

\* The fingerprints of a run's open transaction.
Wrote(r) == {r.written[i].of : i \in DOMAIN r.written}

\* A run keeps to its order of steps, and writes each fingerprint once.
Orderly(r) ==
  /\ r.at # "insert" => r.item = "none"
  /\ r.at = "insert" => r.item \in r.drafts
  /\ r.at \notin {"lookup", "insert"} => r.written = <<>>
  /\ r.at # "enqueue" => r.queue = {}
  /\ Wrote(r) \cap r.drafts = {}
  /\ \A i, j \in DOMAIN r.written : i # j => r.written[i].of # r.written[j].of
  /\ \A i \in DOMAIN r.written :
       /\ r.written[i].status \in {"PENDING_APPROVAL", "APPROVED", "EXECUTED"}
       /\ ~r.written[i].job

\* What it has written is open nowhere else, and what it has written or looked up was
\* not rejected before.
Clear(r) ==
  /\ \A j \in DOMAIN rows : rows[j].of \in Wrote(r) => rows[j].status \notin Decision!Open
  /\ \A j \in DOMAIN rows :
       rows[j].status = "REJECTED" /\ (rows[j].of \in Wrote(r) \/ (r.at = "insert" /\ rows[j].of = r.item))
         => rows[j].of \in raced

DecisionInv ==
  /\ DecisionTypeOK
  /\ \A c \in Callers : Orderly(run[c]) /\ Clear(run[c])
  /\ \A c, d \in Callers : c # d => Wrote(run[c]) \cap Wrote(run[d]) = {}
  /\ Decision!AdvisedOnce

LEMMA DecisionSteps ==
  ASSUME part = "decision", [Next]_platformVars
  PROVE  [Decision!DecisionNext]_decisionVars
BY DEF Next, Only, platformVars

LEMMA RestingRun == Decision!Resting \in AnalysisRuns /\ Decision!Resting.written = <<>>
<1>1. <<>> \in Seq(Advice)
  BY EmptySeq
<1> QED
  BY <1>1 DEF Decision!Resting, AnalysisRuns, Decision!Policies

LEMMA DecisionInit == Init /\ part = "decision" => DecisionInv
<1> SUFFICES ASSUME Decision!Init PROVE DecisionInv
  BY DEF Init
<1>1. Decision!Resting \in AnalysisRuns /\ Decision!Resting.written = <<>>
  BY RestingRun
<1>2. rows = <<>> /\ rows \in Seq(Advice) /\ DOMAIN rows = {}
  BY EmptySeq DEF Decision!Init
<1>3. \A c \in Callers : run[c] = Decision!Resting
  BY DEF Decision!Init
<1>4. Wrote(Decision!Resting) = {}
  BY <1>1 DEF Wrote
<1>5. Orderly(Decision!Resting)
  BY <1>1, <1>4 DEF Orderly, Decision!Resting
<1>6. DecisionTypeOK
  BY <1>1, <1>2 DEF Decision!Init, DecisionTypeOK
<1>7. Decision!AdvisedOnce /\ \A c \in Callers : Clear(run[c])
  BY <1>2 DEF Decision!AdvisedOnce, Clear
<1> QED
  BY <1>3, <1>4, <1>5, <1>6, <1>7 DEF DecisionInv

\* A step of a run that leaves the rows alone.
LEMMA RunMoves ==
  ASSUME DecisionInv, NEW c \in Callers, NEW r \in AnalysisRuns,
         run' = [run EXCEPT ![c] = r], UNCHANGED <<rows, raced>>,
         Orderly(r), Clear(r), Wrote(r) \subseteq Wrote(run[c]) \/
           \A d \in Callers : c # d => Wrote(r) \cap Wrote(run[d]) = {},
         stranded \subseteq stranded', run[c].queue \subseteq r.queue \cup stranded'
  PROVE  DecisionInv'
<1>1. run' \in [Callers -> AnalysisRuns] /\ run'[c] = r /\ \A d \in Callers \ {c} : run'[d] = run[d]
  BY DEF DecisionInv, DecisionTypeOK
<1>2. DecisionTypeOK'
  BY <1>1 DEF DecisionInv, DecisionTypeOK
<1>3. \A d \in Callers : (Orderly(run[d]) /\ Clear(run[d]))'
  <2>1. \A d \in Callers : Orderly(run[d]) /\ Clear(run[d])
    BY DEF DecisionInv
  <2>2. \A d \in Callers : Orderly(run'[d]) /\ Clear(run'[d])
    BY <1>1, <2>1
  <2>3. \A d \in Callers : Orderly(run[d])'
    BY <2>2 DEF Orderly, Wrote
  <2>4. \A d \in Callers : Clear(run[d])'
    BY <2>2 DEF Clear, Wrote
  <2> QED
    BY <2>3, <2>4
<1>4. \A d, e \in Callers : d # e => Wrote(run'[d]) \cap Wrote(run'[e]) = {}
  <2>1. \A d, e \in Callers : d # e => Wrote(run[d]) \cap Wrote(run[e]) = {}
    BY DEF DecisionInv
  <2> QED
    BY <1>1, <2>1
<1>5. Decision!AdvisedOnce'
  <2>1. \A i : (\E d \in Callers : i \in run[d].queue) =>
                  i \in stranded' \/ \E d \in Callers : i \in run'[d].queue
    BY <1>1
  <2> QED
    BY <2>1 DEF DecisionInv, Decision!AdvisedOnce
<1> QED
  BY <1>2, <1>3, <1>4, <1>5 DEF DecisionInv, Wrote

\* A run that ends or throws; its transaction is rolled back.
LEMMA RunRests ==
  ASSUME DecisionInv, NEW c \in Callers, run' = [run EXCEPT ![c] = Decision!Resting],
         UNCHANGED <<rows, raced>>, stranded \subseteq stranded', run[c].queue \subseteq stranded'
  PROVE  DecisionInv'
<1>1. Decision!Resting \in AnalysisRuns /\ Decision!Resting.written = <<>>
  BY RestingRun
<1>2. Wrote(Decision!Resting) = {}
  BY <1>1 DEF Wrote
<1>3. Orderly(Decision!Resting) /\ Clear(Decision!Resting)
  BY <1>1, <1>2 DEF Orderly, Clear, Decision!Resting
<1> QED
  BY <1>1, <1>2, <1>3, RunMoves

LEMMA AnalysisKeeps ==
  ASSUME DecisionInv, NEW c \in Callers,
         \/ \E policy \in Decision!Policies, fired \in SUBSET Prints : Decision!Start(c, policy, fired)
         \/ \E some \in SUBSET Prints : Decision!Drafts(c, some)
         \/ \E failure : Decision!AgentFails(c, failure)
         \/ Decision!Begin(c)
  PROVE  DecisionInv'
<1>1. /\ run[c] \in AnalysisRuns /\ Orderly(run[c]) /\ Clear(run[c])
      /\ run \in [Callers -> AnalysisRuns]
  BY DEF DecisionInv, DecisionTypeOK
<1>2. ASSUME run[c].at \in {"idle", "ask"}, NEW r \in AnalysisRuns, run' = [run EXCEPT ![c] = r],
             r.at \in {"ask", "lookup"}, r.item = "none", r.written = <<>>, r.queue = {},
             UNCHANGED <<rows, raced, stranded>>
      PROVE  DecisionInv'
  <2>1. Wrote(r) = {}
    BY <1>2 DEF Wrote
  <2>2. Orderly(r) /\ Clear(r)
    BY <1>2, <2>1 DEF Orderly, Clear
  <2>3. run[c].queue = {}
    BY <1>1, <1>2 DEF Orderly
  <2> QED
    BY <1>2, <2>1, <2>2, <2>3, RunMoves
<1>3. ASSUME NEW policy \in Decision!Policies, NEW fired \in SUBSET Prints,
             Decision!Start(c, policy, fired)
      PROVE  DecisionInv'
  <2> DEFINE r == [Decision!Resting EXCEPT !.at = "ask", !.policy = policy, !.fired = fired]
  <2>1. r \in AnalysisRuns /\ r.at = "ask"
    BY RestingRun DEF AnalysisRuns
  <2>2. r.item = "none" /\ r.written = <<>> /\ r.queue = {}
    BY RestingRun DEF Decision!Resting
  <2>3. run' = [run EXCEPT ![c] = r] /\ run[c].at = "idle" /\ UNCHANGED <<rows, raced, stranded>>
    BY <1>3 DEF Decision!Start
  <2> HIDE DEF r
  <2> QED
    BY <1>2, <2>1, <2>2, <2>3
<1>4. run[c].at = "ask" => run[c].item = "none" /\ run[c].written = <<>> /\ run[c].queue = {}
  BY <1>1 DEF Orderly
<1>5. ASSUME NEW some \in SUBSET Prints, Decision!Drafts(c, some) PROVE DecisionInv'
  <2> DEFINE r == [run[c] EXCEPT !.spent = @ + 1, !.drafts = @ \cup some,
                                 !.fired = @ \ Decision!FirstOf(@)]
  <2>1. run[c].spent + 1 \in Nat /\ run[c].drafts \cup some \in SUBSET Prints
        /\ run[c].fired \ Decision!FirstOf(run[c].fired) \in SUBSET Prints
    BY <1>1 DEF AnalysisRuns
  <2>2. r \in AnalysisRuns
    BY <1>1, <2>1 DEF AnalysisRuns
  <2>3. r.at = run[c].at /\ r.item = run[c].item /\ r.written = run[c].written /\ r.queue = run[c].queue
    BY <1>1 DEF AnalysisRuns
  <2>4. run' = [run EXCEPT ![c] = r] /\ run[c].at = "ask" /\ UNCHANGED <<rows, raced, stranded>>
    BY <1>5 DEF Decision!Drafts, Decision!Kept
  <2> HIDE DEF r
  <2> QED
    BY <1>2, <1>4, <2>2, <2>3, <2>4
<1>6. ASSUME NEW failure, Decision!AgentFails(c, failure) PROVE DecisionInv'
  <2> DEFINE r == [run[c] EXCEPT !.aborted = (failure \in {"UNAVAILABLE", "RATE_LIMITED"}),
                                 !.fired = @ \ Decision!FirstOf(@)]
  <2>1. (failure \in {"UNAVAILABLE", "RATE_LIMITED"}) \in BOOLEAN
        /\ run[c].fired \ Decision!FirstOf(run[c].fired) \in SUBSET Prints
    BY <1>1 DEF AnalysisRuns
  <2>2. r \in AnalysisRuns
    BY <1>1, <2>1 DEF AnalysisRuns
  <2>3. r.at = run[c].at /\ r.item = run[c].item /\ r.written = run[c].written /\ r.queue = run[c].queue
    BY <1>1 DEF AnalysisRuns
  <2>4. run' = [run EXCEPT ![c] = r] /\ run[c].at = "ask" /\ UNCHANGED <<rows, raced, stranded>>
    BY <1>6 DEF Decision!AgentFails, Decision!Kept
  <2> HIDE DEF r
  <2> QED
    BY <1>2, <1>4, <2>2, <2>3, <2>4
<1>7. ASSUME Decision!Begin(c) PROVE DecisionInv'
  <2> DEFINE r == [run[c] EXCEPT !.at = "lookup", !.fired = {}]
  <2>1. r \in AnalysisRuns /\ r.at = "lookup"
    BY <1>1 DEF AnalysisRuns
  <2>2. r.item = run[c].item /\ r.written = run[c].written /\ r.queue = run[c].queue
    BY <1>1 DEF AnalysisRuns
  <2>3. run' = [run EXCEPT ![c] = r] /\ run[c].at = "ask" /\ UNCHANGED <<rows, raced, stranded>>
    BY <1>7 DEF Decision!Begin, Decision!Kept
  <2> HIDE DEF r
  <2> QED
    BY <1>2, <1>4, <2>1, <2>2, <2>3
<1> QED
  BY <1>3, <1>5, <1>6, <1>7

LEMMA LookupKeeps ==
  ASSUME DecisionInv, NEW c \in Callers, NEW p \in Prints, Decision!Lookup(c, p)
  PROVE  DecisionInv'
<1>1. /\ run[c] \in AnalysisRuns /\ Orderly(run[c]) /\ Clear(run[c])
      /\ run[c].at = "lookup" /\ p \in run[c].drafts /\ UNCHANGED <<rows, raced, stranded>>
  BY DEF DecisionInv, DecisionTypeOK, Decision!Lookup, Decision!FirstOf, Decision!Kept
<1>2. CASE \E i \in DOMAIN rows : rows[i].of = p /\ Decision!Blocks(rows[i])
  <2> DEFINE r == [run[c] EXCEPT !.drafts = @ \ {p}]
  <2>1. r \in AnalysisRuns /\ r.drafts \subseteq run[c].drafts
    BY <1>1 DEF AnalysisRuns
  <2>2. r.at = run[c].at /\ r.item = run[c].item /\ r.written = run[c].written /\ r.queue = run[c].queue
    BY <1>1 DEF AnalysisRuns
  <2>3. run' = [run EXCEPT ![c] = r]
    BY <1>2 DEF Decision!Lookup
  <2> HIDE DEF r
  <2>4. Wrote(r) = Wrote(run[c])
    BY <2>2 DEF Wrote
  <2>5. Orderly(r) /\ Clear(r)
    BY <1>1, <2>1, <2>2, <2>4 DEF Orderly, Clear
  <2> QED
    BY <1>1, <2>1, <2>2, <2>3, <2>4, <2>5, RunMoves
<1>3. CASE ~\E i \in DOMAIN rows : rows[i].of = p /\ Decision!Blocks(rows[i])
  <2> DEFINE r == [run[c] EXCEPT !.at = "insert", !.item = p]
  <2>1. r \in AnalysisRuns /\ r.at = "insert" /\ r.item = p
    BY <1>1 DEF AnalysisRuns
  <2>2. r.drafts = run[c].drafts /\ r.written = run[c].written /\ r.queue = run[c].queue
    BY <1>1 DEF AnalysisRuns
  <2>3. run' = [run EXCEPT ![c] = r]
    BY <1>3 DEF Decision!Lookup
  <2> HIDE DEF r
  <2>4. Wrote(r) = Wrote(run[c])
    BY <2>2 DEF Wrote
  <2>5. \A j \in DOMAIN rows : rows[j].of = p => rows[j].status # "REJECTED"
    BY <1>3 DEF Decision!Blocks
  <2>6. Orderly(r) /\ Clear(r)
    BY <1>1, <2>1, <2>2, <2>4, <2>5 DEF Orderly, Clear
  <2> QED
    BY <1>1, <2>1, <2>2, <2>3, <2>4, <2>6, RunMoves
<1> QED
  BY <1>2, <1>3

LEMMA InsertKeeps ==
  ASSUME DecisionInv, NEW c \in Callers, NEW able \in BOOLEAN, Decision!Insert(c, able)
  PROVE  DecisionInv'
<1> DEFINE p == run[c].item
           new == [of |-> p, job |-> FALSE, status |-> Decision!StatusFor(run[c].policy, p, able)]
           r == [run[c] EXCEPT !.at = "lookup", !.item = "none", !.drafts = @ \ {p},
                               !.written = Append(@, new)]
<1>1. /\ run[c] \in AnalysisRuns /\ Orderly(run[c]) /\ Clear(run[c])
      /\ run[c].at = "insert" /\ UNCHANGED <<rows, raced, stranded>> /\ run' = [run EXCEPT ![c] = r]
  BY DEF DecisionInv, DecisionTypeOK, Decision!Insert, Decision!Kept
<1>2. /\ \A d \in Callers : ~Decision!WaitsFor(c, d)
      /\ \A i \in DOMAIN rows : ~(rows[i].of = p /\ rows[i].status \in Decision!Open)
  BY DEF Decision!Insert
<1>3. p \in run[c].drafts /\ p \in Prints /\ p \notin Wrote(run[c])
  BY <1>1 DEF Orderly, AnalysisRuns
<1>4. new.of = p /\ ~new.job /\ new.status \in {"PENDING_APPROVAL", "APPROVED", "EXECUTED"}
  BY DEF Decision!StatusFor
<1>5. new \in Advice
  BY <1>3, <1>4 DEF Advice
<1> HIDE DEF new
<1> DEFINE log == run[c].written
<1>6. log \in Seq(Advice) /\ Append(log, new) \in Seq(Advice)
  BY <1>1, <1>5, AppendProperties DEF AnalysisRuns
<1>7. r \in AnalysisRuns
  BY <1>1, <1>6 DEF AnalysisRuns
<1>8. /\ r.at = "lookup" /\ r.item = "none" /\ r.drafts = run[c].drafts \ {p}
      /\ r.written = Append(log, new) /\ r.queue = run[c].queue
  BY <1>1 DEF AnalysisRuns
<1> HIDE DEF p, r
<1>9. /\ DOMAIN log = 1..Len(log) /\ Len(log) \in Nat
      /\ DOMAIN r.written = 1..(Len(log) + 1)
      /\ \A i \in DOMAIN log : r.written[i] = log[i]
      /\ r.written[Len(log) + 1] = new
  BY <1>5, <1>6, <1>8, AppendProperties
<1>10. \A i \in DOMAIN r.written : i \in DOMAIN log \/ i = Len(log) + 1
  BY <1>9
<1>11. Wrote(r) = Wrote(run[c]) \cup {p}
  <2>1. \A i \in DOMAIN log : i \in DOMAIN r.written
    BY <1>9
  <2>2. Len(log) + 1 \in DOMAIN r.written
    BY <1>9
  <2> HIDE DEF log
  <2>3. log = run[c].written
    BY DEF log
  <2> QED
    BY <1>4, <1>9, <1>10, <2>1, <2>2, <2>3 DEF Wrote
<1>12. Orderly(r)
  <2>1. \A i \in DOMAIN log : log[i].of \in Wrote(run[c]) /\ log[i].of # p
    BY <1>3 DEF Wrote
  <2>2. \A i, j \in DOMAIN r.written : i # j => r.written[i].of # r.written[j].of
    <3>1. \A i, j \in DOMAIN log : i # j => log[i].of # log[j].of
      BY <1>1 DEF Orderly
    <3>2. \A i \in DOMAIN r.written : (i \in DOMAIN log /\ r.written[i] = log[i])
                                       \/ (i = Len(log) + 1 /\ r.written[i] = new)
      BY <1>9, <1>10
    <3> HIDE DEF log
    <3> QED
      BY <1>4, <2>1, <3>1, <3>2
  <2>3. \A i \in DOMAIN r.written :
          r.written[i].status \in {"PENDING_APPROVAL", "APPROVED", "EXECUTED"} /\ ~r.written[i].job
    BY <1>1, <1>4, <1>9, <1>10 DEF Orderly
  <2>4. Wrote(r) \cap r.drafts = {}
    BY <1>1, <1>8, <1>11 DEF Orderly
  <2> QED
    BY <1>1, <1>8, <2>2, <2>3, <2>4 DEF Orderly
<1>13. Clear(r)
  BY <1>1, <1>2, <1>8, <1>11 DEF Clear, p
<1>14. \A d \in Callers : c # d => Wrote(r) \cap Wrote(run[d]) = {}
  <2> SUFFICES ASSUME NEW d \in Callers, c # d PROVE p \notin Wrote(run[d])
    BY <1>11 DEF DecisionInv
  <2>1. CASE run[d].at \in {"lookup", "insert"}
    BY <1>1, <1>2, <2>1 DEF Decision!WaitsFor, Wrote, p
  <2>2. CASE run[d].at \notin {"lookup", "insert"}
    BY <2>2 DEF DecisionInv, Orderly, Wrote
  <2> QED
    BY <2>1, <2>2
<1> QED
  BY <1>1, <1>7, <1>8, <1>12, <1>13, <1>14, RunMoves

LEMMA CommitKeeps ==
  ASSUME DecisionInv, NEW c \in Callers, Decision!Commit(c)
  PROVE  DecisionInv'
<1> DEFINE new == run[c].written
           Q == {i \in Len(rows) + 1 .. Len(rows') : rows'[i].status = "APPROVED"}
           r == [run[c] EXCEPT !.at = "enqueue", !.written = <<>>, !.queue = Q]
<1>1. /\ run[c] \in AnalysisRuns /\ Orderly(run[c]) /\ Clear(run[c]) /\ rows \in Seq(Advice)
      /\ run \in [Callers -> AnalysisRuns]
      /\ new \in Seq(Advice)
  BY DEF DecisionInv, DecisionTypeOK, AnalysisRuns
<1>2. /\ run[c].at = "lookup" /\ rows' = rows \o new /\ UNCHANGED <<raced, stranded>>
      /\ run' = [run EXCEPT ![c] = r]
  BY DEF Decision!Commit, Decision!Kept
<1>3. /\ rows' \in Seq(Advice) /\ DOMAIN rows' = 1..(Len(rows) + Len(new)) /\ Len(rows') = Len(rows) + Len(new)
      /\ DOMAIN rows = 1..Len(rows) /\ DOMAIN new = 1..Len(new) /\ Len(rows) \in Nat /\ Len(new) \in Nat
      /\ \A i \in 1..(Len(rows) + Len(new)) :
           rows'[i] = IF i <= Len(rows) THEN rows[i] ELSE new[i - Len(rows)]
  BY <1>1, <1>2, ConcatProperties
<1>4. \A i \in DOMAIN rows' : (i \in DOMAIN rows /\ rows'[i] = rows[i])
                              \/ (\E m \in DOMAIN new : i = Len(rows) + m /\ rows'[i] = new[m])
  <2> SUFFICES ASSUME NEW i \in DOMAIN rows'
               PROVE  (i \in DOMAIN rows /\ rows'[i] = rows[i])
                      \/ (\E m \in DOMAIN new : i = Len(rows) + m /\ rows'[i] = new[m])
    OBVIOUS
  <2>1. CASE i <= Len(rows)
    BY <1>3, <2>1
  <2>2. CASE ~(i <= Len(rows))
    <3>1. i - Len(rows) \in DOMAIN new /\ i = Len(rows) + (i - Len(rows)) /\ rows'[i] = new[i - Len(rows)]
      BY <1>3, <2>2
    <3> QED
      BY <3>1
  <2> QED
    BY <2>1, <2>2
<1>5. Q \in SUBSET Nat
  BY <1>3
<1>6. \A i \in DOMAIN rows' : (i \in DOMAIN rows /\ rows'[i] = rows[i])
                              \/ (rows'[i].status = "APPROVED" => i \in Q)
  BY <1>3
<1>7. <<>> \in Seq(Advice)
  BY EmptySeq
<1> HIDE DEF Q
<1>8. r \in AnalysisRuns
  BY <1>1, <1>5, <1>7 DEF AnalysisRuns
<1>9. r.at = "enqueue" /\ r.item = run[c].item /\ r.written = <<>> /\ r.queue = Q
  BY <1>1 DEF AnalysisRuns
<1> HIDE DEF r
<1>10. run' \in [Callers -> AnalysisRuns] /\ run'[c] = r /\ \A d \in Callers \ {c} : run'[d] = run[d]
  BY <1>1, <1>2, <1>8
<1>11. Wrote(r) = {}
  BY <1>9 DEF Wrote
<1>12. Orderly(r)
  BY <1>1, <1>2, <1>9, <1>11 DEF Orderly
<1>13. \A m \in DOMAIN new : new[m].of \in Wrote(run[c])
  BY DEF Wrote
<1>14. \A m \in DOMAIN new : new[m].status # "REJECTED" /\ ~new[m].job
  BY <1>1 DEF Orderly
<1> HIDE DEF new
<1>15. \A d \in Callers : (Orderly(run[d]) /\ Clear(run[d]))'
  <2>1. \A d \in Callers : Orderly(run[d]) /\ Clear(run[d]) /\ (c # d => Wrote(run[c]) \cap Wrote(run[d]) = {})
    BY DEF DecisionInv
  <2>2. Orderly(run'[c]) /\ Wrote(run'[c]) = {} /\ run'[c].at = "enqueue"
    BY <1>9, <1>10, <1>11, <1>12
  <2>3. \A d \in Callers : Orderly(run'[d])
    BY <1>10, <2>1, <2>2
  <2>4. ASSUME NEW d \in Callers, d # c, NEW j \in DOMAIN rows'
        PROVE  /\ rows'[j].of \in Wrote(run[d]) => rows'[j].status \notin Decision!Open
               /\ rows'[j].status = "REJECTED" /\ (rows'[j].of \in Wrote(run[d])
                    \/ (run[d].at = "insert" /\ rows'[j].of = run[d].item)) => rows'[j].of \in raced
    <3>1. CASE j \in DOMAIN rows /\ rows'[j] = rows[j]
      BY <2>1, <3>1 DEF Clear
    <3>2. CASE \E m \in DOMAIN new : rows'[j] = new[m]
      BY <1>13, <1>14, <2>1, <2>4, <3>2
    <3> QED
      BY <1>4, <3>1, <3>2
  <2>5. \A d \in Callers : Clear(run[d])'
    <3>1. ASSUME NEW d \in Callers, d # c PROVE Clear(run[d])'
      <4>1. run'[d] = run[d]
        BY <1>10, <3>1
      <4> QED
        BY <1>2, <2>4, <3>1, <4>1 DEF Clear, Wrote
    <3>2. Clear(run[c])'
      BY <2>2 DEF Clear, Wrote
    <3> QED
      BY <3>1, <3>2
  <2>6. \A d \in Callers : Orderly(run[d])'
    BY SMTT(30), <2>3 DEF Orderly, Wrote
  <2> QED
    BY <2>5, <2>6
<1>16. \A d, e \in Callers : d # e => Wrote(run'[d]) \cap Wrote(run'[e]) = {}
  BY <1>10, <1>11 DEF DecisionInv
<1>17. \A i, j \in DOMAIN rows' :
         i # j /\ rows'[i].of = rows'[j].of /\ rows'[i].status \in Decision!Open =>
           /\ rows'[j].status \notin Decision!Open
           /\ rows'[j].status = "REJECTED" => rows'[i].of \in raced
  <2>1. \A m, n \in DOMAIN new : m # n => new[m].of # new[n].of
    BY <1>1 DEF Orderly, new
  <2> SUFFICES ASSUME NEW i \in DOMAIN rows', NEW j \in DOMAIN rows', i # j, rows'[i].of = rows'[j].of,
                      rows'[i].status \in Decision!Open
               PROVE  /\ rows'[j].status \notin Decision!Open
                      /\ rows'[j].status = "REJECTED" => rows'[i].of \in raced
    OBVIOUS
  <2>2. CASE i \in DOMAIN rows /\ j \in DOMAIN rows /\ rows'[i] = rows[i] /\ rows'[j] = rows[j]
    BY <2>2 DEF DecisionInv, Decision!AdvisedOnce
  <2>3. CASE i \in DOMAIN rows /\ rows'[i] = rows[i] /\ \E m \in DOMAIN new : rows'[j] = new[m]
    BY <1>1, <1>13, <2>3 DEF Clear
  <2>4. CASE j \in DOMAIN rows /\ rows'[j] = rows[j] /\ \E m \in DOMAIN new : rows'[i] = new[m]
    BY <1>1, <1>13, <2>4 DEF Clear
  <2>5. CASE \E m, n \in DOMAIN new : m # n /\ rows'[i] = new[m] /\ rows'[j] = new[n]
    BY <2>1, <2>5
  <2> QED
    BY <1>4, <2>2, <2>3, <2>4, <2>5
<1>18. \A i \in DOMAIN rows' : rows'[i].status = "APPROVED" /\ ~rows'[i].job =>
         i \in stranded \/ \E d \in Callers : i \in run'[d].queue
  <2> SUFFICES ASSUME NEW i \in DOMAIN rows', rows'[i].status = "APPROVED", ~rows'[i].job
               PROVE  i \in stranded \/ \E d \in Callers : i \in run'[d].queue
    OBVIOUS
  <2>1. CASE i \in DOMAIN rows /\ rows'[i] = rows[i]
    <3>1. i \in stranded \/ \E d \in Callers : i \in run[d].queue
      BY <2>1 DEF DecisionInv, Decision!AdvisedOnce
    <3>2. run[c].queue = {}
      BY <1>1, <1>2 DEF Orderly
    <3> QED
      BY <1>10, <3>1, <3>2
  <2>2. CASE i \in Q
    BY <1>9, <1>10, <2>2
  <2> QED
    BY <1>6, <2>1, <2>2
<1>19. Decision!AdvisedOnce'
  BY <1>2, <1>17, <1>18 DEF Decision!AdvisedOnce
<1>20. DecisionTypeOK'
  BY <1>3, <1>10 DEF DecisionTypeOK
<1> QED
  BY <1>15, <1>16, <1>19, <1>20 DEF DecisionInv, Wrote

\* A row changes; runs may drop it from what they have yet to enqueue.
LEMMA RowMoves ==
  ASSUME DecisionInv, NEW i \in DOMAIN rows, NEW row \in Advice, rows' = [rows EXCEPT ![i] = row],
         row.of = rows[i].of, row.status \in Decision!Open => rows[i].status \in Decision!Open,
         row.status # "APPROVED" \/ row.job,
         raced \subseteq raced', UNCHANGED stranded,
         row.status = "REJECTED" =>
           \/ rows[i].status = "REJECTED"
           \/ /\ rows[i].status \in Decision!Open
              /\ (\E c \in Callers : run[c].item = rows[i].of) => rows[i].of \in raced',
         run' \in [Callers -> AnalysisRuns],
         \A c \in Callers :
           /\ run'[c].at = run[c].at /\ run'[c].item = run[c].item /\ run'[c].drafts = run[c].drafts
           /\ run'[c].written = run[c].written /\ run'[c].queue \subseteq run[c].queue
           /\ run[c].queue \subseteq run'[c].queue \cup {i}
  PROVE  DecisionInv'
<1>1. /\ rows' \in Seq(Advice) /\ DOMAIN rows' = DOMAIN rows /\ rows'[i] = row
      /\ \A j \in DOMAIN rows : j # i => rows'[j] = rows[j]
  <2>1. rows \in Seq(Advice) /\ DOMAIN rows = 1..Len(rows)
    BY DEF DecisionInv, DecisionTypeOK
  <2> QED
    BY <2>1, ExceptSeq
<1>2. \A j \in DOMAIN rows :
        /\ rows'[j].of = rows[j].of
        /\ rows'[j].status \in Decision!Open => rows[j].status \in Decision!Open
  BY <1>1
<1>3. \A c \in Callers : /\ Orderly(run[c]) /\ Clear(run[c]) /\ Wrote(run'[c]) = Wrote(run[c])
                         /\ run'[c].at = run[c].at /\ run'[c].item = run[c].item
  BY DEF DecisionInv, Wrote
<1>4. \A c \in Callers : Orderly(run'[c])
  BY <1>3 DEF Orderly
<1>5. \A j \in DOMAIN rows : rows'[j].status = "REJECTED" =>
        \/ rows[j].status = "REJECTED"
        \/ /\ rows[j].status \in Decision!Open
           /\ (\E c \in Callers : run[c].item = rows[j].of) => rows[j].of \in raced'
  BY <1>1
<1>6. ASSUME NEW c \in Callers, NEW j \in DOMAIN rows
      PROVE  /\ rows'[j].of \in Wrote(run'[c]) => rows'[j].status \notin Decision!Open
             /\ rows'[j].status = "REJECTED" /\ (rows'[j].of \in Wrote(run'[c])
                  \/ (run'[c].at = "insert" /\ rows'[j].of = run'[c].item)) => rows'[j].of \in raced'
  <2>1. Clear(run[c]) /\ Wrote(run'[c]) = Wrote(run[c]) /\ run'[c].at = run[c].at /\ run'[c].item = run[c].item
    BY <1>3
  <2>2. rows'[j].of = rows[j].of
    BY <1>2
  <2> QED
    BY <1>2, <1>5, <2>1, <2>2 DEF Clear
<1>7. \A c \in Callers : Clear(run[c])'
  BY <1>1, <1>6 DEF Clear, Wrote
<1>8. \A c, d \in Callers : c # d => Wrote(run'[c]) \cap Wrote(run'[d]) = {}
  BY <1>3 DEF DecisionInv
<1>9. ASSUME NEW j \in DOMAIN rows, NEW k \in DOMAIN rows, j # k, rows'[j].of = rows'[k].of,
             rows'[j].status \in Decision!Open
      PROVE  rows'[k].status \notin Decision!Open /\ (rows'[k].status = "REJECTED" => rows'[j].of \in raced')
  <2>1. rows[j].of = rows[k].of /\ rows[j].status \in Decision!Open
    BY <1>2, <1>9
  <2>2. rows[k].status \notin Decision!Open /\ (rows[k].status = "REJECTED" => rows[j].of \in raced)
    BY <1>9, <2>1 DEF DecisionInv, Decision!AdvisedOnce
  <2> QED
    BY <1>2, <1>5, <2>2
<1>10. ASSUME NEW j \in DOMAIN rows, rows'[j].status = "APPROVED", ~rows'[j].job
       PROVE  j \in stranded \/ \E c \in Callers : j \in run'[c].queue
  <2>1. j # i /\ rows'[j] = rows[j]
    BY <1>1, <1>10
  <2>2. j \in stranded \/ \E c \in Callers : j \in run[c].queue
    BY <1>10, <2>1 DEF DecisionInv, Decision!AdvisedOnce
  <2> QED
    BY <2>1, <2>2
<1>11. Decision!AdvisedOnce'
  BY <1>1, <1>9, <1>10 DEF Decision!AdvisedOnce
<1>12. DecisionTypeOK'
  BY <1>1 DEF DecisionTypeOK
<1>13. \A c \in Callers : Orderly(run[c])'
  BY <1>4 DEF Orderly, Wrote
<1> QED
  BY <1>7, <1>8, <1>11, <1>12, <1>13 DEF DecisionInv, Wrote

\* The merchant, the sweeps and the executor.
LEMMA RowsKeep ==
  ASSUME DecisionInv, NEW i \in DOMAIN rows,
         Decision!Approve(i) \/ Decision!Reject(i) \/ Decision!Expire(i) \/ Decision!Execute(i) \/ Decision!Forget(i)
  PROVE  DecisionInv'
<1>1. rows[i] \in Advice /\ run \in [Callers -> AnalysisRuns]
  <2>1. rows \in Seq(Advice) /\ DOMAIN rows = 1..Len(rows) /\ run \in [Callers -> AnalysisRuns]
    BY DEF DecisionInv, DecisionTypeOK
  <2> QED
    BY <2>1, ElementOfSeq
<1>2. ASSUME UNCHANGED run
      PROVE  /\ run' \in [Callers -> AnalysisRuns]
             /\ \A c \in Callers :
                  /\ run'[c].at = run[c].at /\ run'[c].item = run[c].item /\ run'[c].drafts = run[c].drafts
                  /\ run'[c].written = run[c].written /\ run'[c].queue \subseteq run[c].queue
                  /\ run[c].queue \subseteq run'[c].queue \cup {i}
  BY <1>1, <1>2
<1>3. ASSUME NEW source, NEW to \in {"EXECUTED", "REJECTED", "EXPIRED", "FORGOTTEN"},
             Decision!Becomes(i, source, to), raced \subseteq raced',
             to = "REJECTED" => /\ rows[i].status \in Decision!Open
                                /\ (\E c \in Callers : run[c].item = rows[i].of) => rows[i].of \in raced'
      PROVE  DecisionInv'
  <2> DEFINE row == [rows[i] EXCEPT !.status = to]
  <2>1. row \in Advice /\ row.status = to /\ row.of = rows[i].of
    BY <1>1, <1>3 DEF Advice
  <2>2. rows' = [rows EXCEPT ![i] = row] /\ UNCHANGED <<run, stranded>>
    BY <1>3 DEF Decision!Becomes
  <2> HIDE DEF row
  <2>3. to \notin Decision!Open /\ to # "APPROVED"
    BY <1>3 DEF Decision!Open
  <2> QED
    BY <1>2, <1>3, <2>1, <2>2, <2>3, RowMoves
<1>4. ASSUME Decision!Approve(i) PROVE DecisionInv'
  <2> DEFINE to == IF rows[i].of \in Advisory THEN "EXECUTED" ELSE "APPROVED"
             row == [rows[i] EXCEPT !.status = to, !.job = (rows[i].of \notin Advisory)]
  <2>1. (rows[i].of \notin Advisory) \in BOOLEAN /\ to \in {"EXECUTED", "APPROVED"}
    OBVIOUS
  <2>2. row \in Advice /\ row.status = to /\ row.of = rows[i].of /\ row.job = (rows[i].of \notin Advisory)
    BY <1>1, <2>1 DEF Advice
  <2>3. rows' = [rows EXCEPT ![i] = row] /\ UNCHANGED <<run, stranded, raced>> /\ rows[i].status = "PENDING_APPROVAL"
    BY <1>4 DEF Decision!Approve
  <2>4. to = "APPROVED" => row.job
    BY <2>2
  <2>5. to # "REJECTED" /\ rows[i].status \in Decision!Open
    BY <2>1, <2>3 DEF Decision!Open
  <2> HIDE DEF row, to
  <2> QED
    BY <1>2, <2>2, <2>3, <2>4, <2>5, RowMoves
<1>5. ASSUME Decision!Reject(i) PROVE DecisionInv'
  BY <1>3, <1>5 DEF Decision!Reject, Decision!Becomes, Decision!Open
<1> QED
  BY <1>3, <1>4, <1>5 DEF Decision!Expire, Decision!Execute, Decision!Forget

LEMMA EnqueueKeeps ==
  ASSUME DecisionInv, NEW c \in Callers, NEW i \in DOMAIN rows, Decision!Enqueue(c, i)
  PROVE  DecisionInv'
<1> DEFINE row == [rows[i] EXCEPT !.job = TRUE]
           r == [run[c] EXCEPT !.queue = @ \ {i}]
<1>1. rows[i] \in Advice /\ run[c] \in AnalysisRuns /\ run \in [Callers -> AnalysisRuns]
  <2>1. rows \in Seq(Advice) /\ DOMAIN rows = 1..Len(rows) /\ run \in [Callers -> AnalysisRuns]
    BY DEF DecisionInv, DecisionTypeOK
  <2> QED
    BY <2>1, ElementOfSeq
<1>2. row \in Advice /\ row.job /\ row.of = rows[i].of /\ row.status = rows[i].status
  BY <1>1 DEF Advice
<1>3. r \in AnalysisRuns /\ r.queue = run[c].queue \ {i}
  BY <1>1 DEF AnalysisRuns
<1>4. r.at = run[c].at /\ r.item = run[c].item /\ r.drafts = run[c].drafts /\ r.written = run[c].written
  BY <1>1 DEF AnalysisRuns
<1>5. rows' = [rows EXCEPT ![i] = row] /\ run' = [run EXCEPT ![c] = r] /\ UNCHANGED <<raced, stranded>>
  BY DEF Decision!Enqueue, Decision!Kept
<1> HIDE DEF row, r
<1>6. /\ row.status \in Decision!Open => rows[i].status \in Decision!Open
      /\ row.status = "REJECTED" => rows[i].status = "REJECTED"
      /\ row.status # "APPROVED" \/ row.job
  BY <1>2
<1>7. run' \in [Callers -> AnalysisRuns] /\ run'[c] = r /\ \A d \in Callers \ {c} : run'[d] = run[d]
  BY <1>1, <1>3, <1>5
<1>8. \A d \in Callers :
        /\ run'[d].at = run[d].at /\ run'[d].item = run[d].item /\ run'[d].drafts = run[d].drafts
        /\ run'[d].written = run[d].written /\ run'[d].queue \subseteq run[d].queue
        /\ run[d].queue \subseteq run'[d].queue \cup {i}
  BY <1>3, <1>4, <1>7
<1> QED
  <2>1. row \in Advice /\ row.of = rows[i].of
    BY <1>2
  <2>2. raced \subseteq raced' /\ UNCHANGED stranded /\ rows' = [rows EXCEPT ![i] = row]
    BY <1>5
  <2>3. run' \in [Callers -> AnalysisRuns]
    BY <1>7
  <2> QED
    BY <1>6, <1>8, <2>1, <2>2, <2>3, RowMoves

LEMMA DecisionKept == ASSUME DecisionInv, [Decision!DecisionNext]_decisionVars PROVE DecisionInv'
<1>1. ASSUME NEW c \in Callers, Decision!Conflict(c) \/ Decision!Finish(c) \/ Decision!Dies(c)
      PROVE  DecisionInv'
  <2>1. run' = [run EXCEPT ![c] = Decision!Resting] /\ UNCHANGED <<rows, raced>> /\ stranded \subseteq stranded'
    BY <1>1 DEF Decision!Conflict, Decision!Finish, Decision!Dies, Decision!Kept
  <2>2. run[c].queue \subseteq stranded'
    BY <1>1 DEF Decision!Conflict, Decision!Finish, Decision!Dies, DecisionInv, Orderly
  <2> QED
    BY <2>1, <2>2, RunRests
<1>2. ASSUME UNCHANGED decisionVars PROVE DecisionInv'
  <2>1. UNCHANGED <<rows, run, raced, stranded>>
    BY <1>2 DEF decisionVars
  <2>2. (DecisionTypeOK /\ Decision!AdvisedOnce)'
    BY <2>1 DEF DecisionInv, DecisionTypeOK, Decision!AdvisedOnce
  <2>3. \A c \in Callers : Clear(run[c])' /\ Orderly(run[c])'
    BY <2>1 DEF DecisionInv, Clear, Orderly, Wrote
  <2>4. \A c, d \in Callers : c # d => Wrote(run'[c]) \cap Wrote(run'[d]) = {}
    BY <2>1 DEF DecisionInv
  <2> QED
    BY <2>2, <2>3, <2>4 DEF DecisionInv, Wrote
<1> QED
  BY <1>1, <1>2, AnalysisKeeps, LookupKeeps, InsertKeeps, CommitKeeps, EnqueueKeeps, RowsKeep
     DEF Decision!DecisionNext

\* However the analysis runs of a store overlap, fail and are retried, an insight is open
\* once, a rejected one stays away, and what the autopilot approved is enqueued or about to be.
THEOREM AdvisedOnceOnly == Spec => []AdvisedOnce
<1> DEFINE Inv == part = "decision" => DecisionInv
<1>1. Init => Inv
  BY DecisionInit
<1>2. Inv /\ [Next]_platformVars => Inv'
  BY PartStays, DecisionSteps, DecisionKept
<1>3. Inv => AdvisedOnce
  BY DEF AdvisedOnce, DecisionInv
<1> QED
  BY <1>1, <1>2, <1>3, PTL DEF Spec, platformVars

-----------------------------------------------------------------------------
(* The mirror.                                                              *)

MirrorRows == [rev : Nat, pieces : SUBSET Pieces, refs : SUBSET Things]
Payloads   == [of : Things, rev : Nat, gone : BOOLEAN, pieces : SUBSET Pieces]

MirrorTypeOK ==
  /\ shop \in [Things -> [rev : Nat, gone : BOOLEAN, pieces : SUBSET Pieces]]
  /\ mirror \in [Things -> MirrorRows]
  /\ transit \subseteq Payloads /\ sound \subseteq Things

\* At Shopify an object comes after those it refers to, a dependent one goes with what
\* it depends on, and a product or an order is never without a variant or an item.
ShopIsOrdered == \A x \in Things :
  /\ shop[x].rev > 0 => \A y \in Mirror!Refers(x) \cap Things : shop[y].rev > 0
  /\ x \in Mirror!Dependent /\ (\E y \in Mirror!Refers(x) \cap Things : shop[y].gone) => shop[x].gone
  /\ shop[x].rev > 0 => (shop[x].pieces = {} <=> x \notin Mirror!Composed)

\* What is on its way was true once, and a deletion is true for ever.
PayloadsWereTrue == \A p \in transit : p.rev > 0 /\ (p.gone => shop[p.of].gone)

\* A row of the mirror refers to what its family refers to, and to rows that are there.
RefsAreThere == \A x \in Things : \A y \in mirror[x].refs : y \in Mirror!Refers(x) /\ mirror[y].rev > 0

\* A thing last written with its latest state.
Exact(x) ==
  /\ Mirror!Stored(x) <=> Mirror!There(x)
  /\ Mirror!There(x) =>
       /\ mirror[x].rev = shop[x].rev /\ mirror[x].pieces = shop[x].pieces
       /\ \A y \in Mirror!Refers(x) \cap Things : Mirror!There(y) => y \in mirror[x].refs

MirrorInv ==
  MirrorTypeOK /\ ShopIsOrdered /\ PayloadsWereTrue /\ RefsAreThere /\ \A x \in sound : Exact(x)

LEMMA MirrorSteps ==
  ASSUME part = "mirror", [Next]_platformVars
  PROVE  [Mirror!MirrorNext]_mirrorVars
BY DEF Next, Only, platformVars

\* Nothing refers to a dependent object, and the plain families to nothing.
LEMMA Families ==
  /\ \A x : \A y \in Mirror!Refers(x) : y \notin Mirror!Dependent /\ x \notin Mirror!Refers(y)
  /\ \A x \in {"customer", "location", "collection", "rule"} : Mirror!Refers(x) = {}
BY DEF Mirror!Refers, Mirror!Dependent

LEMMA MirrorInit == Init /\ part = "mirror" => MirrorInv
<1> SUFFICES ASSUME Mirror!Init PROVE MirrorInv
  BY DEF Init
<1>1. Mirror!Absent \in MirrorRows /\ Mirror!Absent.refs = {}
  BY DEF Mirror!Absent, MirrorRows
<1> HIDE DEF Mirror!Absent
<1> QED
  BY <1>1 DEF Mirror!Init, MirrorInv, MirrorTypeOK, ShopIsOrdered, PayloadsWereTrue, RefsAreThere

\* The payload of a thing, of now and of a later moment.
LEMMA PayloadOf ==
  ASSUME MirrorTypeOK, NEW x \in Things
  PROVE  /\ Mirror!Payload(x) \in Payloads
         /\ Mirror!Payload(x).of = x /\ Mirror!Payload(x).rev = shop[x].rev
         /\ Mirror!Payload(x).gone = shop[x].gone /\ Mirror!Payload(x).pieces = shop[x].pieces
BY DEF MirrorTypeOK, Mirror!Payload, Payloads

LEMMA PayloadAfter ==
  ASSUME MirrorTypeOK', NEW x \in Things
  PROVE  /\ Mirror!Payload(x)' \in Payloads
         /\ Mirror!Payload(x)'.of = x /\ Mirror!Payload(x)'.rev = shop'[x].rev
         /\ Mirror!Payload(x)'.gone = shop'[x].gone
BY DEF MirrorTypeOK, Mirror!Payload, Payloads

\* A write of one row: whatever it refers to is there, and if the payload is right the
\* row is exact.
LEMMA RowWritten ==
  ASSUME MirrorInv, NEW p \in transit, NEW row \in MirrorRows, Mirror!Upsert(p, row),
         row.refs \subseteq mirror[p.of].refs \cup Mirror!Resolved(p.of),
         row = mirror[p.of] \/ row.rev = p.rev,
         Mirror!Right(p) =>
           /\ row.rev = p.rev /\ row.pieces = shop[p.of].pieces
           /\ Mirror!Resolved(p.of) \subseteq row.refs
  PROVE  MirrorInv'
<1>1. /\ ~p.gone /\ mirror' = [mirror EXCEPT ![p.of] = row] /\ UNCHANGED shop
      /\ sound' = (IF Mirror!Right(p) THEN sound \cup {p.of} ELSE sound \ {p.of})
      /\ transit' = transit \ {p}
  BY DEF Mirror!Upsert
<1>2. p \in Payloads /\ p.of \in Things /\ p.rev \in Nat /\ p.rev > 0
  BY DEF MirrorInv, MirrorTypeOK, PayloadsWereTrue, Payloads
<1>3. MirrorTypeOK'
  BY <1>1, <1>2 DEF MirrorInv, MirrorTypeOK
<1>4. ShopIsOrdered' /\ PayloadsWereTrue'
  BY <1>1 DEF MirrorInv, ShopIsOrdered, PayloadsWereTrue
<1>5. \A y \in Things : mirror[y].rev > 0 => mirror'[y].rev > 0
  BY <1>1, <1>2 DEF MirrorInv, MirrorTypeOK
<1>6. RefsAreThere'
  <2>1. \A y \in row.refs : y \in Things /\ y \in Mirror!Refers(p.of) /\ mirror[y].rev > 0
    BY <1>2 DEF MirrorInv, RefsAreThere, Mirror!Resolved, Mirror!Stored, MirrorRows
  <2>2. \A x \in Things : mirror'[x].refs = IF x = p.of THEN row.refs ELSE mirror[x].refs
    BY <1>1 DEF MirrorInv, MirrorTypeOK
  <2>3. \A x \in Things : \A y \in mirror[x].refs :
          y \in Things /\ y \in Mirror!Refers(x) /\ mirror[y].rev > 0
    BY DEF MirrorInv, MirrorTypeOK, RefsAreThere, MirrorRows
  <2> QED
    BY <1>5, <2>1, <2>2, <2>3 DEF RefsAreThere
<1>7. ASSUME NEW x \in sound', x # p.of PROVE Exact(x)'
  <2>1. x \in sound /\ x \in Things /\ mirror'[x] = mirror[x]
    BY <1>1, <1>7 DEF MirrorInv, MirrorTypeOK
  <2> QED
    BY <1>1, <2>1 DEF MirrorInv, Exact, Mirror!Stored, Mirror!There
<1>8. ASSUME p.of \in sound' PROVE Exact(p.of)'
  <2>1. Mirror!Right(p) /\ mirror'[p.of] = row
    BY <1>1, <1>2, <1>8 DEF MirrorInv, MirrorTypeOK
  <2>2. p = Mirror!Payload(p.of)
        /\ \A y \in Mirror!Refers(p.of) \cap Things : Mirror!There(y) => Mirror!Stored(y)
    BY <2>1 DEF Mirror!Right
  <2>3. p.rev = shop[p.of].rev /\ shop[p.of].gone = p.gone
    BY <1>2, <2>2, PayloadOf DEF MirrorInv
  <2>4. Mirror!There(p.of)' /\ Mirror!Stored(p.of)'
    BY <1>1, <1>2, <2>1, <2>3 DEF Mirror!There, Mirror!Stored
  <2>5. \A y \in Mirror!Refers(p.of) \cap Things : Mirror!There(y)' => y \in row.refs
    BY <1>1, <2>1, <2>2 DEF Mirror!There, Mirror!Resolved
  <2>6. row.rev = p.rev /\ row.pieces = shop[p.of].pieces
    BY <2>1
  <2> QED
    BY <1>1, <2>1, <2>3, <2>4, <2>5, <2>6 DEF Exact
<1> QED
  BY <1>3, <1>4, <1>6, <1>7, <1>8 DEF MirrorInv

LEMMA WritesKeep ==
  ASSUME MirrorInv, NEW p \in transit,
         \/ Mirror!WriteComposed(p) \/ Mirror!WriteCheckout(p) \/ Mirror!WritePlain(p)
         \/ Mirror!WriteDependent(p)
  PROVE  MirrorInv'
<1>1. p \in Payloads /\ p.of \in Things /\ p.rev \in Nat /\ p.rev > 0 /\ p.pieces \in SUBSET Pieces
  BY DEF MirrorInv, MirrorTypeOK, PayloadsWereTrue, Payloads
<1>2. mirror[p.of] \in MirrorRows
  BY <1>1 DEF MirrorInv, MirrorTypeOK
<1>3. Mirror!Resolved(p.of) \subseteq Things
  BY DEF Mirror!Resolved
<1>4. ASSUME Mirror!Right(p)
      PROVE  /\ p.pieces = shop[p.of].pieces /\ shop[p.of].rev > 0 /\ shop[p.of].gone = p.gone
             /\ (p.pieces = {} <=> p.of \notin Mirror!Composed)
  <2>1. p = Mirror!Payload(p.of)
    BY <1>4 DEF Mirror!Right
  <2>2. p.pieces = shop[p.of].pieces /\ p.rev = shop[p.of].rev /\ shop[p.of].gone = p.gone
    BY <1>1, <2>1, PayloadOf DEF MirrorInv
  <2> QED
    BY <1>1, <2>2 DEF MirrorInv, ShopIsOrdered
<1>5. CASE Mirror!WriteComposed(p)
  <2> DEFINE row == [rev |-> p.rev, pieces |-> Mirror!PiecesOf(p), refs |-> Mirror!Resolved(p.of)]
  <2>1. p.of \in Mirror!Composed /\ Mirror!Upsert(p, row)
    BY <1>5 DEF Mirror!WriteComposed
  <2>2. Mirror!PiecesOf(p) \in SUBSET Pieces
    BY <1>1, <1>2 DEF Mirror!PiecesOf, MirrorRows
  <2>3. /\ row \in MirrorRows /\ row.rev = p.rev /\ row.pieces = Mirror!PiecesOf(p)
        /\ row.refs = Mirror!Resolved(p.of)
    BY <1>1, <1>3, <2>2 DEF MirrorRows
  <2>4. Mirror!Right(p) => Mirror!PiecesOf(p) = shop[p.of].pieces
    BY <1>4, <2>1 DEF Mirror!PiecesOf
  <2> HIDE DEF row
  <2> QED
    BY <2>1, <2>3, <2>4, RowWritten
<1>6. CASE Mirror!WriteCheckout(p)
  <2> DEFINE row == [rev |-> p.rev, pieces |-> {}, refs |-> Mirror!Resolved(p.of)]
  <2>1. p.of = "checkout" /\ Mirror!Upsert(p, row)
    BY <1>6 DEF Mirror!WriteCheckout
  <2>2. row \in MirrorRows /\ row.rev = p.rev /\ row.pieces = {} /\ row.refs = Mirror!Resolved(p.of)
    BY <1>1, <1>3 DEF MirrorRows
  <2>3. Mirror!Right(p) => shop[p.of].pieces = {}
    BY <1>4, <2>1 DEF Mirror!Composed
  <2> HIDE DEF row
  <2> QED
    BY <2>1, <2>2, <2>3, RowWritten
<1>7. CASE Mirror!WritePlain(p)
  <2> DEFINE row == [rev |-> p.rev, pieces |-> {}, refs |-> {}]
  <2>1. p.of \in {"customer", "location", "collection", "rule"} /\ Mirror!Upsert(p, row)
    BY <1>7 DEF Mirror!WritePlain
  <2>2. row \in MirrorRows /\ row.rev = p.rev /\ row.pieces = {} /\ row.refs = {}
    BY <1>1 DEF MirrorRows
  <2>3. Mirror!Resolved(p.of) = {}
    BY <2>1, Families DEF Mirror!Resolved
  <2>4. Mirror!Right(p) => shop[p.of].pieces = {}
    BY <1>4, <2>1 DEF Mirror!Composed
  <2> HIDE DEF row
  <2> QED
    BY <2>1, <2>2, <2>3, <2>4, RowWritten
<1>8. CASE Mirror!WriteDependent(p)
  <2>1. p.of \in Mirror!Dependent /\ p.of \notin Mirror!Composed
    BY <1>8 DEF Mirror!WriteDependent, Mirror!Dependent, Mirror!Composed
  <2>2. CASE Mirror!Resolved(p.of) = {}
    <3>1. Mirror!Upsert(p, mirror[p.of]) /\ ~p.gone
      BY <1>8, <2>2 DEF Mirror!WriteDependent, Mirror!Upsert
    <3>2. PICK y \in Mirror!Refers(p.of) : y \in Things
      BY <1>1, <2>1, MirrorAssumption DEF Mirror!Dependent, Mirror!Refers
    <3>3. Mirror!There(y) => ~Mirror!Right(p)
      BY <2>2, <3>2 DEF Mirror!Right, Mirror!Resolved
    <3>4. Mirror!Right(p) => Mirror!There(y)
      BY <1>1, <1>4, <2>1, <3>1, <3>2 DEF MirrorInv, MirrorTypeOK, ShopIsOrdered, Mirror!There
    <3>5. ~Mirror!Right(p)
      BY <3>3, <3>4
    <3>6. mirror[p.of].refs \subseteq mirror[p.of].refs \cup Mirror!Resolved(p.of)
      OBVIOUS
    <3> QED
      BY <1>2, <3>1, <3>5, <3>6, RowWritten
  <2>3. CASE Mirror!Resolved(p.of) # {}
    <3> DEFINE row == [rev |-> p.rev, pieces |-> {}, refs |-> Mirror!Resolved(p.of)]
    <3>1. Mirror!Upsert(p, row)
      BY <1>8, <2>3 DEF Mirror!WriteDependent
    <3>2. row \in MirrorRows /\ row.rev = p.rev /\ row.pieces = {} /\ row.refs = Mirror!Resolved(p.of)
      BY <1>1, <1>3 DEF MirrorRows
    <3>3. Mirror!Right(p) => shop[p.of].pieces = {}
      BY <1>4, <2>1
    <3> HIDE DEF row
    <3> QED
      BY <3>1, <3>2, <3>3, RowWritten
  <2> QED
    BY <2>2, <2>3
<1> QED
  BY <1>5, <1>6, <1>7, <1>8

LEMMA DeletionKeeps ==
  ASSUME MirrorInv, NEW p \in transit, Mirror!Delete(p)
  PROVE  MirrorInv'
<1> DEFINE lost == {p.of} \cup {y \in Mirror!Dependent \cap Things : p.of \in mirror[y].refs}
<1>1. /\ p.gone /\ transit' = transit \ {p} /\ UNCHANGED shop /\ sound' = sound \cup {p.of}
      /\ mirror' = [y \in Things |-> IF y \in lost THEN Mirror!Absent
                                     ELSE Mirror!WithoutRef(mirror[y], p.of)]
  BY DEF Mirror!Delete
<1>2. p.of \in Things /\ shop[p.of].gone /\ shop[p.of] \in [rev : Nat, gone : BOOLEAN, pieces : SUBSET Pieces]
  BY <1>1 DEF MirrorInv, MirrorTypeOK, PayloadsWereTrue, Payloads
<1>3. Mirror!Absent \in MirrorRows /\ Mirror!Absent.refs = {} /\ Mirror!Absent.rev = 0
  BY DEF Mirror!Absent, MirrorRows
<1>4. \A y \in Things : LET row == Mirror!WithoutRef(mirror[y], p.of)
                        IN /\ row \in MirrorRows /\ row.rev = mirror[y].rev
                           /\ row.pieces = mirror[y].pieces /\ row.refs = mirror[y].refs \ {p.of}
  BY DEF MirrorInv, MirrorTypeOK, MirrorRows, Mirror!WithoutRef
<1>5. \A y \in lost : y = p.of \/ (y \in Mirror!Dependent /\ y \in Things /\ p.of \in mirror[y].refs)
  OBVIOUS
<1>6. p.of \in lost /\ \A y \in Mirror!Dependent \cap Things : p.of \in mirror[y].refs => y \in lost
  OBVIOUS
<1> HIDE DEF lost
<1>7. \A y \in Things :
        /\ y \in lost => mirror'[y].rev = 0 /\ mirror'[y].refs = {}
        /\ y \notin lost => /\ mirror'[y].rev = mirror[y].rev /\ mirror'[y].pieces = mirror[y].pieces
                            /\ mirror'[y].refs = mirror[y].refs \ {p.of}
  BY <1>1, <1>3, <1>4
<1>8. MirrorTypeOK'
  <2>1. mirror' \in [Things -> MirrorRows]
    BY <1>1, <1>3, <1>4
  <2> QED
    BY <1>1, <1>2, <2>1 DEF MirrorInv, MirrorTypeOK
<1>9. ShopIsOrdered' /\ PayloadsWereTrue'
  BY <1>1 DEF MirrorInv, ShopIsOrdered, PayloadsWereTrue
<1>10. RefsAreThere'
  <2>1. ASSUME NEW x \in Things, NEW y \in mirror'[x].refs
        PROVE  y \in Mirror!Refers(x) /\ mirror'[y].rev > 0
    <3>1. x \notin lost /\ y \in mirror[x].refs /\ y # p.of
      BY <1>7, <2>1
    <3>2. y \in Mirror!Refers(x) /\ mirror[y].rev > 0 /\ y \in Things
      BY <3>1 DEF MirrorInv, MirrorTypeOK, RefsAreThere, MirrorRows
    <3>3. y \notin lost
      BY <1>5, <3>1, <3>2, Families
    <3> QED
      BY <1>7, <3>2, <3>3
  <2> QED
    BY <2>1 DEF RefsAreThere
<1>11. ASSUME NEW x \in sound' PROVE Exact(x)'
  <2>1. x \in Things
    BY <1>1, <1>2 DEF MirrorInv, MirrorTypeOK
  <2>2. CASE x \in lost
    <3>1. shop[x].gone
      BY <1>2, <1>5, <2>1, <2>2 DEF MirrorInv, RefsAreThere, ShopIsOrdered
    <3>2. ~Mirror!There(x)' /\ ~Mirror!Stored(x)'
      BY <1>1, <1>7, <2>1, <2>2, <3>1 DEF Mirror!There, Mirror!Stored
    <3> QED
      BY <3>2 DEF Exact
  <2>3. CASE x \notin lost
    <3>1. x \in sound /\ Exact(x)
      BY <1>1, <1>6, <2>3 DEF MirrorInv
    <3>2. Mirror!Stored(x)' <=> Mirror!Stored(x)
      BY <1>7, <2>1, <2>3 DEF Mirror!Stored
    <3>3. \A y \in Things : (Mirror!There(y)' <=> Mirror!There(y)) /\ (Mirror!There(y) => y # p.of)
      BY <1>1, <1>2 DEF Mirror!There
    <3> QED
      BY <1>1, <1>7, <2>1, <2>3, <3>1, <3>2, <3>3 DEF Exact
  <2> QED
    BY <2>2, <2>3
<1> QED
  BY <1>8, <1>9, <1>10, <1>11 DEF MirrorInv

\* An object after an edit.
Objects == [rev : Nat, gone : BOOLEAN, pieces : SUBSET Pieces]

LEMMA Edited ==
  ASSUME NEW object \in Objects, NEW pieces \in SUBSET Pieces
  PROVE  LET row == [object EXCEPT !.rev = @ + 1, !.pieces = pieces]
         IN /\ row \in Objects /\ row.rev = object.rev + 1 /\ row.pieces = pieces
            /\ row.gone = object.gone
<1>1. object.rev + 1 \in Nat
  BY DEF Objects
<1> QED
  BY <1>1 DEF Objects

LEMMA ShopKeeps ==
  ASSUME MirrorInv, NEW x \in Things,
         Mirror!Remove(x) \/ Mirror!Fetch(x) \/ \E pieces \in SUBSET Pieces : Mirror!Change(x, pieces)
  PROVE  MirrorInv'
<1>1. CASE Mirror!Fetch(x)
  <2>1. transit' = transit \cup {Mirror!Payload(x)} /\ UNCHANGED <<shop, mirror, sound>> /\ Mirror!There(x)
    BY <1>1 DEF Mirror!Fetch
  <2>2. MirrorTypeOK' /\ PayloadsWereTrue'
    BY <2>1, PayloadOf DEF MirrorInv, MirrorTypeOK, PayloadsWereTrue, Mirror!There
  <2>3. ShopIsOrdered' /\ RefsAreThere' /\ \A y \in sound' : Exact(y)'
    BY <2>1 DEF MirrorInv, ShopIsOrdered, RefsAreThere, Exact, Mirror!There, Mirror!Stored
  <2> QED
    BY <2>2, <2>3 DEF MirrorInv
<1>2. ASSUME NEW pieces \in SUBSET Pieces, Mirror!Change(x, pieces) PROVE MirrorInv'
  <2>1. /\ UNCHANGED mirror /\ ~shop[x].gone /\ (pieces = {} <=> x \notin Mirror!Composed)
        /\ \A y \in Mirror!Refers(x) \cap Things :
             IF x \in Mirror!Dependent THEN Mirror!There(y) ELSE shop[y].rev > 0
        /\ shop' = [shop EXCEPT ![x].rev = @ + 1, ![x].pieces = pieces]
        /\ sound' = sound \ {x} /\ transit' \subseteq transit \cup {Mirror!Payload(x)'}
    BY <1>2 DEF Mirror!Change, Mirror!Edit
  <2>2. /\ shop'[x].rev = shop[x].rev + 1 /\ shop'[x].pieces = pieces /\ shop'[x].gone = shop[x].gone
        /\ \A y \in Things \ {x} : shop'[y] = shop[y]
        /\ shop' \in [Things -> [rev : Nat, gone : BOOLEAN, pieces : SUBSET Pieces]]
    <3> DEFINE row == [shop[x] EXCEPT !.rev = @ + 1, !.pieces = pieces]
    <3>1. shop \in [Things -> Objects]
      BY DEF MirrorInv, MirrorTypeOK, Objects
    <3>2. /\ row \in Objects /\ row.rev = shop[x].rev + 1 /\ row.pieces = pieces
          /\ row.gone = shop[x].gone
      BY <3>1, Edited
    <3>3. shop' = [shop EXCEPT ![x] = row]
      BY <2>1
    <3> HIDE DEF row
    <3> QED
      BY <3>1, <3>2, <3>3 DEF Objects
  <2>3. MirrorTypeOK'
    <3>1. Mirror!Payload(x)' \in Payloads
      BY <2>2 DEF Mirror!Payload, Payloads
    <3> QED
      BY <2>1, <2>2, <3>1 DEF MirrorInv, MirrorTypeOK
  <2>4. shop[x].rev \in Nat /\ \A y \in Things : shop[y].rev > 0 => shop'[y].rev > 0
    BY <2>2 DEF MirrorInv, MirrorTypeOK
  <2>5. ShopIsOrdered'
    <3>1. \A y \in Mirror!Refers(x) \cap Things : shop[y].rev > 0
      BY <2>1 DEF Mirror!There
    <3>2. \A z \in Things : shop'[z].rev > 0 =>
            \A y \in Mirror!Refers(z) \cap Things : shop'[y].rev > 0
      BY <2>2, <2>4, <3>1 DEF MirrorInv, ShopIsOrdered
    <3>3. \A z \in Things : shop'[z].gone = shop[z].gone
      BY <2>2
    <3>4. \A z \in Things :
            shop'[z].rev > 0 => (shop'[z].pieces = {} <=> z \notin Mirror!Composed)
      BY <2>1, <2>2 DEF MirrorInv, ShopIsOrdered
    <3> QED
      BY <3>2, <3>3, <3>4 DEF MirrorInv, ShopIsOrdered
  <2>6. PayloadsWereTrue'
    <3>1. \A p \in transit : p.rev > 0 /\ (p.gone => shop'[p.of].gone)
      BY <2>2 DEF MirrorInv, MirrorTypeOK, PayloadsWereTrue, Payloads
    <3>2. Mirror!Payload(x)'.rev > 0 /\ ~Mirror!Payload(x)'.gone
      BY <2>1, <2>2, <2>3, <2>4, PayloadAfter
    <3> QED
      BY <2>1, <3>1, <3>2 DEF PayloadsWereTrue
  <2>7. RefsAreThere'
    BY <2>1 DEF MirrorInv, RefsAreThere
  <2>8. ASSUME NEW y \in sound' PROVE Exact(y)'
    <3>1. y \in sound /\ y # x /\ y \in Things /\ shop'[y] = shop[y] /\ Exact(y)
      BY <2>1, <2>2, <2>8 DEF MirrorInv, MirrorTypeOK
    <3>2. ASSUME NEW z \in Mirror!Refers(y) \cap Things, Mirror!There(y), Mirror!There(z)'
          PROVE  Mirror!There(z)
      <4>1. shop[z].rev > 0
        BY <3>1, <3>2 DEF MirrorInv, ShopIsOrdered, Mirror!There
      <4>2. ~shop[z].gone
        BY <2>2, <3>2 DEF Mirror!There
      <4> QED
        BY <4>1, <4>2 DEF Mirror!There
    <3>3. (Mirror!There(y)' <=> Mirror!There(y)) /\ (Mirror!Stored(y)' <=> Mirror!Stored(y))
      BY <2>1, <3>1 DEF Mirror!There, Mirror!Stored
    <3> QED
      BY <2>1, <3>1, <3>2, <3>3 DEF Exact
  <2> QED
    BY <2>3, <2>5, <2>6, <2>7, <2>8 DEF MirrorInv
<1>3. CASE Mirror!Remove(x)
  <2> DEFINE lost == {x} \cup {y \in Mirror!Dependent \cap Things : x \in Mirror!Refers(y)}
  <2>1. /\ UNCHANGED mirror /\ Mirror!There(x) /\ transit' = transit \cup {Mirror!Payload(x)'}
        /\ sound' = sound \ lost
        /\ shop' = [y \in Things |-> IF y \in lost THEN [shop[y] EXCEPT !.gone = TRUE] ELSE shop[y]]
    BY <1>3 DEF Mirror!Remove, Mirror!Edit
  <2>2. x \in lost /\ \A y \in Mirror!Dependent \cap Things : x \in Mirror!Refers(y) => y \in lost
    OBVIOUS
  <2>3. \A y \in lost : y = x \/ y \in Mirror!Dependent
    OBVIOUS
  <2> HIDE DEF lost
  <2>4. \A y \in Things : /\ shop'[y].rev = shop[y].rev /\ shop'[y].pieces = shop[y].pieces
                          /\ (shop[y].gone \/ y \in lost => shop'[y].gone)
                          /\ (shop'[y].gone => shop[y].gone \/ y \in lost)
    BY <2>1 DEF MirrorInv, MirrorTypeOK
  <2>5. MirrorTypeOK'
    <3>1. shop' \in [Things -> [rev : Nat, gone : BOOLEAN, pieces : SUBSET Pieces]]
      BY <2>1 DEF MirrorInv, MirrorTypeOK
    <3>2. Mirror!Payload(x)' \in Payloads
      BY <3>1 DEF Mirror!Payload, Payloads
    <3> QED
      BY <2>1, <3>1, <3>2 DEF MirrorInv, MirrorTypeOK
  <2>6. ShopIsOrdered'
    <3>1. ASSUME NEW z \in Things, z \in Mirror!Dependent, NEW y \in Mirror!Refers(z) \cap Things, shop'[y].gone
          PROVE  shop'[z].gone
      <4>1. y \notin Mirror!Dependent
        BY <3>1, Families
      <4>2. CASE shop[y].gone
        BY <2>4, <3>1, <4>2 DEF MirrorInv, ShopIsOrdered
      <4>3. CASE y = x
        BY <2>2, <2>4, <3>1, <4>3
      <4> QED
        BY <2>3, <2>4, <3>1, <4>1, <4>2, <4>3
    <3> QED
      BY <2>4, <3>1 DEF MirrorInv, ShopIsOrdered
  <2>7. PayloadsWereTrue'
    <3>1. \A p \in transit : p.rev > 0 /\ (p.gone => shop'[p.of].gone)
      BY <2>4 DEF MirrorInv, MirrorTypeOK, PayloadsWereTrue, Payloads
    <3>2. Mirror!Payload(x)'.rev > 0 /\ Mirror!Payload(x)'.of = x /\ shop'[x].gone
      <4>1. shop[x].rev > 0 /\ shop'[x].rev = shop[x].rev /\ shop'[x].gone
        BY <2>1, <2>2, <2>4 DEF Mirror!There
      <4>2. Mirror!Payload(x)'.of = x /\ Mirror!Payload(x)'.rev = shop'[x].rev
        BY <2>5, PayloadAfter
      <4> QED
        BY <4>1, <4>2
    <3> QED
      BY <2>1, <3>1, <3>2 DEF PayloadsWereTrue
  <2>8. RefsAreThere'
    BY <2>1 DEF MirrorInv, RefsAreThere
  <2>9. ASSUME NEW y \in sound' PROVE Exact(y)'
    <3>1. y \in sound /\ y \notin lost /\ y \in Things /\ Exact(y)
      BY <2>1, <2>9 DEF MirrorInv, MirrorTypeOK
    <3>2. (Mirror!There(y)' <=> Mirror!There(y)) /\ (Mirror!Stored(y)' <=> Mirror!Stored(y))
      BY <2>1, <2>4, <3>1 DEF Mirror!There, Mirror!Stored
    <3>3. \A z \in Things : Mirror!There(z)' => Mirror!There(z)
      BY <2>4 DEF Mirror!There
    <3> QED
      BY <2>1, <2>4, <3>1, <3>2, <3>3 DEF Exact
  <2> QED
    BY <2>5, <2>6, <2>7, <2>8, <2>9 DEF MirrorInv
<1> QED
  BY <1>1, <1>2, <1>3

LEMMA MirrorKept == ASSUME MirrorInv, [Mirror!MirrorNext]_mirrorVars PROVE MirrorInv'
<1>1. ASSUME NEW p \in transit, Mirror!Lose(p) PROVE MirrorInv'
  BY <1>1 DEF Mirror!Lose, MirrorInv, MirrorTypeOK, ShopIsOrdered, PayloadsWereTrue, RefsAreThere,
              Exact, Mirror!There, Mirror!Stored
<1>2. ASSUME UNCHANGED mirrorVars PROVE MirrorInv'
  BY <1>2 DEF mirrorVars, MirrorInv, MirrorTypeOK, ShopIsOrdered, PayloadsWereTrue, RefsAreThere,
              Exact, Mirror!There, Mirror!Stored
<1> QED
  BY <1>1, <1>2, ShopKeeps, WritesKeep, DeletionKeeps DEF Mirror!MirrorNext

\* A row last written with the latest state of its object mirrors it, whatever older
\* payloads and deletions came before and whatever became of its neighbours: it has
\* its variants or items, refers to all that is there and to nothing that is not.
THEOREM ShopIsMirrored == Spec => []MirrorsShop
<1> DEFINE Inv == part = "mirror" => MirrorInv
<1>1. Init => Inv
  BY MirrorInit
<1>2. Inv /\ [Next]_platformVars => Inv'
  BY PartStays, MirrorSteps, MirrorKept
<1>3. MirrorInv => Mirror!MirrorsShop
  <2> SUFFICES ASSUME MirrorInv PROVE Mirror!MirrorsShop
    OBVIOUS
  <2>1. \A x \in Things : \A y \in mirror[x].refs : Mirror!Stored(y)
    BY DEF MirrorInv, RefsAreThere, Mirror!Stored
  <2>2. \A x : Mirror!Stored(x) \in BOOLEAN /\ Mirror!There(x) \in BOOLEAN
    BY DEF Mirror!Stored, Mirror!There
  <2> QED
    BY <2>1, <2>2 DEF MirrorInv, Exact, Mirror!MirrorsShop
<1>4. Inv => MirrorsShop
  BY <1>3 DEF MirrorsShop
<1> QED
  BY <1>1, <1>2, <1>4, PTL DEF Spec, platformVars

-----------------------------------------------------------------------------
(* What surrounds the sending of a campaign.                                *)

Campaigns == [a : Texts \cup {0}, b : Texts \cup {0}, split : Nat, winner : {"none", "A", "B"},
              status : {"DRAFT", "CANCELLED", "SENDING", "SENT"}]
DraftRequests == [at : {"idle", "second", "count", "insert"}, a : Texts \cup {0}, b : Texts \cup {0}]

CampaignTypeOK ==
  /\ template \in Texts \cup {0}
  /\ drafts \in Seq(Campaigns)
  /\ request \in [Members -> DraftRequests]
  /\ chosen \in [Recipients -> {"none", "A", "B"}]
  /\ fate \in [Recipients -> {"NONE", "PENDING", "SENT", "FAILED", "SKIPPED"}]
  /\ got \in [Recipients -> SUBSET (Texts \cup {0})]
  /\ opened \subseteq Recipients
  /\ overlaps \in Nat /\ losses \in Nat

Dispatched == 1 \in DOMAIN drafts /\ drafts[1].status \in {"SENDING", "SENT"}

\* Once it goes out, a campaign has its texts and its variants for good.
Texted ==
  \A r \in Recipients :
    /\ got[r] \subseteq {Campaign!TextFor(r)}
    /\ got[r] # {} \/ fate[r] # "NONE" \/ chosen[r] # "none" => Dispatched
    /\ chosen[r] = "B" => drafts[1].b # 0

\* A campaign without a variant B splits nobody off, and B does not win it.
WithoutB == \A i \in DOMAIN drafts :
  drafts[i].b = 0 => drafts[i].split = 0 /\ drafts[i].winner # "B"

\* Recipients with a message and no record of it.
Unrecorded == {r \in Recipients : got[r] # {} /\ fate[r] # "SENT"}

Recorded ==
  /\ \A r \in opened : got[r] # {}
  /\ Cardinality(Unrecorded) <= losses

\* Whoever is about to insert has counted, or others have inserted since he did.
Limited ==
  /\ Cardinality(Campaign!Active) <= MaxActive + overlaps
  /\ (\E m \in Members : request[m].at = "insert") => Cardinality(Campaign!Active) < MaxActive + overlaps

CampaignInv == CampaignTypeOK /\ Texted /\ WithoutB /\ Recorded /\ Limited

LEMMA CampaignSteps ==
  ASSUME part = "campaign", [Next]_platformVars
  PROVE  [Campaign!CampaignNext]_campaignVars
BY DEF Next, Only, platformVars

LEMMA CampaignCardinality == \A S : Campaign!Cardinality(S) = Cardinality(S)
BY DEF Campaign!Cardinality, Cardinality

LEMMA UnrecordedFinite == Cardinality(Unrecorded) \in Nat /\ IsFiniteSet(Unrecorded)
BY CampaignAssumption, FS_Subset, FS_CardinalityType DEF Unrecorded

LEMMA ActiveFinite ==
  ASSUME drafts \in Seq(Campaigns)
  PROVE  IsFiniteSet(Campaign!Active) /\ Cardinality(Campaign!Active) \in Nat
<1>1. DOMAIN drafts = 1..Len(drafts) /\ Len(drafts) \in Nat
  OBVIOUS
<1>2. IsFiniteSet(1..Len(drafts))
  BY <1>1, FS_Interval
<1> QED
  BY <1>1, <1>2, FS_Subset, FS_CardinalityType DEF Campaign!Active

LEMMA CampaignInit == Init /\ part = "campaign" => CampaignInv
<1> SUFFICES ASSUME Campaign!Init PROVE CampaignInv
  BY DEF Init
<1> USE DEF Campaign!Init
<1>1. drafts = <<>> /\ drafts \in Seq(Campaigns) /\ DOMAIN drafts = {}
  BY EmptySeq
<1>2. Campaign!NoRequest \in DraftRequests /\ Campaign!NoRequest.at = "idle"
  BY DEF Campaign!NoRequest, DraftRequests
<1>3. CampaignTypeOK
  BY <1>1, <1>2 DEF CampaignTypeOK
<1>4. Texted /\ WithoutB
  BY <1>1 DEF Texted, WithoutB
<1>5. Unrecorded = {} /\ Campaign!Active = {}
  BY <1>1 DEF Unrecorded, Campaign!Active
<1>6. Cardinality(Unrecorded) = 0 /\ Cardinality(Campaign!Active) = 0
  BY <1>5, FS_EmptySet
<1>7. \A m \in Members : request[m].at = "idle"
  BY <1>2
<1>8. Recorded
  BY <1>6 DEF Recorded
<1>9. Limited
  BY <1>6, <1>7, CampaignAssumption DEF Limited
<1> QED
  BY <1>3, <1>4, <1>8, <1>9 DEF CampaignInv

\* A step that leaves the campaigns and what is sent of them alone.
LEMMA DeskMoves ==
  ASSUME CampaignInv, UNCHANGED <<drafts, chosen, fate, got, losses, overlaps>>,
         template' \in Texts \cup {0}, request' \in [Members -> DraftRequests],
         opened' \subseteq Recipients, \A r \in opened' : got[r] # {},
         \A m \in Members : request'[m].at = "insert" =>
           request[m].at = "insert" \/ Cardinality(Campaign!Active) < MaxActive
  PROVE  CampaignInv'
<1>1. CampaignTypeOK'
  BY DEF CampaignInv, CampaignTypeOK
<1>2. Texted' /\ WithoutB'
  BY DEF CampaignInv, Texted, WithoutB, Dispatched, Campaign!TextFor
<1>3. Unrecorded' = Unrecorded /\ Campaign!Active' = Campaign!Active
  BY DEF Unrecorded, Campaign!Active
<1>4. Recorded'
  BY <1>3 DEF CampaignInv, Recorded
<1>5. Limited'
  <2>1. Cardinality(Campaign!Active) \in Nat /\ MaxActive \in Nat /\ overlaps \in Nat
    BY ActiveFinite, CampaignAssumption DEF CampaignInv, CampaignTypeOK
  <2>2. (\E m \in Members : request'[m].at = "insert") => Cardinality(Campaign!Active) < MaxActive + overlaps
    BY <2>1 DEF CampaignInv, Limited
  <2> QED
    BY <1>3, <2>2 DEF CampaignInv, Limited
<1> QED
  BY <1>1, <1>2, <1>4, <1>5 DEF CampaignInv

\* A campaign keeps its texts while its status changes.
LEMMA DraftMoves ==
  ASSUME CampaignInv, NEW i \in DOMAIN drafts, NEW draft \in Campaigns,
         drafts' = [drafts EXCEPT ![i] = draft],
         draft.a = drafts[i].a, draft.b = drafts[i].b, draft.split = drafts[i].split,
         draft.winner = "B" => draft.b # 0,
         drafts[i].status \in {"SENDING", "SENT"} => draft.status \in {"SENDING", "SENT"},
         draft.status # "CANCELLED" => drafts[i].status # "CANCELLED",
         UNCHANGED <<template, request, got, losses, overlaps, opened>>
  PROVE  /\ DOMAIN drafts' = DOMAIN drafts /\ drafts'[i] = draft
         /\ \A j \in DOMAIN drafts : j # i => drafts'[j] = drafts[j]
         /\ drafts' \in Seq(Campaigns) /\ WithoutB' /\ Limited'
         /\ UNCHANGED <<chosen, fate>> => CampaignInv'
<1>1. /\ drafts' \in Seq(Campaigns) /\ DOMAIN drafts' = DOMAIN drafts /\ drafts'[i] = draft
      /\ \A j \in DOMAIN drafts : j # i => drafts'[j] = drafts[j]
  <2>1. drafts \in Seq(Campaigns) /\ DOMAIN drafts = 1..Len(drafts)
    BY DEF CampaignInv, CampaignTypeOK
  <2> QED
    BY <2>1, ExceptSeq
<1>2. WithoutB'
  BY <1>1 DEF CampaignInv, WithoutB
<1>3. Campaign!Active' \subseteq Campaign!Active
  BY <1>1 DEF Campaign!Active
<1>4. IsFiniteSet(Campaign!Active) /\ Cardinality(Campaign!Active) \in Nat
      /\ MaxActive \in Nat /\ overlaps \in Nat
  BY ActiveFinite, CampaignAssumption DEF CampaignInv, CampaignTypeOK
<1>5. Cardinality(Campaign!Active') <= Cardinality(Campaign!Active) /\ Cardinality(Campaign!Active') \in Nat
  BY <1>3, <1>4, FS_Subset, FS_CardinalityType
<1>6. Limited'
  <2>1. Cardinality(Campaign!Active) <= MaxActive + overlaps
    BY DEF CampaignInv, Limited
  <2>2. Cardinality(Campaign!Active') <= MaxActive + overlaps
    BY <1>4, <1>5, <2>1
  <2>3. (\E m \in Members : request[m].at = "insert") => Cardinality(Campaign!Active') < MaxActive + overlaps
    BY <1>4, <1>5 DEF CampaignInv, Limited
  <2> QED
    BY <2>2, <2>3 DEF Limited
<1>7. ASSUME UNCHANGED <<chosen, fate>> PROVE CampaignInv'
  <2>1. CampaignTypeOK'
    BY <1>1, <1>7 DEF CampaignInv, CampaignTypeOK
  <2>2. Recorded'
    <3>1. Unrecorded' = Unrecorded
      BY <1>7 DEF Unrecorded
    <3> QED
      BY <3>1 DEF CampaignInv, Recorded
  <2>3. Dispatched => Dispatched' /\ drafts'[1].a = drafts[1].a /\ drafts'[1].b = drafts[1].b
    BY <1>1 DEF Dispatched
  <2>4. Texted'
    BY <1>7, <2>3 DEF CampaignInv, Texted, Campaign!TextFor
  <2> QED
    BY <1>2, <1>6, <2>1, <2>2, <2>4 DEF CampaignInv
<1> QED
  BY <1>1, <1>2, <1>6, <1>7

\* The template, the requests up to the insert, and the links.
LEMMA AroundKeeps ==
  ASSUME CampaignInv,
         \/ Campaign!DeleteTemplate
         \/ \E text \in Texts : Campaign!CreateTemplate(text) \/ Campaign!UpdateTemplate(text)
         \/ \E m \in Members : \/ \E text \in Texts \cup {0} : Campaign!Draft(m, text) \/ Campaign!Second(m, text)
                               \/ Campaign!Count(m)
         \/ \E r \in Recipients : Campaign!RecordOpen(r) \/ Campaign!RecordUnsubscribe(r) \/ Campaign!Suppress(r)
  PROVE  CampaignInv'
<1> USE DEF Campaign!sending, Campaign!links
<1>1. /\ template \in Texts \cup {0} /\ request \in [Members -> DraftRequests] /\ opened \subseteq Recipients
      /\ \A r \in opened : got[r] # {}
  BY DEF CampaignInv, CampaignTypeOK, Recorded
<1>2. Campaign!NoRequest \in DraftRequests /\ Campaign!NoRequest.at = "idle"
  BY DEF Campaign!NoRequest, DraftRequests
<1>3. ASSUME NEW m \in Members, NEW to \in DraftRequests, request' = [request EXCEPT ![m] = to],
             to.at = "insert" => Cardinality(Campaign!Active) < MaxActive,
             UNCHANGED <<template, drafts, Campaign!sending, Campaign!links, overlaps>>
      PROVE  CampaignInv'
  <2>1. request' \in [Members -> DraftRequests] /\ request'[m] = to /\ \A n \in Members \ {m} : request'[n] = request[n]
    BY <1>1, <1>3
  <2>2. \A n \in Members : request'[n].at = "insert" =>
          request[n].at = "insert" \/ Cardinality(Campaign!Active) < MaxActive
    BY <1>3, <2>1
  <2> QED
    BY <1>1, <1>3, <2>1, <2>2, DeskMoves
<1>4. ASSUME Campaign!DeleteTemplate \/ \E text \in Texts : Campaign!CreateTemplate(text) \/ Campaign!UpdateTemplate(text)
      PROVE  CampaignInv'
  <2>1. template' \in Texts \cup {0} /\ UNCHANGED <<drafts, request, Campaign!sending, Campaign!links, overlaps>>
    BY <1>4 DEF Campaign!DeleteTemplate, Campaign!CreateTemplate, Campaign!UpdateTemplate
  <2> QED
    BY <1>1, <2>1, DeskMoves
<1>5. ASSUME NEW m \in Members, NEW text \in Texts \cup {0}, Campaign!Draft(m, text) PROVE CampaignInv'
  <2> DEFINE to == [Campaign!NoRequest EXCEPT !.at = "second", !.a = text]
  <2>1. to \in DraftRequests /\ to.at = "second"
    BY <1>2 DEF DraftRequests
  <2>2. request' = [request EXCEPT ![m] = to]
        /\ UNCHANGED <<template, drafts, Campaign!sending, Campaign!links, overlaps>>
    BY <1>5 DEF Campaign!Draft
  <2> HIDE DEF to
  <2> QED
    BY <1>3, <2>1, <2>2
<1>6. ASSUME NEW m \in Members, NEW text \in Texts \cup {0}, Campaign!Second(m, text) PROVE CampaignInv'
  <2> DEFINE to == [request[m] EXCEPT !.at = "count", !.b = text]
  <2>1. to \in DraftRequests /\ to.at = "count"
    BY <1>1 DEF DraftRequests
  <2>2. request' = [request EXCEPT ![m] = to]
        /\ UNCHANGED <<template, drafts, Campaign!sending, Campaign!links, overlaps>>
    BY <1>6 DEF Campaign!Second
  <2> HIDE DEF to
  <2> QED
    BY <1>3, <2>1, <2>2
<1>7. ASSUME NEW m \in Members, Campaign!Count(m) PROVE CampaignInv'
  <2> DEFINE to == IF Campaign!Room THEN [request[m] EXCEPT !.at = "insert"] ELSE Campaign!NoRequest
  <2>1. to \in DraftRequests /\ (to.at = "insert" => Campaign!Room)
    BY <1>1, <1>2 DEF DraftRequests
  <2>2. request' = [request EXCEPT ![m] = to]
        /\ UNCHANGED <<template, drafts, Campaign!sending, Campaign!links, overlaps>>
    BY <1>7 DEF Campaign!Count, Campaign!Answered
  <2> HIDE DEF to
  <2> QED
    BY <1>3, <2>1, <2>2, CampaignCardinality DEF Campaign!Room
<1>8. ASSUME NEW r \in Recipients, Campaign!RecordOpen(r) \/ Campaign!RecordUnsubscribe(r) \/ Campaign!Suppress(r)
      PROVE  CampaignInv'
  <2>1. /\ UNCHANGED <<template, drafts, request, Campaign!sending, overlaps>>
        /\ opened' \subseteq opened \cup {r} /\ (opened' # opened => got[r] # {})
    BY <1>8 DEF Campaign!RecordOpen, Campaign!RecordUnsubscribe, Campaign!Suppress, Campaign!Linked
  <2>2. opened' \subseteq Recipients /\ \A q \in opened' : got[q] # {}
    BY <1>1, <2>1
  <2> QED
    BY <1>1, <2>1, <2>2, DeskMoves
<1> QED
  BY <1>4, <1>5, <1>6, <1>7, <1>8

LEMMA DraftInsertKeeps ==
  ASSUME CampaignInv, NEW m \in Members, NEW split \in {50}, Campaign!Insert(m, split)
  PROVE  CampaignInv'
<1> DEFINE draft == [a |-> request[m].a, b |-> request[m].b, status |-> "DRAFT",
                     split |-> IF request[m].b = 0 THEN 0 ELSE split, winner |-> "none"]
<1>1. /\ template \in Texts \cup {0} /\ request \in [Members -> DraftRequests] /\ drafts \in Seq(Campaigns)
      /\ overlaps \in Nat
  BY DEF CampaignInv, CampaignTypeOK
<1>2. draft \in Campaigns /\ draft.status = "DRAFT" /\ draft.winner = "none" /\ (draft.b = 0 => draft.split = 0)
  BY <1>1 DEF Campaigns, DraftRequests
<1>3. /\ drafts' = Append(drafts, draft) /\ request[m].at = "insert"
      /\ request' = [request EXCEPT ![m] = Campaign!NoRequest]
      /\ overlaps' = IF \E n \in Members \ {m} : request[n].at = "insert" THEN overlaps + 1 ELSE overlaps
      /\ UNCHANGED <<template, chosen, fate, got, losses, opened>>
  BY DEF Campaign!Insert, Campaign!Answered, Campaign!At, Campaign!sending, Campaign!links
<1> HIDE DEF draft
<1>4. /\ DOMAIN drafts = 1..Len(drafts) /\ Len(drafts) \in Nat /\ drafts' \in Seq(Campaigns)
      /\ DOMAIN drafts' = 1..(Len(drafts) + 1)
      /\ \A i \in DOMAIN drafts : drafts'[i] = drafts[i]
      /\ drafts'[Len(drafts) + 1] = draft
  BY <1>1, <1>2, <1>3, AppendProperties
<1>5. \A i \in DOMAIN drafts' : i \in DOMAIN drafts \/ i = Len(drafts) + 1
  BY <1>4
<1>6. \A i \in DOMAIN drafts : i \in DOMAIN drafts'
  BY <1>4
<1>7. Campaign!NoRequest \in DraftRequests /\ Campaign!NoRequest.at = "idle"
  BY DEF Campaign!NoRequest, DraftRequests
<1>8. request' \in [Members -> DraftRequests] /\ request'[m].at = "idle"
      /\ \A n \in Members \ {m} : request'[n] = request[n]
  BY <1>1, <1>3, <1>7
<1>9. CampaignTypeOK'
  BY <1>3, <1>4, <1>8 DEF CampaignInv, CampaignTypeOK
<1>10. WithoutB'
  BY <1>2, <1>4, <1>5 DEF CampaignInv, WithoutB
<1>11. Texted'
  <2>1. Dispatched => Dispatched' /\ drafts'[1] = drafts[1]
    BY <1>4, <1>6 DEF Dispatched
  <2> QED
    BY <1>3, <2>1 DEF CampaignInv, Texted, Campaign!TextFor
<1>12. Recorded'
  <2>1. Unrecorded' = Unrecorded
    BY <1>3 DEF Unrecorded
  <2> QED
    BY <1>3, <2>1 DEF CampaignInv, Recorded
<1>13. Limited'
  <2>1. Campaign!Active' = Campaign!Active \cup {Len(drafts) + 1} /\ Len(drafts) + 1 \notin Campaign!Active
    <3>1. Len(drafts) + 1 \in DOMAIN drafts' /\ Len(drafts) + 1 \notin DOMAIN drafts
      BY <1>4
    <3> QED
      BY <1>2, <1>4, <1>5, <1>6, <3>1 DEF Campaign!Active
  <2>2. IsFiniteSet(Campaign!Active) /\ Cardinality(Campaign!Active) \in Nat
    BY <1>1, ActiveFinite
  <2>3. Cardinality(Campaign!Active \cup {Len(drafts) + 1}) =
          IF Len(drafts) + 1 \in Campaign!Active THEN Cardinality(Campaign!Active)
          ELSE Cardinality(Campaign!Active) + 1
    BY <2>2, FS_AddElement
  <2>4. Cardinality(Campaign!Active') = Cardinality(Campaign!Active) + 1
    BY <2>1, <2>3
  <2>5. Cardinality(Campaign!Active) < MaxActive + overlaps /\ MaxActive \in Nat
    BY <1>3, CampaignAssumption DEF CampaignInv, Limited
  <2>6. (\E n \in Members : request'[n].at = "insert") => overlaps' = overlaps + 1
    BY <1>3, <1>8
  <2>7. overlaps' = overlaps \/ overlaps' = overlaps + 1
    BY <1>3
  <2> HIDE DEF Campaign!Active
  <2>8. Cardinality(Campaign!Active') <= MaxActive + overlaps'
    BY <1>1, <2>2, <2>4, <2>5, <2>7
  <2>9. (\E n \in Members : request'[n].at = "insert") => Cardinality(Campaign!Active') < MaxActive + overlaps'
    BY <1>1, <2>2, <2>4, <2>5, <2>6
  <2> QED
    BY <2>8, <2>9 DEF Limited
<1> QED
  BY <1>9, <1>10, <1>11, <1>12, <1>13 DEF CampaignInv

LEMMA StatusKeeps ==
  ASSUME CampaignInv,
         \/ Campaign!Complete
         \/ \E i \in DOMAIN drafts : Campaign!Cancel(i) \/ \E v \in {"A", "B"} : Campaign!DeclareWinner(i, v)
  PROVE  CampaignInv'
<1> USE DEF Campaign!sending, Campaign!links
<1>1. \A i \in DOMAIN drafts : drafts[i] \in Campaigns
  <2>1. drafts \in Seq(Campaigns) /\ DOMAIN drafts = 1..Len(drafts)
    BY DEF CampaignInv, CampaignTypeOK
  <2> QED
    BY <2>1, ElementOfSeq
<1>2. ASSUME NEW i \in DOMAIN drafts, NEW later \in {"CANCELLED", "SENT"},
             drafts' = [drafts EXCEPT ![i].status = later],
             UNCHANGED <<template, request, Campaign!sending, Campaign!links, overlaps>>,
             \/ drafts[i].status = "DRAFT" /\ later = "CANCELLED"
             \/ drafts[i].status = "SENDING" /\ later = "SENT"
      PROVE  CampaignInv'
  <2> DEFINE draft == [drafts[i] EXCEPT !.status = later]
  <2>1. draft \in Campaigns /\ draft.status = later
    BY <1>1 DEF Campaigns
  <2>2. draft.a = drafts[i].a /\ draft.b = drafts[i].b /\ draft.split = drafts[i].split
        /\ draft.winner = drafts[i].winner
    BY <1>1 DEF Campaigns
  <2>3. drafts' = [drafts EXCEPT ![i] = draft]
    BY <1>2
  <2> HIDE DEF draft
  <2>4. draft.winner = "B" => draft.b # 0
    BY <2>2 DEF CampaignInv, WithoutB
  <2> QED
    BY <1>2, <2>1, <2>2, <2>3, <2>4, DraftMoves
<1>3. ASSUME NEW i \in DOMAIN drafts, NEW v \in {"A", "B"}, Campaign!DeclareWinner(i, v) PROVE CampaignInv'
  <2> DEFINE draft == [drafts[i] EXCEPT !.winner = v]
  <2>1. draft \in Campaigns /\ draft.winner = v
    BY <1>1 DEF Campaigns
  <2>2. draft.a = drafts[i].a /\ draft.b = drafts[i].b /\ draft.split = drafts[i].split
        /\ draft.status = drafts[i].status
    BY <1>1 DEF Campaigns
  <2>3. drafts' = [drafts EXCEPT ![i] = draft] /\ (v = "B" => drafts[i].b # 0)
        /\ UNCHANGED <<template, request, Campaign!sending, Campaign!links, overlaps>>
    BY <1>3 DEF Campaign!DeclareWinner
  <2> HIDE DEF draft
  <2> QED
    BY <2>1, <2>2, <2>3, DraftMoves
<1> QED
  BY <1>2, <1>3 DEF Campaign!Complete, Campaign!Cancel

LEMMA DispatchKeeps == ASSUME CampaignInv, Campaign!Dispatch PROVE CampaignInv'
<1>1. drafts \in Seq(Campaigns) /\ DOMAIN drafts = {1} /\ drafts[1] \in Campaigns /\ drafts[1].status = "DRAFT"
  <2>1. drafts \in Seq(Campaigns) /\ Len(drafts) = 1 /\ drafts[1].status = "DRAFT"
    BY DEF CampaignInv, CampaignTypeOK, Campaign!Dispatch
  <2>2. DOMAIN drafts = 1..1 /\ 1 \in 1..Len(drafts)
    BY <2>1
  <2> QED
    BY <2>1, <2>2, ElementOfSeq
<1> DEFINE draft == [drafts[1] EXCEPT !.status = "SENDING"]
<1>2. draft \in Campaigns /\ draft.status = "SENDING"
  BY <1>1 DEF Campaigns
<1>3. draft.a = drafts[1].a /\ draft.b = drafts[1].b /\ draft.split = drafts[1].split
      /\ draft.winner = drafts[1].winner
  BY <1>1 DEF Campaigns
<1>4. /\ drafts' = [drafts EXCEPT ![1] = draft]
      /\ chosen' = [r \in Recipients |-> Campaign!AssignVariant(r, drafts[1].split)]
      /\ fate' = [r \in Recipients |-> "PENDING"]
      /\ UNCHANGED <<template, request, got, losses, overlaps, opened>>
  BY DEF Campaign!Dispatch, Campaign!links
<1> HIDE DEF draft
<1>5. draft.winner = "B" => draft.b # 0
  BY <1>1, <1>3 DEF CampaignInv, WithoutB
<1>6. /\ DOMAIN drafts' = DOMAIN drafts /\ drafts'[1] = draft /\ drafts' \in Seq(Campaigns)
      /\ WithoutB' /\ Limited'
  BY <1>1, <1>2, <1>3, <1>4, <1>5, DraftMoves
<1>7. \A r \in Recipients : got[r] = {}
  BY <1>1 DEF CampaignInv, Texted, Dispatched
<1>8. \A r \in Recipients : chosen'[r] \in {"A", "B"} /\ (chosen'[r] = "B" => drafts[1].b # 0)
  <2>1. \A r \in Recipients : Bucket[r] \in Nat
    BY DEF Bucket
  <2>2. drafts[1].b = 0 => drafts[1].split = 0
    BY <1>1 DEF CampaignInv, WithoutB
  <2> QED
    BY <1>4, <2>1, <2>2 DEF Campaign!AssignVariant
<1>9. CampaignTypeOK'
  BY <1>4, <1>6, <1>8 DEF CampaignInv, CampaignTypeOK
<1>10. Dispatched'
  BY <1>1, <1>2, <1>6 DEF Dispatched
<1>11. Texted'
  BY <1>3, <1>4, <1>6, <1>7, <1>8, <1>10 DEF Texted, Dispatched
<1>12. Recorded'
  <2>1. Unrecorded' = {}
    BY <1>4, <1>7 DEF Unrecorded
  <2>2. Cardinality(Unrecorded') = 0 /\ losses \in Nat
    BY <2>1, FS_EmptySet DEF CampaignInv, CampaignTypeOK
  <2> QED
    BY <1>4, <2>2 DEF CampaignInv, Recorded
<1> QED
  BY <1>6, <1>9, <1>11, <1>12 DEF CampaignInv

LEMMA AttemptKeeps ==
  ASSUME CampaignInv, NEW r \in Recipients, NEW accepted \in BOOLEAN,
         NEW outcome \in {"SENT", "FAILED", "SKIPPED", "PENDING"},
         Campaign!Attempt(r, accepted, outcome)
  PROVE  CampaignInv'
<1>1. /\ fate[r] = "PENDING" /\ fate' = [fate EXCEPT ![r] = outcome]
      /\ got' = IF accepted THEN [got EXCEPT ![r] = @ \cup {Campaign!TextFor(r)}] ELSE got
      /\ outcome = "SENT" => accepted
      /\ UNCHANGED <<template, drafts, request, chosen, opened, overlaps>>
  BY DEF Campaign!Attempt, Campaign!Attempting, Campaign!links
<1>2. IF accepted = (outcome = "SENT") /\ outcome # "PENDING" THEN losses' = losses ELSE losses' = losses + 1
  BY DEF Campaign!Attempt
<1>3. /\ fate \in [Recipients -> {"NONE", "PENDING", "SENT", "FAILED", "SKIPPED"}]
      /\ got \in [Recipients -> SUBSET (Texts \cup {0})] /\ losses \in Nat
      /\ drafts \in Seq(Campaigns) /\ overlaps \in Nat
  BY DEF CampaignInv, CampaignTypeOK
<1>4. Dispatched /\ drafts[1].a \in Texts \cup {0} /\ drafts[1].b \in Texts \cup {0}
  <2>1. Dispatched
    BY <1>1 DEF CampaignInv, Texted
  <2>2. 1 \in 1..Len(drafts)
    BY <1>3, <2>1 DEF Dispatched
  <2>3. drafts[1] \in Campaigns
    BY <1>3, <2>2, ElementOfSeq
  <2> QED
    BY <2>1, <2>3 DEF Campaigns
<1>5. Campaign!TextFor(r) \in Texts \cup {0}
  BY <1>4 DEF Campaign!TextFor
<1>6. /\ fate' \in [Recipients -> {"NONE", "PENDING", "SENT", "FAILED", "SKIPPED"}] /\ fate'[r] = outcome
      /\ \A q \in Recipients \ {r} : fate'[q] = fate[q]
  BY <1>1, <1>3
<1>7. /\ got' \in [Recipients -> SUBSET (Texts \cup {0})]
      /\ \A q \in Recipients \ {r} : got'[q] = got[q]
      /\ got'[r] = IF accepted THEN got[r] \cup {Campaign!TextFor(r)} ELSE got[r]
  BY <1>1, <1>3, <1>5
<1>8. CampaignTypeOK'
  BY <1>1, <1>2, <1>3, <1>6, <1>7 DEF CampaignInv, CampaignTypeOK
<1>9. Dispatched' /\ \A q \in Recipients : Campaign!TextFor(q)' = Campaign!TextFor(q)
  BY <1>1, <1>4 DEF Dispatched, Campaign!TextFor
<1>10. Texted'
  <2>1. \A q \in Recipients : got'[q] \subseteq {Campaign!TextFor(q)}
    BY <1>7 DEF CampaignInv, Texted
  <2> QED
    BY <1>1, <1>9, <2>1 DEF CampaignInv, Texted
<1>11. Recorded'
  <2>1. Cardinality(Unrecorded) <= losses /\ IsFiniteSet(Unrecorded) /\ Cardinality(Unrecorded) \in Nat
        /\ IsFiniteSet(Unrecorded') /\ Cardinality(Unrecorded') \in Nat
    BY UnrecordedFinite, CampaignAssumption, FS_Subset, FS_CardinalityType DEF CampaignInv, Recorded, Unrecorded
  <2>2. CASE accepted = (outcome = "SENT") /\ outcome # "PENDING"
    <3>1. Unrecorded' \subseteq Unrecorded
      BY <1>1, <1>6, <1>7, <2>2 DEF Unrecorded
    <3>2. Cardinality(Unrecorded') <= Cardinality(Unrecorded)
      BY <2>1, <3>1, FS_Subset
    <3>3. losses' = losses
      BY <1>2, <2>2
    <3>4. Cardinality(Unrecorded') <= losses'
      BY <1>3, <2>1, <3>2, <3>3
    <3> QED
      BY <1>1, <1>7, <3>4 DEF CampaignInv, Recorded, CampaignTypeOK
  <2>3. CASE ~(accepted = (outcome = "SENT") /\ outcome # "PENDING")
    <3>1. Unrecorded' \subseteq Unrecorded \cup {r}
      BY <1>6, <1>7 DEF Unrecorded
    <3>2. IsFiniteSet(Unrecorded \cup {r}) /\ Cardinality(Unrecorded \cup {r}) =
            IF r \in Unrecorded THEN Cardinality(Unrecorded) ELSE Cardinality(Unrecorded) + 1
      BY <2>1, FS_AddElement
    <3>3. Cardinality(Unrecorded') <= Cardinality(Unrecorded \cup {r})
      BY <3>1, <3>2, FS_Subset
    <3>4. losses' = losses + 1
      BY <1>2, <2>3
    <3>5. Cardinality(Unrecorded \cup {r}) <= Cardinality(Unrecorded) + 1 /\ Cardinality(Unrecorded \cup {r}) \in Nat
      BY <2>1, <3>2
    <3>6. Cardinality(Unrecorded') <= losses'
      BY <1>3, <2>1, <3>3, <3>4, <3>5
    <3> QED
      BY <1>1, <1>7, <3>6 DEF CampaignInv, Recorded, CampaignTypeOK
  <2> QED
    BY <2>2, <2>3
<1>12. WithoutB' /\ Limited'
  BY <1>1 DEF CampaignInv, WithoutB, Limited, Campaign!Active
<1> QED
  BY <1>8, <1>10, <1>11, <1>12 DEF CampaignInv

LEMMA CampaignKept == ASSUME CampaignInv, [Campaign!CampaignNext]_campaignVars PROVE CampaignInv'
<1>1. ASSUME UNCHANGED campaignVars PROVE CampaignInv'
  <2>1. request \in [Members -> DraftRequests] /\ template \in Texts \cup {0}
        /\ opened \subseteq Recipients /\ \A r \in opened : got[r] # {}
    BY DEF CampaignInv, CampaignTypeOK, Recorded
  <2> QED
    BY <1>1, <2>1, DeskMoves DEF campaignVars
<1> QED
  BY <1>1, AroundKeeps, DraftInsertKeeps, StatusKeeps, DispatchKeeps, AttemptKeeps DEF Campaign!CampaignNext

LEMMA DisjointUnion ==
  ASSUME NEW S, NEW T, IsFiniteSet(S), IsFiniteSet(T), S \cap T = {}
  PROVE  Cardinality(S \cup T) = Cardinality(S) + Cardinality(T)
<1>1. Cardinality(S \cap T) = 0 /\ Cardinality(S) \in Nat /\ Cardinality(T) \in Nat
  BY FS_EmptySet, FS_CardinalityType
<1>2. Cardinality(S \cup T) = Cardinality(S) + Cardinality(T) - Cardinality(S \cap T)
  BY FS_Union
<1> QED
  BY <1>1, <1>2

\* The opens of the two variants: of messages recorded as sent, or not recorded at all.
LEMMA OpensAreOfMessages ==
  ASSUME CampaignInv
  PROVE  LET opens(v) == Cardinality({r \in opened : chosen[r] = v})
             sent(v) == Cardinality({r \in Recipients : chosen[r] = v /\ fate[r] = "SENT"})
         IN opens("A") + opens("B") <= sent("A") + sent("B") + losses
<1> DEFINE O(v) == {r \in opened : chosen[r] = v}
           S(v) == {r \in Recipients : chosen[r] = v /\ fate[r] = "SENT"}
           U(v) == {r \in Unrecorded : chosen[r] = v}
<1>1. IsFiniteSet(Recipients) /\ opened \subseteq Recipients /\ losses \in Nat
  BY CampaignAssumption DEF CampaignInv, CampaignTypeOK
<1>2. \A v \in {"A", "B"} : IsFiniteSet(O(v)) /\ IsFiniteSet(S(v)) /\ IsFiniteSet(U(v))
  BY <1>1, UnrecordedFinite, FS_Subset
<1>3. \A v \in {"A", "B"} : Cardinality(O(v)) \in Nat /\ Cardinality(S(v)) \in Nat /\ Cardinality(U(v)) \in Nat
  BY <1>2, FS_CardinalityType
<1>4. ASSUME NEW v \in {"A", "B"} PROVE Cardinality(O(v)) <= Cardinality(S(v)) + Cardinality(U(v))
  <2>1. O(v) \subseteq S(v) \cup U(v)
    BY <1>1 DEF CampaignInv, Recorded, Unrecorded
  <2>2. IsFiniteSet(S(v) \cup U(v)) /\ S(v) \cap U(v) = {}
    BY <1>2, FS_Union DEF Unrecorded
  <2>3. Cardinality(S(v) \cup U(v)) = Cardinality(S(v)) + Cardinality(U(v))
    BY <1>2, <2>2, DisjointUnion
  <2> QED
    BY <2>1, <2>2, <2>3, FS_Subset
<1>5. Cardinality(U("A")) + Cardinality(U("B")) <= Cardinality(Unrecorded)
  <2>1. IsFiniteSet(U("A")) /\ IsFiniteSet(U("B")) /\ U("A") \cap U("B") = {}
    BY <1>2
  <2>2. Cardinality(U("A") \cup U("B")) = Cardinality(U("A")) + Cardinality(U("B"))
    BY <2>1, DisjointUnion
  <2>3. U("A") \cup U("B") \subseteq Unrecorded
    OBVIOUS
  <2>4. Cardinality(U("A") \cup U("B")) <= Cardinality(Unrecorded)
    BY <2>3, UnrecordedFinite, FS_Subset
  <2> QED
    BY <2>2, <2>4
<1>6. Cardinality(Unrecorded) <= losses /\ Cardinality(Unrecorded) \in Nat
  BY UnrecordedFinite DEF CampaignInv, Recorded
<1>7. /\ Cardinality(O("A")) <= Cardinality(S("A")) + Cardinality(U("A"))
      /\ Cardinality(O("B")) <= Cardinality(S("B")) + Cardinality(U("B"))
      /\ Cardinality(O("A")) \in Nat /\ Cardinality(S("A")) \in Nat /\ Cardinality(U("A")) \in Nat
      /\ Cardinality(O("B")) \in Nat /\ Cardinality(S("B")) \in Nat /\ Cardinality(U("B")) \in Nat
  BY <1>3, <1>4
<1> HIDE DEF O, S, U
<1>8. Cardinality(O("A")) + Cardinality(O("B")) <= Cardinality(S("A")) + Cardinality(S("B")) + losses
  BY <1>1, <1>5, <1>6, <1>7
<1> QED
  BY <1>8 DEF O, S

\* Whatever becomes of the template and however often the worker dies, a recipient gets
\* the one text his variant was drafted with; the statistics overcount opens by no more
\* than the records lost; and the drafts keep to their limit but for those counted at once.
THEOREM SnapshotsHoldAlways == Spec => []SnapshotsHold
<1> DEFINE Inv == part = "campaign" => CampaignInv
<1>1. Init => Inv
  BY CampaignInit
<1>2. Inv /\ [Next]_platformVars => Inv'
  BY PartStays, CampaignSteps, CampaignKept
<1>3. CampaignInv => Campaign!SnapshotsHold
  <2> SUFFICES ASSUME CampaignInv PROVE Campaign!SnapshotsHold
    OBVIOUS
  <2>1. \A r \in Recipients : got[r] # {} => got[r] = {IF chosen[r] = "B" THEN drafts[1].b ELSE drafts[1].a}
    BY DEF CampaignInv, Texted, Campaign!TextFor
  <2>2. Campaign!OpensOf("A") + Campaign!OpensOf("B") <= Campaign!SentOf("A") + Campaign!SentOf("B") + losses
    BY OpensAreOfMessages, CampaignCardinality DEF Campaign!OpensOf, Campaign!SentOf
  <2>3. \A i \in DOMAIN drafts : drafts[i].winner = "B" => drafts[i].b # 0
    BY DEF CampaignInv, WithoutB
  <2>4. Campaign!Cardinality(Campaign!Active) <= MaxActive + overlaps
    BY CampaignCardinality DEF CampaignInv, Limited
  <2> QED
    BY <2>1, <2>2, <2>3, <2>4 DEF Campaign!SnapshotsHold
<1>4. Inv => SnapshotsHold
  BY <1>3 DEF SnapshotsHold
<1> QED
  BY <1>1, <1>2, <1>4, PTL DEF Spec, platformVars

-----------------------------------------------------------------------------
(* What a page shows.                                                       *)

LiveTypeOK ==
  /\ written \in Nat /\ known \in Nat /\ due \subseteq Nat
  /\ shown \in Nat \cup {Live!None} /\ fetch \in Nat \cup {Live!Idle, Live!Asked}
  /\ marked \in BOOLEAN /\ mounted \in BOOLEAN /\ outrun \in {"no", "answer", "entry"}

\* Nothing is told before it is done.
ToldOfTheDone == known <= written /\ \A n \in due : n <= written

\* An answer that was read before an act the page was told of has been outrun by the
\* mark, and the entry stays marked until it lands.
AnswersKnow ==
  /\ fetch >= 0 /\ outrun # "answer" => fetch >= known
  /\ outrun = "answer" => marked /\ fetch >= 0
  /\ shown # Live!None /\ ~marked /\ outrun # "entry" => shown >= known

LiveInv ==
  /\ LiveTypeOK
  /\ ToldOfTheDone
  /\ Live!Named(act, view) \/ Live!Unheard(act, view)
  /\ ~Live!Unheard(act, view) => AnswersKnow

LEMMA LiveSteps ==
  ASSUME part = "live", [Next]_platformVars
  PROVE  [Live!LiveNext]_liveVars
BY DEF Next, Only, platformVars

\* What is no answer is no number of acts.
LEMMA NoAnswer ==
  /\ Live!None \notin Nat /\ Live!Idle = Live!None
  /\ ~(Live!Idle >= 0) /\ ~(Live!Asked >= 0) /\ Live!Asked # Live!Idle
BY DEF Live!None, Live!Idle, Live!Asked

LEMMA LiveInit == Init /\ part = "live" => LiveInv
<1> SUFFICES ASSUME Live!Init PROVE LiveInv
  BY DEF Init
<1>1. Live!Named(act, view) \/ Live!Unheard(act, view)
  BY LiveAssumption DEF Live!Init
<1>2. LiveTypeOK
  BY DEF Live!Init, LiveTypeOK
<1>3. ToldOfTheDone
  BY DEF Live!Init, ToldOfTheDone
<1>4. AnswersKnow
  BY NoAnswer DEF Live!Init, AnswersKnow
<1> QED
  BY <1>1, <1>2, <1>3, <1>4 DEF LiveInv

LEMMA LiveKept == ASSUME LiveInv, [Live!LiveNext]_liveVars PROVE LiveInv'
<1>1. LiveTypeOK /\ ToldOfTheDone
  BY DEF LiveInv
<1>2. UNCHANGED <<act, view>>
  BY DEF Live!LiveNext, Live!Shows, Live!Hides, Live!Collects, Live!Ages, Live!Looks, Live!Answers,
         Live!Lands, Live!Fails, Live!Commits, Live!Told, Live!Lost, liveVars
<1>3. /\ (Live!Named(act, view) \/ Live!Unheard(act, view))'
      /\ Live!Unheard(act, view)' <=> Live!Unheard(act, view)
  BY <1>2 DEF LiveInv, Live!Named, Live!Unheard
<1>4. SUFFICES LiveTypeOK' /\ ToldOfTheDone' /\ (~Live!Unheard(act, view) => AnswersKnow')
  BY <1>3 DEF LiveInv
<1>5. ~Live!Unheard(act, view) => AnswersKnow /\ Live!Named(act, view)
  BY DEF LiveInv
<1>6. ASSUME Live!Shows \/ Live!Looks
      PROVE  LiveTypeOK' /\ ToldOfTheDone' /\ (~Live!Unheard(act, view) => AnswersKnow')
  BY <1>1, <1>5, <1>6, NoAnswer DEF LiveTypeOK, ToldOfTheDone, AnswersKnow, Live!Shows, Live!Looks, Live!Begins, Live!Forgets
<1>7. ASSUME Live!Hides \/ Live!Collects \/ Live!Ages
      PROVE  LiveTypeOK' /\ ToldOfTheDone' /\ (~Live!Unheard(act, view) => AnswersKnow')
  BY <1>1, <1>5, <1>7, NoAnswer
     DEF LiveTypeOK, ToldOfTheDone, AnswersKnow, Live!Hides, Live!Collects, Live!Ages, Live!entry
<1>8. ASSUME Live!Answers \/ Live!Lands \/ Live!Fails
      PROVE  LiveTypeOK' /\ ToldOfTheDone' /\ (~Live!Unheard(act, view) => AnswersKnow')
  BY <1>1, <1>5, <1>8, NoAnswer
     DEF LiveTypeOK, ToldOfTheDone, AnswersKnow, Live!Answers, Live!Lands, Live!Fails, Live!Forgets
<1>9. ASSUME Live!Commits \/ Live!Lost
      PROVE  LiveTypeOK' /\ ToldOfTheDone' /\ (~Live!Unheard(act, view) => AnswersKnow')
  <2>1. /\ written' \in Nat /\ written <= written' /\ due' \subseteq due \cup {written'}
        /\ UNCHANGED <<known, mounted, shown, marked, fetch, outrun>>
    BY <1>1, <1>9 DEF LiveTypeOK, Live!Commits, Live!Lost, Live!entry
  <2>2. LiveTypeOK'
    BY <1>1, <2>1 DEF LiveTypeOK
  <2>3. ToldOfTheDone'
    <3>1. written \in Nat /\ known \in Nat /\ \A n \in due : n \in Nat
      BY <1>1 DEF LiveTypeOK
    <3> QED
      BY <1>1, <2>1, <3>1 DEF ToldOfTheDone
  <2>4. AnswersKnow => AnswersKnow'
    BY <2>1 DEF AnswersKnow
  <2> QED
    BY <1>5, <2>2, <2>3, <2>4
<1>10. ASSUME Live!Told
       PROVE  LiveTypeOK' /\ ToldOfTheDone' /\ (~Live!Unheard(act, view) => AnswersKnow')
  <2>1. /\ \E n \in due : due' = due \ {n} /\ known' = IF n > known THEN n ELSE known
        /\ UNCHANGED <<written, mounted>>
    BY <1>10 DEF Live!Told
  <2>2. known' \in Nat /\ due' \subseteq Nat /\ ToldOfTheDone'
    BY <1>1, <2>1 DEF LiveTypeOK, ToldOfTheDone
  <2>3. CASE Live!Named(act, view) /\ Live!Cached
    <3>1. Live!Marks
      BY <1>10, <2>3 DEF Live!Told
    <3> QED
      <4>1. /\ marked' = TRUE /\ UNCHANGED shown
            /\ \/ fetch' = Live!Asked /\ outrun' = IF outrun = "answer" THEN "no" ELSE outrun
               \/ fetch' = fetch /\ outrun' = IF fetch >= 0 THEN "answer" ELSE outrun
        BY <3>1 DEF Live!Marks, Live!Begins, Live!Forgets
      <4>2. LiveTypeOK'
        BY <1>1, <2>1, <2>2, <4>1 DEF LiveTypeOK
      <4>3. AnswersKnow => AnswersKnow'
        BY <4>1, NoAnswer DEF AnswersKnow
      <4> QED
        BY <1>5, <2>2, <4>2, <4>3
  <2>4. CASE ~(Live!Named(act, view) /\ Live!Cached)
    <3>1. UNCHANGED Live!entry
      BY <1>10, <2>4 DEF Live!Told
    <3> QED
      <4>1. UNCHANGED <<shown, marked, fetch, outrun>>
        BY <3>1 DEF Live!entry
      <4>2. LiveTypeOK'
        BY <1>1, <2>1, <2>2, <4>1 DEF LiveTypeOK
      <4>3. ~Live!Unheard(act, view) => shown = Live!None /\ fetch = Live!Idle
        BY <1>5, <2>4 DEF Live!Cached
      <4>4. ~Live!Unheard(act, view) => AnswersKnow'
        BY <1>5, <4>1, <4>3, NoAnswer DEF AnswersKnow
      <4> QED
        BY <2>2, <4>2, <4>4
  <2> QED
    BY <2>3, <2>4
<1>11. ASSUME UNCHANGED liveVars
       PROVE  LiveTypeOK' /\ ToldOfTheDone' /\ (~Live!Unheard(act, view) => AnswersKnow')
  BY <1>1, <1>5, <1>11 DEF LiveTypeOK, ToldOfTheDone, AnswersKnow, liveVars
<1> QED
  BY <1>6, <1>7, <1>8, <1>9, <1>10, <1>11 DEF Live!LiveNext

\* A page shows what it was told of in every entry it takes for current, whenever the
\* answers came, but for the listed views no prefix reaches and a fetch a mark outran.
THEOREM ShowsWhatItWasTold == Spec => []ShowsWhatItKnows
<1> DEFINE Inv == part = "live" => LiveInv
<1>1. Init => Inv
  BY LiveInit
<1>2. Inv /\ [Next]_platformVars => Inv'
  BY PartStays, LiveSteps, LiveKept
<1>3. Inv => ShowsWhatItKnows
  BY DEF LiveInv, AnswersKnow, ShowsWhatItKnows, Live!ShowsWhatItKnows
<1> QED
  BY <1>1, <1>2, <1>3, PTL DEF Spec, platformVars

-----------------------------------------------------------------------------
(* The event stream.                                                        *)

NearEnds == {"open", "closing", "closed"}
FarEnds  == {"upgrading", "open", "closed"}

SocketsTypeOK ==
  /\ started \in [Pages -> BOOLEAN] /\ ws \in [Pages -> Nat]
  /\ timers \in [Pages -> [known : BOOLEAN, lost : Nat]]
  /\ owner \in Seq(Pages) /\ near \in Seq(NearEnds) /\ Len(near) = Len(owner)

\* The socket a page knows is its own, and open, so that stop() never closes another
\* page's.
OwnSocket == \A p \in Pages :
  ws[p] # 0 => ws[p] \in 1 .. Len(owner) /\ owner[ws[p]] = p /\ near[ws[p]] = "open"

\* A page that is started has an open socket or a reconnect before it.
Open(p) == \E s \in 1 .. Len(owner) : owner[s] = p /\ near[s] = "open"
Soon(p) == timers[p].known \/ timers[p].lost > 0

Tuned == \A p \in Pages : started[p] => Open(p) \/ Soon(p)

SocketsInv == SocketsTypeOK /\ OwnSocket /\ Tuned

\* A socket leaves a timer behind and a timer a socket: what a page holds of both only
\* grows when it starts.
Holding(p, o, n) == {s \in 1 .. Len(o) : o[s] = p /\ n[s] # "closed"}
Pending(x)       == x.lost + IF x.known THEN 1 ELSE 0

Few(p) == Cardinality(Holding(p, owner, near)) + Pending(timers[p]) <= starts[p]

HeldInv == starts \in [Pages -> Nat] /\ \A p \in Pages : Few(p)

Commands == [cmd : {"SUBSCRIBE", "UNSUBSCRIBE"}, handler : Nat, set : Nat]

BusTypeOK ==
  /\ far \in Seq(FarEnds) /\ Len(far) = Len(owner)
  /\ count \in Nat /\ set \in Nat /\ failures \in Nat /\ on \in BOOLEAN
  /\ listening \in Seq(SUBSET Nat) /\ wire \in Seq(Commands)

OpenSockets(f) == {s \in 1 .. Len(f) : f[s] = "open"}

\* The gateway has a handler while it counts a socket; the handler's set is the one
\* made for it, and no other handler ever joins it.
OneHandler ==
  /\ count = Cardinality(OpenSockets(far))
  /\ handler = set /\ set <= Len(listening) /\ (set # 0 <=> count > 0)
  /\ \A k \in 1 .. Len(listening) : listening[k] \subseteq {k}
  /\ \A i \in 1 .. Len(wire) :
       wire[i].set = wire[i].handler /\ wire[i].set \in 1 .. Len(listening)

\* What Redis will have been told in the end.
Told == IF wire = <<>> THEN on ELSE wire[Len(wire)].cmd = "SUBSCRIBE"

Asking(k) == \E i \in 1 .. Len(wire) : wire[i].cmd = "SUBSCRIBE" /\ wire[i].set = k

WillHear ==
  /\ Told <=> set # 0
  /\ set # 0 => listening[set] = {set} \/ Asking(set)

BusInv == BusTypeOK /\ OneHandler /\ (failures = 0 => WillHear)

LEMMA FanoutSteps ==
  ASSUME part = "fanout", [Next]_platformVars
  PROVE  [Fanout!FanoutNext]_fanoutVars
BY DEF Next, Only, platformVars

LEMMA FanoutCardinality == \A S : Fanout!Cardinality(S) = Cardinality(S)
BY DEF Fanout!Cardinality, Cardinality

LEMMA FanoutInit == Init /\ part = "fanout" => SocketsInv /\ HeldInv /\ BusInv
<1> SUFFICES ASSUME Fanout!Init PROVE SocketsInv /\ HeldInv /\ BusInv
  BY DEF Init
<1>1. SocketsInv
  <2>1. SocketsTypeOK
    BY EmptySeq DEF Fanout!Init, SocketsTypeOK
  <2> QED
    BY <2>1 DEF Fanout!Init, SocketsInv, OwnSocket, Tuned
<1>h. HeldInv
  <2> SUFFICES ASSUME NEW p \in Pages
               PROVE  Few(p)
    BY DEF Fanout!Init, HeldInv
  <2>1. Holding(p, owner, near) = {}
    BY DEF Fanout!Init, Holding
  <2>2. Pending(timers[p]) = 0 /\ starts[p] = 0
    BY DEF Fanout!Init, Pending
  <2> QED
    BY <2>1, <2>2, FS_EmptySet DEF Few
<1>2. OpenSockets(<<>>) = {}
  BY DEF OpenSockets
<1>3. BusTypeOK
  BY EmptySeq DEF Fanout!Init, BusTypeOK
<1>4. OneHandler
  <2>1. 1 .. Len(listening) = {} /\ 1 .. Len(wire) = {}
    BY DEF Fanout!Init
  <2>2. Cardinality(OpenSockets(far)) = 0 /\ Len(listening) = 0
    BY <1>2, FS_EmptySet DEF Fanout!Init
  <2> QED
    BY <2>1, <2>2 DEF Fanout!Init, OneHandler
<1>5. WillHear
  BY DEF Fanout!Init, WillHear, Told
<1> QED
  BY <1>1, <1>h, <1>3, <1>4, <1>5 DEF BusInv

-----------------------------------------------------------------------------
\* A new socket of page p.
LEMMA Opening ==
  ASSUME SocketsInv, NEW p \in Pages, Fanout!Opens(p)
  PROVE  /\ owner' \in Seq(Pages) /\ near' \in Seq(NearEnds) /\ ws' \in [Pages -> Nat]
         /\ Len(near') = Len(owner') /\ Len(owner') = Len(owner) + 1
         /\ far' = Append(far, "upgrading")
         /\ owner'[Len(owner) + 1] = p /\ near'[Len(owner) + 1] = "open"
         /\ \A s \in 1 .. Len(owner) : owner'[s] = owner[s] /\ near'[s] = near[s]
         /\ OwnSocket'
         /\ \A q \in Pages : Open(q)' <=> q = p \/ Open(q)
<1>1. /\ owner \in Seq(Pages) /\ near \in Seq(NearEnds) /\ Len(near) = Len(owner)
      /\ Len(owner) \in Nat
  BY LenProperties DEF SocketsInv, SocketsTypeOK
<1>2. /\ owner' = Append(owner, p) /\ near' = Append(near, "open")
      /\ far' = Append(far, "upgrading") /\ ws' = [ws EXCEPT ![p] = Len(owner) + 1]
  BY DEF Fanout!Opens, Fanout!Made
<1>3. /\ owner' \in Seq(Pages) /\ Len(owner') = Len(owner) + 1 /\ owner'[Len(owner) + 1] = p
      /\ \A s \in 1 .. Len(owner) : owner'[s] = owner[s]
  BY <1>1, <1>2, AppendProperties
<1>4. /\ near' \in Seq(NearEnds) /\ Len(near') = Len(owner) + 1 /\ near'[Len(owner) + 1] = "open"
      /\ \A s \in 1 .. Len(owner) : near'[s] = near[s]
  <2>1. "open" \in NearEnds
    BY DEF NearEnds
  <2> QED
    BY <1>1, <1>2, <2>1, AppendProperties
<1>5. ws' \in [Pages -> Nat] /\ OwnSocket'
  BY <1>1, <1>2, <1>3, <1>4 DEF SocketsInv, SocketsTypeOK, OwnSocket
<1>6. \A q \in Pages : Open(q)' <=> q = p \/ Open(q)
  <2>1. 1 .. Len(owner') = (1 .. Len(owner)) \cup {Len(owner) + 1}
    BY <1>1, <1>3
  <2> QED
    BY <1>3, <1>4, <2>1 DEF Open
<1> QED
  BY <1>2, <1>3, <1>4, <1>5, <1>6

\* The client's end of a socket closes or begins to.
LEMMA Closing ==
  ASSUME SocketsInv, NEW s \in 1 .. Len(owner), NEW end \in NearEnds,
         near' = [near EXCEPT ![s] = end], UNCHANGED owner
  PROVE  /\ near' \in Seq(NearEnds) /\ Len(near') = Len(owner')
         /\ \A r \in 1 .. Len(owner) : near'[r] = IF r = s THEN end ELSE near[r]
<1>1. near \in Seq(NearEnds) /\ s \in 1 .. Len(near)
  BY DEF SocketsInv, SocketsTypeOK
<1> QED
  BY <1>1, ExceptSeq DEF SocketsInv, SocketsTypeOK

LEMMA SocketsKept == ASSUME SocketsInv, [Fanout!FanoutNext]_fanoutVars PROVE SocketsInv'
<1>1. ASSUME NEW p \in Pages, Fanout!Start(p) PROVE SocketsInv'
  <2>1. Fanout!Opens(p) /\ started' = [started EXCEPT ![p] = TRUE] /\ timers' = timers
    BY <1>1 DEF Fanout!Start
  <2>2. SocketsTypeOK' /\ OwnSocket'
    BY <2>1, Opening DEF SocketsInv, SocketsTypeOK
  <2>3. Tuned'
    BY <2>1, Opening DEF SocketsInv, SocketsTypeOK, Tuned, Soon
  <2> QED
    BY <2>2, <2>3 DEF SocketsInv
<1>2. ASSUME NEW p \in Pages, Fanout!Stop(p) PROVE SocketsInv'
  <2>1. /\ started' = [started EXCEPT ![p] = FALSE] /\ timers' = [timers EXCEPT ![p].known = FALSE]
        /\ ws' = [ws EXCEPT ![p] = 0] /\ owner' = owner
    BY <1>2 DEF Fanout!Stop
  <2>3. /\ near' \in Seq(NearEnds) /\ Len(near') = Len(owner')
        /\ \A r \in 1 .. Len(owner) : owner[r] # p => near'[r] = near[r]
    <3>1. CASE ws[p] = 0
      BY <1>2, <3>1 DEF Fanout!Stop, SocketsInv, SocketsTypeOK
    <3>2. CASE ws[p] # 0
      <4>1. ws[p] \in 1 .. Len(owner) /\ owner[ws[p]] = p
        BY <3>2 DEF SocketsInv, OwnSocket
      <4>2. near' = [near EXCEPT ![ws[p]] = "closing"]
        BY <1>2, <3>2 DEF Fanout!Stop
      <4> QED
        <5>1. "closing" \in NearEnds
          BY DEF NearEnds
        <5>2. owner' = owner
          BY <2>1
        <5>3. /\ near' \in Seq(NearEnds) /\ Len(near') = Len(owner')
              /\ \A r \in 1 .. Len(owner) : near'[r] = IF r = ws[p] THEN "closing" ELSE near[r]
          BY <4>1, <4>2, <5>1, <5>2, Closing
        <5> QED
          BY <4>1, <5>3
    <3> QED
      BY <3>1, <3>2
  <2>2. OwnSocket'
    BY <2>1, <2>3 DEF SocketsInv, SocketsTypeOK, OwnSocket
  <2>4. SocketsTypeOK'
    BY <2>1, <2>3 DEF SocketsInv, SocketsTypeOK
  <2>5. Tuned'
    BY <2>1, <2>3 DEF SocketsInv, SocketsTypeOK, Tuned, Open, Soon
  <2> QED
    BY <2>2, <2>4, <2>5 DEF SocketsInv
<1>3. ASSUME NEW p \in Pages, Fanout!Fires(p) PROVE SocketsInv'
  <2>1. /\ started' = started /\ timers' \in [Pages -> [known : BOOLEAN, lost : Nat]]
        /\ \A q \in Pages \ {p} : timers'[q] = timers[q]
    <3>1. timers[p] \in [known : BOOLEAN, lost : Nat]
      BY DEF SocketsInv, SocketsTypeOK
    <3>2. CASE timers[p].known /\ timers' = [timers EXCEPT ![p].known = FALSE]
      BY <1>3, <3>1, <3>2 DEF Fanout!Fires, SocketsInv, SocketsTypeOK
    <3>3. CASE timers[p].lost > 0 /\ timers' = [timers EXCEPT ![p].lost = @ - 1]
      <4>1. timers[p].lost - 1 \in Nat
        BY <3>1, <3>3
      <4> QED
        BY <1>3, <3>1, <3>3, <4>1 DEF Fanout!Fires, SocketsInv, SocketsTypeOK
    <3> QED
      BY <1>3, <3>2, <3>3 DEF Fanout!Fires
  <2>2. CASE started[p]
    <3>1. Fanout!Opens(p)
      BY <1>3, <2>2 DEF Fanout!Fires
    <3>2. SocketsTypeOK' /\ OwnSocket'
      BY <2>1, <3>1, Opening DEF SocketsInv, SocketsTypeOK
    <3>3. Tuned'
      BY <2>1, <3>1, Opening DEF SocketsInv, Tuned, Soon
    <3> QED
      BY <3>2, <3>3 DEF SocketsInv
  <2>3. CASE ~started[p]
    <3>1. UNCHANGED <<ws, owner, near>>
      BY <1>3, <2>3 DEF Fanout!Fires, Fanout!sockets
    <3> QED
      BY <2>1, <2>3, <3>1 DEF SocketsInv, SocketsTypeOK, OwnSocket, Tuned, Open, Soon
  <2> QED
    BY <2>2, <2>3
<1>4. ASSUME NEW s \in DOMAIN owner, Fanout!OnClose(s) PROVE SocketsInv'
  <2> DEFINE p == owner[s]
  <2>1. s \in 1 .. Len(owner) /\ p \in Pages
    BY LenProperties, ElementOfSeq DEF SocketsInv, SocketsTypeOK
  <2>2. /\ near' = [near EXCEPT ![s] = "closed"] /\ ws' = [ws EXCEPT ![p] = 0]
        /\ started' = started /\ owner' = owner
        /\ timers' = IF started[p] THEN [timers EXCEPT ![p] = [known |-> TRUE,
                                             lost |-> @.lost + IF @.known THEN 1 ELSE 0]]
                     ELSE timers
    BY <1>4 DEF Fanout!OnClose, Fanout!Reconnects
  <2>3. /\ near' \in Seq(NearEnds) /\ Len(near') = Len(owner')
        /\ \A r \in 1 .. Len(owner) : near'[r] = IF r = s THEN "closed" ELSE near[r]
    BY <2>1, <2>2, Closing DEF NearEnds
  <2>4. /\ timers' \in [Pages -> [known : BOOLEAN, lost : Nat]]
        /\ \A q \in Pages : timers'[q] = IF q = p /\ started[p] THEN timers'[p] ELSE timers[q]
        /\ started[p] => timers'[p].known
    BY <2>1, <2>2 DEF SocketsInv, SocketsTypeOK
  <2>5. SocketsTypeOK' /\ OwnSocket'
    BY <2>1, <2>2, <2>3, <2>4 DEF SocketsInv, SocketsTypeOK, OwnSocket
  <2>6. Tuned'
    BY <2>1, <2>2, <2>3, <2>4 DEF SocketsInv, Tuned, Open, Soon
  <2> QED
    BY <2>5, <2>6 DEF SocketsInv
<1>5. CASE UNCHANGED <<started, ws, timers, owner, near>>
  BY <1>5 DEF SocketsInv, SocketsTypeOK, OwnSocket, Tuned, Open, Soon
<1> QED
  BY <1>1, <1>2, <1>3, <1>4, <1>5
     DEF Fanout!FanoutNext, fanoutVars, Fanout!Upgrade, Fanout!Rejects, Fanout!Gone, Fanout!Answered,
         Fanout!SubscribeFails, Fanout!client, Fanout!sockets

\* What a page holds is finite, and one socket less is one less.
LEMMA HoldingFacts ==
  ASSUME SocketsInv, NEW p \in Pages
  PROVE  /\ IsFiniteSet(Holding(p, owner, near)) /\ Cardinality(Holding(p, owner, near)) \in Nat
         /\ Len(owner) \in Nat /\ Pending(timers[p]) \in Nat
         /\ timers[p] \in [known : BOOLEAN, lost : Nat]
<1>1. Len(owner) \in Nat /\ timers[p] \in [known : BOOLEAN, lost : Nat]
  BY LenProperties DEF SocketsInv, SocketsTypeOK
<1>2. IsFiniteSet(1 .. Len(owner)) /\ Holding(p, owner, near) \in SUBSET (1 .. Len(owner))
  BY <1>1, FS_Interval DEF Holding
<1>3. IsFiniteSet(Holding(p, owner, near))
  BY <1>2, FS_Subset
<1> QED
  BY <1>1, <1>3, FS_CardinalityType DEF Pending

\* A socket opened by page p is one more of its own.
LEMMA HoldsMore ==
  ASSUME SocketsInv, NEW p \in Pages, Fanout!Opens(p), NEW q \in Pages
  PROVE  Cardinality(Holding(q, owner, near)') =
           Cardinality(Holding(q, owner, near)) + IF q = p THEN 1 ELSE 0
<1>1. /\ Len(owner') = Len(owner) + 1
      /\ owner'[Len(owner) + 1] = p /\ near'[Len(owner) + 1] = "open"
      /\ \A s \in 1 .. Len(owner) : owner'[s] = owner[s] /\ near'[s] = near[s]
  BY Opening
<1>2. Len(owner) \in Nat /\ IsFiniteSet(Holding(q, owner, near))
  BY HoldingFacts
<1>3. 1 .. Len(owner') = (1 .. Len(owner)) \cup {Len(owner) + 1} /\ Len(owner) + 1 \notin 1 .. Len(owner)
  BY <1>1, <1>2
<1>4. CASE q = p
  <2>1. Holding(q, owner, near)' = Holding(q, owner, near) \cup {Len(owner) + 1}
    BY <1>1, <1>3, <1>4 DEF Holding
  <2>2. Len(owner) + 1 \notin Holding(q, owner, near)
    BY <1>3 DEF Holding
  <2> QED
    BY <1>2, <1>4, <2>1, <2>2, FS_AddElement
<1>5. CASE q # p
  <2>1. Holding(q, owner, near)' = Holding(q, owner, near)
    BY <1>1, <1>3, <1>5 DEF Holding
  <2> QED
    BY <1>5, <2>1, HoldingFacts
<1> QED
  BY <1>4, <1>5

LEMMA HeldKept ==
  ASSUME SocketsInv, HeldInv, [Fanout!FanoutNext]_fanoutVars PROVE HeldInv'
<1>1. ASSUME NEW p \in Pages, Fanout!Start(p) PROVE HeldInv'
  <2>1. Fanout!Opens(p) /\ starts' = [starts EXCEPT ![p] = @ + 1] /\ timers' = timers
    BY <1>1 DEF Fanout!Start
  <2>2. ASSUME NEW q \in Pages PROVE Few(q)'
    <3>1. Cardinality(Holding(q, owner, near)') =
            Cardinality(Holding(q, owner, near)) + IF q = p THEN 1 ELSE 0
      BY <2>1, HoldsMore
    <3>2. starts[q] \in Nat /\ starts'[q] = starts[q] + IF q = p THEN 1 ELSE 0
      BY <2>1 DEF HeldInv
    <3>3. Few(q) /\ timers'[q] = timers[q]
      BY <2>1 DEF HeldInv
    <3> QED
      BY <3>1, <3>2, <3>3, HoldingFacts DEF Few
  <2> QED
    BY <2>1, <2>2 DEF HeldInv
<1>2. ASSUME NEW p \in Pages, Fanout!Stop(p) PROVE HeldInv'
  <2>1. /\ starts' = starts /\ timers' = [timers EXCEPT ![p].known = FALSE] /\ owner' = owner
        /\ near' = IF ws[p] = 0 THEN near ELSE [near EXCEPT ![ws[p]] = "closing"]
    BY <1>2 DEF Fanout!Stop
  <2>2. ASSUME NEW q \in Pages PROVE Few(q)'
    <3>1. Holding(q, owner, near)' = Holding(q, owner, near)
      <4>1. CASE ws[p] = 0
        BY <2>1, <4>1 DEF Holding
      <4>2. CASE ws[p] # 0
        <5>1. ws[p] \in 1 .. Len(owner) /\ near[ws[p]] = "open"
          BY <4>2 DEF SocketsInv, OwnSocket
        <5>2. \A s \in 1 .. Len(owner) : near'[s] = IF s = ws[p] THEN "closing" ELSE near[s]
          BY <2>1, <4>2, <5>1, Closing DEF NearEnds
        <5> QED
          BY <2>1, <5>1, <5>2 DEF Holding
      <4> QED
        BY <4>1, <4>2
    <3>2. Pending(timers'[q]) <= Pending(timers[q]) /\ Pending(timers'[q]) \in Nat
      BY <2>1, HoldingFacts DEF Pending, SocketsInv, SocketsTypeOK
    <3>3. Few(q) /\ starts[q] \in Nat
      BY DEF HeldInv
    <3> QED
      BY <2>1, <3>1, <3>2, <3>3, HoldingFacts DEF Few
  <2> QED
    BY <2>1, <2>2 DEF HeldInv
<1>3. ASSUME NEW p \in Pages, Fanout!Fires(p) PROVE HeldInv'
  <2>1. starts' = starts
    BY <1>3 DEF Fanout!Fires
  <2>2. ASSUME NEW q \in Pages
        PROVE  /\ Pending(timers'[q]) \in Nat
               /\ Pending(timers[q]) = Pending(timers'[q]) + IF q = p THEN 1 ELSE 0
    <3>1. CASE timers[p].known /\ timers' = [timers EXCEPT ![p].known = FALSE]
      BY <3>1, HoldingFacts DEF Pending, SocketsInv, SocketsTypeOK
    <3>2. CASE timers[p].lost > 0 /\ timers' = [timers EXCEPT ![p].lost = @ - 1]
      BY <3>2, HoldingFacts DEF Pending, SocketsInv, SocketsTypeOK
    <3> QED
      BY <1>3, <3>1, <3>2 DEF Fanout!Fires
  <2>3. ASSUME NEW q \in Pages PROVE Few(q)'
    <3>1. \/ Cardinality(Holding(q, owner, near)') =
               Cardinality(Holding(q, owner, near)) + IF q = p THEN 1 ELSE 0
          \/ Holding(q, owner, near)' = Holding(q, owner, near)
      <4>1. CASE started[p]
        BY <1>3, <4>1, HoldsMore DEF Fanout!Fires
      <4>2. CASE ~started[p]
        BY <1>3, <4>2 DEF Fanout!Fires, Fanout!sockets, Holding
      <4> QED
        BY <4>1, <4>2
    <3>2. Few(q) /\ starts[q] \in Nat
      BY DEF HeldInv
    <3> QED
      BY <2>1, <2>2, <3>1, <3>2, HoldingFacts DEF Few
  <2> QED
    BY <2>1, <2>3 DEF HeldInv
<1>4. ASSUME NEW s \in DOMAIN owner, Fanout!OnClose(s) PROVE HeldInv'
  <2> DEFINE p == owner[s]
  <2>1. s \in 1 .. Len(owner) /\ p \in Pages
    BY LenProperties, ElementOfSeq DEF SocketsInv, SocketsTypeOK
  <2>2. /\ near[s] # "closed" /\ near' = [near EXCEPT ![s] = "closed"]
        /\ owner' = owner /\ starts' = starts
        /\ timers' = IF started[p] THEN [timers EXCEPT ![p] = [known |-> TRUE,
                                             lost |-> @.lost + IF @.known THEN 1 ELSE 0]]
                     ELSE timers
    BY <1>4 DEF Fanout!OnClose, Fanout!Reconnects
  <2>3. \A x \in 1 .. Len(owner) : near'[x] = IF x = s THEN "closed" ELSE near[x]
    BY <2>1, <2>2, Closing DEF NearEnds
  <2>4. ASSUME NEW q \in Pages PROVE Few(q)'
    <3>1. CASE q = p
      <4>1. Holding(q, owner, near)' = Holding(q, owner, near) \ {s} /\ s \in Holding(q, owner, near)
        BY <2>1, <2>2, <2>3, <3>1 DEF Holding
      <4>2. Cardinality(Holding(q, owner, near)') = Cardinality(Holding(q, owner, near)) - 1
        <5> DEFINE H == Holding(q, owner, near)
        <5>1. IsFiniteSet(H) /\ s \in H
          BY <4>1, HoldingFacts
        <5> HIDE DEF H
        <5>2. Cardinality(H \ {s}) = Cardinality(H) - 1
          BY <5>1, FS_RemoveElement
        <5> QED
          BY <4>1, <5>2 DEF H
      <4>3. Pending(timers'[q]) <= Pending(timers[q]) + 1 /\ Pending(timers'[q]) \in Nat
        <5>1. timers[q] \in [known : BOOLEAN, lost : Nat]
          BY HoldingFacts
        <5>2. \/ timers'[q] = timers[q]
              \/ timers'[q] = [known |-> TRUE,
                              lost |-> timers[q].lost + IF timers[q].known THEN 1 ELSE 0]
          BY <2>2, <3>1 DEF SocketsInv, SocketsTypeOK
        <5> QED
          BY <5>1, <5>2 DEF Pending
      <4>4. Few(q) /\ starts[q] \in Nat
        BY DEF HeldInv
      <4> QED
        BY <2>2, <4>2, <4>3, <4>4, HoldingFacts DEF Few
    <3>2. CASE q # p
      <4>1. Holding(q, owner, near)' = Holding(q, owner, near) /\ timers'[q] = timers[q]
        BY <2>1, <2>2, <2>3, <3>2 DEF Holding
      <4> QED
        BY <2>2, <4>1 DEF Few, HeldInv
    <3> QED
      BY <3>1, <3>2
  <2> QED
    BY <2>2, <2>4 DEF HeldInv
<1>5. CASE UNCHANGED <<timers, starts, owner, near>>
  BY <1>5 DEF HeldInv, Few, Holding
<1> QED
  BY <1>1, <1>2, <1>3, <1>4, <1>5
     DEF Fanout!FanoutNext, fanoutVars, Fanout!Upgrade, Fanout!Rejects, Fanout!Gone, Fanout!Answered,
         Fanout!SubscribeFails, Fanout!client, Fanout!sockets

-----------------------------------------------------------------------------
\* What the gateway and the driver keep is untouched by all but these.
bus == <<count, handler, listening, set, wire, on, failures>>

\* A count of open sockets, as one opens or closes.
LEMMA SocketOpens ==
  ASSUME BusTypeOK, NEW s \in 1 .. Len(far), NEW end \in FarEnds,
         far' = [far EXCEPT ![s] = end]
  PROVE  /\ far' \in Seq(FarEnds) /\ Len(far') = Len(far)
         /\ Cardinality(OpenSockets(far)) \in Nat
         /\ far[s] # "open" /\ end = "open" =>
              Cardinality(OpenSockets(far')) = Cardinality(OpenSockets(far)) + 1
         /\ far[s] = "open" /\ end # "open" =>
              Cardinality(OpenSockets(far')) = Cardinality(OpenSockets(far)) - 1
         /\ far[s] # "open" /\ end # "open" => OpenSockets(far') = OpenSockets(far)
<1>1. /\ far' \in Seq(FarEnds) /\ Len(far') = Len(far) /\ Len(far) \in Nat
      /\ \A r \in 1 .. Len(far) : far'[r] = IF r = s THEN end ELSE far[r]
  BY ExceptSeq, LenProperties DEF BusTypeOK
<1>2. IsFiniteSet(OpenSockets(far)) /\ Cardinality(OpenSockets(far)) \in Nat
  <2>1. IsFiniteSet(1 .. Len(far)) /\ OpenSockets(far) \in SUBSET (1 .. Len(far))
    BY <1>1, FS_Interval DEF OpenSockets
  <2> QED
    BY <2>1, FS_Subset, FS_CardinalityType
<1>3. CASE end = "open"
  <2>1. OpenSockets(far') = OpenSockets(far) \cup {s}
    BY <1>1, <1>3 DEF OpenSockets
  <2>2. s \in OpenSockets(far) <=> far[s] = "open"
    BY DEF OpenSockets
  <2> QED
    BY <1>1, <1>2, <1>3, <2>1, <2>2, FS_AddElement
<1>4. CASE end # "open"
  <2>1. OpenSockets(far') = OpenSockets(far) \ {s}
    BY <1>1, <1>4 DEF OpenSockets
  <2>2. s \in OpenSockets(far) <=> far[s] = "open"
    BY DEF OpenSockets
  <2>3. far[s] # "open" => OpenSockets(far') = OpenSockets(far)
    BY <2>1, <2>2
  <2> QED
    BY <1>1, <1>2, <1>4, <2>1, <2>2, <2>3, FS_RemoveElement
<1> QED
  BY <1>3, <1>4

\* A command joins the end of the wire.
LEMMA Sending ==
  ASSUME BusTypeOK, NEW c \in Commands, wire' = Append(wire, c)
  PROVE  /\ wire' \in Seq(Commands) /\ wire' # <<>> /\ Len(wire') = Len(wire) + 1
         /\ wire'[Len(wire')] = c
         /\ \A i \in 1 .. Len(wire) : wire'[i] = wire[i]
         /\ \A i \in 1 .. Len(wire') : i \in 1 .. Len(wire) \/ wire'[i] = c
<1>1. Len(wire) \in Nat
  BY LenProperties DEF BusTypeOK
<1> QED
  BY <1>1, AppendProperties DEF BusTypeOK

\* The first socket: a set for its handler.
LEMMA Subscribes ==
  ASSUME BusInv, count = 0, Fanout!Subscribe(Len(listening) + 1), handler' = Len(listening) + 1
  PROVE  /\ listening' \in Seq(SUBSET Nat) /\ wire' \in Seq(Commands) /\ set' \in Nat \ {0}
         /\ handler' = set' /\ set' <= Len(listening')
         /\ \A k \in 1 .. Len(listening') : listening'[k] \subseteq {k}
         /\ \A i \in 1 .. Len(wire') :
              wire'[i].set = wire'[i].handler /\ wire'[i].set \in 1 .. Len(listening')
         /\ (Told /\ Asking(set))'
<1>1. /\ Len(listening) \in Nat /\ Len(wire) \in Nat /\ set = 0
  BY LenProperties DEF BusInv, BusTypeOK, OneHandler
<1> DEFINE n == Len(listening) + 1
           c == [cmd |-> "SUBSCRIBE", handler |-> n, set |-> n]
<1>2. /\ listening' = Append(listening, {}) /\ set' = n /\ wire' = Append(wire, c)
  BY <1>1 DEF Fanout!Subscribe
<1>3. c \in Commands /\ c.cmd = "SUBSCRIBE" /\ c.handler = n /\ c.set = n
  BY <1>1 DEF Commands
<1> HIDE DEF c
<1>4. /\ listening' \in Seq(SUBSET Nat) /\ Len(listening') = n /\ listening'[n] = {}
      /\ \A k \in 1 .. Len(listening) : listening'[k] = listening[k]
  BY <1>1, <1>2, AppendProperties DEF BusInv, BusTypeOK
<1>5. /\ wire' \in Seq(Commands) /\ wire' # <<>> /\ Len(wire') = Len(wire) + 1
      /\ wire'[Len(wire')] = c
      /\ \A i \in 1 .. Len(wire) : wire'[i] = wire[i]
      /\ \A i \in 1 .. Len(wire') : i \in 1 .. Len(wire) \/ wire'[i] = c
  BY <1>2, <1>3, Sending DEF BusInv
<1>6. \A k \in 1 .. Len(listening') : listening'[k] \subseteq {k}
  <2> SUFFICES ASSUME NEW k \in 1 .. Len(listening') PROVE listening'[k] \subseteq {k}
    OBVIOUS
  <2>1. k \in 1 .. Len(listening) \/ k = n
    BY <1>1, <1>4
  <2> QED
    BY <1>4, <2>1 DEF BusInv, OneHandler
<1>7. \A i \in 1 .. Len(wire') :
         wire'[i].set = wire'[i].handler /\ wire'[i].set \in 1 .. Len(listening')
  <2> SUFFICES ASSUME NEW i \in 1 .. Len(wire')
               PROVE  wire'[i].set = wire'[i].handler /\ wire'[i].set \in 1 .. Len(listening')
    OBVIOUS
  <2>1. CASE wire'[i] = c
    BY <1>1, <1>3, <1>4, <2>1
  <2>2. CASE i \in 1 .. Len(wire)
    <3>1. wire[i].set = wire[i].handler /\ wire[i].set \in 1 .. Len(listening)
      BY <2>2 DEF BusInv, OneHandler
    <3> QED
      BY <1>1, <1>4, <1>5, <2>2, <3>1
  <2> QED
    BY <1>5, <2>1, <2>2
<1>8. (Told /\ Asking(set))'
  <2>1. Len(wire') \in 1 .. Len(wire')
    BY <1>1, <1>5
  <2> QED
    BY <1>2, <1>3, <1>5, <2>1 DEF Told, Asking
<1> QED
  BY <1>1, <1>2, <1>4, <1>5, <1>6, <1>7, <1>8

\* The last socket: its handler's set goes, whether Redis has answered or not.
LEMMA Unsubscribes ==
  ASSUME BusInv, set # 0, Fanout!Unsubscribe(handler)
  PROVE  /\ listening' \in Seq(SUBSET Nat) /\ wire' \in Seq(Commands) /\ set' = 0
         /\ \A k \in 1 .. Len(listening') : listening'[k] \subseteq {k}
         /\ \A i \in 1 .. Len(wire') :
              wire'[i].set = wire'[i].handler /\ wire'[i].set \in 1 .. Len(listening')
         /\ ~Told'
<1>1. /\ Len(listening) \in Nat /\ Len(wire) \in Nat /\ set \in 1 .. Len(listening)
      /\ handler = set /\ listening[set] \subseteq {set}
  BY LenProperties DEF BusInv, BusTypeOK, OneHandler
<1> DEFINE c == [cmd |-> "UNSUBSCRIBE", handler |-> handler, set |-> set]
<1>2. listening[set] \ {handler} = {}
  BY <1>1
<1>3. listening' = [listening EXCEPT ![set] = {}] /\ set' = 0 /\ wire' = Append(wire, c)
  BY <1>1, <1>2 DEF Fanout!Unsubscribe
<1>4. c \in Commands /\ c.cmd = "UNSUBSCRIBE" /\ c.handler = set /\ c.set = set
  BY <1>1 DEF Commands, BusInv, BusTypeOK
<1> HIDE DEF c
<1>5. /\ listening' \in Seq(SUBSET Nat) /\ Len(listening') = Len(listening)
      /\ \A k \in 1 .. Len(listening) : listening'[k] = IF k = set THEN {} ELSE listening[k]
  <2>1. listening \in Seq(SUBSET Nat) /\ {} \in SUBSET Nat
    BY DEF BusInv, BusTypeOK
  <2> QED
    BY <1>1, <1>3, <2>1, ExceptSeq
<1>6. /\ wire' \in Seq(Commands) /\ wire' # <<>> /\ Len(wire') = Len(wire) + 1
      /\ wire'[Len(wire')] = c
      /\ \A i \in 1 .. Len(wire) : wire'[i] = wire[i]
      /\ \A i \in 1 .. Len(wire') : i \in 1 .. Len(wire) \/ wire'[i] = c
  BY <1>3, <1>4, Sending DEF BusInv
<1>7. \A k \in 1 .. Len(listening') : listening'[k] \subseteq {k}
  BY <1>5 DEF BusInv, OneHandler
<1>8. \A i \in 1 .. Len(wire') :
         wire'[i].set = wire'[i].handler /\ wire'[i].set \in 1 .. Len(listening')
  BY <1>1, <1>4, <1>5, <1>6 DEF BusInv, OneHandler
<1>9. ~Told'
  BY <1>4, <1>6 DEF Told
<1> QED
  BY <1>3, <1>5, <1>6, <1>7, <1>8, <1>9

\* The head of the wire goes.
LEMMA Answering ==
  ASSUME BusInv, wire # <<>>, wire' = Tail(wire)
  PROVE  /\ wire' \in Seq(Commands) /\ 1 \in 1 .. Len(wire) /\ Head(wire) = wire[1]
         /\ \A i \in 1 .. Len(wire') : i + 1 \in 1 .. Len(wire) /\ wire'[i] = wire[i + 1]
         /\ \A i \in 1 .. Len(wire) : i = 1 \/ i - 1 \in 1 .. Len(wire')
         /\ wire' # <<>> => Len(wire') + 1 = Len(wire) /\ Len(wire') \in 1 .. Len(wire')
         /\ wire' = <<>> => Len(wire) = 1
<1>1. wire \in Seq(Commands) /\ Len(wire) \in Nat \ {0}
  BY EmptySeq DEF BusInv, BusTypeOK
<1>2. /\ wire' \in Seq(Commands) /\ Len(wire') = Len(wire) - 1
      /\ \A i \in 1 .. Len(wire') : wire'[i] = wire[i + 1]
  BY <1>1, HeadTailProperties
<1>3. wire' # <<>> => Len(wire') \in Nat \ {0}
  BY <1>2, EmptySeq
<1>4. wire' = <<>> => Len(wire') = 0
  BY EmptySeq
<1>5. Head(wire) = wire[1]
  BY <1>1
<1> QED
  BY <1>1, <1>2, <1>3, <1>4, <1>5

\* What a page does leaves the bus alone, and opens no socket at the server.
LEMMA BusApart ==
  ASSUME SocketsInv, BusInv, UNCHANGED bus,
         UNCHANGED <<owner, far>> \/ \E p \in Pages : Fanout!Opens(p)
  PROVE  BusInv'
<1>1. far' \in Seq(FarEnds) /\ Len(far') = Len(owner') /\ OpenSockets(far') = OpenSockets(far)
  <2>1. ASSUME NEW p \in Pages, Fanout!Opens(p)
        PROVE  far' \in Seq(FarEnds) /\ Len(far') = Len(owner') /\ OpenSockets(far') = OpenSockets(far)
    <3>1. far' = Append(far, "upgrading") /\ Len(owner') = Len(owner) + 1
      BY <2>1, Opening
    <3>2. "upgrading" \in FarEnds /\ far \in Seq(FarEnds) /\ Len(far) \in Nat /\ Len(far) = Len(owner)
      BY LenProperties DEF FarEnds, BusInv, BusTypeOK
    <3>3. /\ far' \in Seq(FarEnds) /\ Len(far') = Len(far) + 1 /\ far'[Len(far) + 1] = "upgrading"
          /\ \A s \in 1 .. Len(far) : far'[s] = far[s]
      BY <3>1, <3>2, AppendProperties
    <3>4. 1 .. Len(far') = (1 .. Len(far)) \cup {Len(far) + 1}
      BY <3>2, <3>3
    <3> QED
      BY <3>1, <3>2, <3>3, <3>4 DEF OpenSockets
  <2> QED
    BY <2>1 DEF BusInv, BusTypeOK
<1>2. BusTypeOK' /\ OneHandler'
  BY <1>1 DEF BusInv, BusTypeOK, OneHandler, bus
<1> QED
  BY <1>2 DEF BusInv, WillHear, Told, Asking, bus

LEMMA BusKept == ASSUME SocketsInv, BusInv, [Fanout!FanoutNext]_fanoutVars PROVE BusInv'
<1>1. ASSUME NEW p \in Pages, Fanout!Start(p) \/ Fanout!Stop(p) \/ Fanout!Fires(p) PROVE BusInv'
  <2>1. UNCHANGED bus /\ (UNCHANGED <<owner, far>> \/ \E q \in Pages : Fanout!Opens(q))
    BY <1>1 DEF Fanout!Start, Fanout!Stop, Fanout!Fires, Fanout!bus, Fanout!server, Fanout!sockets, bus
  <2> QED
    BY <2>1, BusApart
<1>2. ASSUME NEW s \in DOMAIN owner, Fanout!OnClose(s) PROVE BusInv'
  <2>1. UNCHANGED bus /\ UNCHANGED <<owner, far>>
    BY <1>2 DEF Fanout!OnClose, Fanout!bus, Fanout!server, bus
  <2> QED
    BY <2>1, BusApart
<1>3. \A s \in DOMAIN owner : s \in 1 .. Len(far)
  BY LenProperties DEF SocketsInv, SocketsTypeOK, BusInv, BusTypeOK
<1>4. ASSUME NEW s \in DOMAIN owner, Fanout!Upgrade(s) PROVE BusInv'
  <2>1. /\ far[s] = "upgrading" /\ far' = [far EXCEPT ![s] = "open"] /\ count' = count + 1
        /\ UNCHANGED <<owner, on, failures>>
    BY <1>4 DEF Fanout!Upgrade
  <2>2. /\ far' \in Seq(FarEnds) /\ Len(far') = Len(owner')
        /\ Cardinality(OpenSockets(far')) = count'
    <3>1. "open" \in FarEnds /\ s \in 1 .. Len(far)
      BY <1>3 DEF FarEnds
    <3> QED
      BY <2>1, <3>1, SocketOpens DEF BusInv, BusTypeOK, OneHandler
  <2>3. CASE count = 0
    <3>1. handler' = Len(listening) + 1 /\ Fanout!Subscribe(Len(listening) + 1)
      BY <1>4, <2>3 DEF Fanout!Upgrade
    <3>2. /\ listening' \in Seq(SUBSET Nat) /\ wire' \in Seq(Commands) /\ set' \in Nat \ {0}
          /\ handler' = set' /\ set' <= Len(listening')
          /\ \A k \in 1 .. Len(listening') : listening'[k] \subseteq {k}
          /\ \A i \in 1 .. Len(wire') :
               wire'[i].set = wire'[i].handler /\ wire'[i].set \in 1 .. Len(listening')
          /\ Told' /\ Asking(set)'
      BY <2>3, <3>1, Subscribes
    <3>3. BusTypeOK'
      BY <2>1, <2>2, <3>2 DEF BusInv, BusTypeOK
    <3>4. OneHandler'
      BY <2>1, <2>2, <2>3, <3>2 DEF BusInv, BusTypeOK, OneHandler
    <3>5. WillHear'
      BY <3>2 DEF WillHear
    <3> QED
      BY <3>3, <3>4, <3>5 DEF BusInv
  <2>4. CASE count # 0
    <3>1. UNCHANGED <<handler, listening, set, wire>>
      BY <1>4, <2>4 DEF Fanout!Upgrade
    <3>2. BusTypeOK' /\ OneHandler'
      BY <2>1, <2>2, <2>4, <3>1 DEF BusInv, BusTypeOK, OneHandler
    <3> QED
      BY <2>1, <3>1, <3>2 DEF BusInv, WillHear, Told, Asking
  <2> QED
    BY <2>3, <2>4
<1>5. ASSUME NEW s \in DOMAIN owner, Fanout!Rejects(s) PROVE BusInv'
  <2>1. /\ far[s] = "upgrading" /\ far' = [far EXCEPT ![s] = "closed"] /\ UNCHANGED <<owner, bus>>
    BY <1>5 DEF Fanout!Rejects, Fanout!server, Fanout!bus, bus
  <2>2. "closed" \in FarEnds /\ s \in 1 .. Len(far)
    BY <1>3 DEF FarEnds
  <2>3. far' \in Seq(FarEnds) /\ Len(far') = Len(owner') /\ OpenSockets(far') = OpenSockets(far)
    BY <2>1, <2>2, SocketOpens DEF BusInv, BusTypeOK
  <2>4. BusTypeOK' /\ OneHandler'
    BY <2>1, <2>3 DEF BusInv, BusTypeOK, OneHandler, bus
  <2> QED
    BY <2>1, <2>4 DEF BusInv, WillHear, Told, Asking, bus
<1>6. ASSUME NEW s \in DOMAIN owner, Fanout!Gone(s) PROVE BusInv'
  <2>1. /\ far[s] = "open" /\ far' = [far EXCEPT ![s] = "closed"] /\ count' = count - 1
        /\ UNCHANGED <<owner, on, failures>>
    BY <1>6 DEF Fanout!Gone, Fanout!Removes
  <2>2. /\ far' \in Seq(FarEnds) /\ Len(far') = Len(owner')
        /\ Cardinality(OpenSockets(far')) = count' /\ count > 0
    <3>1. "closed" \in FarEnds /\ s \in 1 .. Len(far)
      BY <1>3 DEF FarEnds
    <3>2. Cardinality(OpenSockets(far)) # 0
      <4>1. IsFiniteSet(1 .. Len(far)) /\ OpenSockets(far) \in SUBSET (1 .. Len(far))
        BY FS_Interval, LenProperties DEF OpenSockets, BusInv, BusTypeOK
      <4>2. IsFiniteSet(OpenSockets(far)) /\ s \in OpenSockets(far)
        BY <2>1, <3>1, <4>1, FS_Subset DEF OpenSockets
      <4> QED
        BY <4>2, FS_EmptySet
    <3>3. /\ far' \in Seq(FarEnds) /\ Len(far') = Len(far)
          /\ Cardinality(OpenSockets(far)) \in Nat
          /\ Cardinality(OpenSockets(far')) = Cardinality(OpenSockets(far)) - 1
      BY <2>1, <3>1, SocketOpens DEF BusInv
    <3> QED
      BY <2>1, <3>2, <3>3 DEF BusInv, BusTypeOK, OneHandler
  <2>3. set # 0 /\ handler # 0 /\ count \in Nat /\ set \in Nat
    BY <2>2 DEF BusInv, BusTypeOK, OneHandler
  <2>4. CASE count = 1
    <3>1. handler' = 0 /\ Fanout!Unsubscribe(handler)
      BY <1>6, <2>3, <2>4 DEF Fanout!Gone, Fanout!Removes
    <3>2. /\ listening' \in Seq(SUBSET Nat) /\ wire' \in Seq(Commands) /\ set' = 0
          /\ \A k \in 1 .. Len(listening') : listening'[k] \subseteq {k}
          /\ \A i \in 1 .. Len(wire') :
               wire'[i].set = wire'[i].handler /\ wire'[i].set \in 1 .. Len(listening')
          /\ ~Told'
      BY <2>3, <3>1, Unsubscribes
    <3>3. BusTypeOK'
      BY <2>1, <2>2, <2>3, <2>4, <3>2 DEF BusInv, BusTypeOK
    <3>4. OneHandler'
      <4>1. Len(listening') \in Nat
        BY <3>2, LenProperties
      <4> QED
        BY <2>1, <2>2, <2>4, <3>1, <3>2, <4>1 DEF OneHandler
    <3>5. WillHear'
      BY <3>2 DEF WillHear
    <3> QED
      BY <3>3, <3>4, <3>5 DEF BusInv
  <2>5. CASE count # 1
    <3>1. UNCHANGED <<handler, listening, set, wire>>
      BY <1>6, <2>5 DEF Fanout!Gone, Fanout!Removes
    <3>2. BusTypeOK' /\ OneHandler'
      BY <2>1, <2>2, <2>3, <2>5, <3>1 DEF BusInv, BusTypeOK, OneHandler
    <3> QED
      BY <2>1, <3>1, <3>2 DEF BusInv, WillHear, Told, Asking
  <2> QED
    BY <2>4, <2>5
<1>7. ASSUME Fanout!Answered PROVE BusInv'
  <2> DEFINE c == wire[1]
  <2>1. /\ wire # <<>> /\ wire' = Tail(wire)
        /\ UNCHANGED <<set, failures, count, handler, owner, far>>
    BY <1>7 DEF Fanout!Answered, Fanout!server, Fanout!sockets
  <2>2. /\ wire' \in Seq(Commands) /\ 1 \in 1 .. Len(wire) /\ Head(wire) = wire[1]
        /\ \A i \in 1 .. Len(wire') : i + 1 \in 1 .. Len(wire) /\ wire'[i] = wire[i + 1]
        /\ \A i \in 1 .. Len(wire) : i = 1 \/ i - 1 \in 1 .. Len(wire')
        /\ wire' # <<>> => Len(wire') + 1 = Len(wire) /\ Len(wire') \in 1 .. Len(wire')
        /\ wire' = <<>> => Len(wire) = 1
    BY <2>1, Answering
  <2>3. /\ c \in Commands /\ c.set = c.handler /\ c.set \in 1 .. Len(listening)
    BY <2>2, ElementOfSeq DEF BusInv, BusTypeOK, OneHandler
  <2>4. /\ on' = (c.cmd = "SUBSCRIBE")
        /\ listening' = IF c.cmd = "SUBSCRIBE"
                          THEN [listening EXCEPT ![c.set] = @ \cup {c.handler}] ELSE listening
    BY <1>7, <2>2 DEF Fanout!Answered
  <2>5. /\ listening' \in Seq(SUBSET Nat) /\ Len(listening') = Len(listening)
        /\ \A k \in 1 .. Len(listening) : listening'[k] =
             IF k = c.set /\ c.cmd = "SUBSCRIBE" THEN listening[k] \cup {k} ELSE listening[k]
    <3>1. CASE c.cmd = "SUBSCRIBE"
      <4>1. listening[c.set] \cup {c.handler} \in SUBSET Nat
        BY <2>3, ElementOfSeq DEF BusInv, BusTypeOK, Commands
      <4>2. listening' = [listening EXCEPT ![c.set] = listening[c.set] \cup {c.handler}]
        BY <2>4, <3>1
      <4>3. c.set \in 1 .. Len(listening) /\ c.set = c.handler
        BY <2>3
      <4>4. listening \in Seq(SUBSET Nat)
        BY DEF BusInv, BusTypeOK
      <4> HIDE DEF c
      <4>5. /\ listening' \in Seq(SUBSET Nat) /\ Len(listening') = Len(listening)
            /\ \A k \in 1 .. Len(listening) : listening'[k] =
                 IF k = c.set THEN listening[c.set] \cup {c.handler} ELSE listening[k]
        BY <4>1, <4>2, <4>3, <4>4, ExceptSeq
      <4> QED
        BY <3>1, <4>3, <4>5
    <3>2. CASE c.cmd # "SUBSCRIBE"
      BY <2>4, <3>2 DEF BusInv, BusTypeOK
    <3> QED
      BY <3>1, <3>2
  <2>6. BusTypeOK'
    BY <2>1, <2>2, <2>4, <2>5 DEF BusInv, BusTypeOK
  <2>7. OneHandler'
    <3>1. \A k \in 1 .. Len(listening') : listening'[k] \subseteq {k}
      BY <2>5 DEF BusInv, OneHandler
    <3>2. \A i \in 1 .. Len(wire') :
            wire'[i].set = wire'[i].handler /\ wire'[i].set \in 1 .. Len(listening')
      BY <2>2, <2>5 DEF BusInv, OneHandler
    <3> QED
      BY <2>1, <2>5, <3>1, <3>2 DEF BusInv, OneHandler
  <2>8. ASSUME failures = 0 PROVE WillHear'
    <3>1. Told' <=> Told
      BY <2>1, <2>2, <2>4, <2>6 DEF Told, BusTypeOK
    <3>2. ASSUME set # 0 PROVE listening'[set] = {set} \/ Asking(set)'
      <4>1. set \in 1 .. Len(listening) /\ listening[set] \subseteq {set}
        BY <3>2, LenProperties DEF BusInv, BusTypeOK, OneHandler
      <4>2. CASE listening[set] = {set}
        BY <2>5, <4>1, <4>2
      <4>3. ASSUME NEW i \in 1 .. Len(wire), wire[i].cmd = "SUBSCRIBE", wire[i].set = set
            PROVE  listening'[set] = {set} \/ Asking(set)'
        <5>1. CASE i = 1
          BY <2>5, <4>1, <4>3, <5>1
        <5>2. CASE i # 1
          <6>1. i - 1 \in 1 .. Len(wire') /\ wire'[i - 1] = wire[i]
            BY <2>2, <5>2
          <6> QED
            BY <2>1, <4>3, <6>1 DEF Asking
        <5> QED
          BY <5>1, <5>2
      <4> QED
        BY <2>8, <3>2, <4>2, <4>3 DEF BusInv, WillHear, Asking
    <3> QED
      BY <2>1, <2>8, <3>1, <3>2 DEF BusInv, WillHear
  <2> QED
    BY <2>1, <2>6, <2>7, <2>8 DEF BusInv
<1>8. ASSUME Fanout!SubscribeFails PROVE BusInv'
  <2>1. /\ wire # <<>> /\ wire' = Tail(wire) /\ failures' = failures + 1
        /\ UNCHANGED <<listening, set, on, count, handler, owner, far>>
    BY <1>8 DEF Fanout!SubscribeFails, Fanout!server, Fanout!sockets
  <2>2. /\ wire' \in Seq(Commands)
        /\ \A i \in 1 .. Len(wire') : i + 1 \in 1 .. Len(wire) /\ wire'[i] = wire[i + 1]
    BY <2>1, Answering
  <2>3. BusTypeOK' /\ OneHandler'
    BY <2>1, <2>2 DEF BusInv, BusTypeOK, OneHandler
  <2> QED
    BY <2>1, <2>3 DEF BusInv, BusTypeOK
<1>9. CASE UNCHANGED fanoutVars
  BY <1>9, BusApart DEF fanoutVars, bus
<1> QED
  BY <1>1, <1>2, <1>4, <1>5, <1>6, <1>7, <1>8, <1>9 DEF Fanout!FanoutNext

LEMMA FanoutEvents == ASSUME SocketsInv, HeldInv, BusInv PROVE Fanout!EventsArrive
<1>1. DOMAIN owner = 1 .. Len(far) /\ DOMAIN owner = 1 .. Len(owner)
  BY LenProperties DEF SocketsInv, SocketsTypeOK, BusInv, BusTypeOK
<1>2. ASSUME wire = <<>>, failures = 0
      PROVE  Fanout!Copies = IF \E s \in DOMAIN owner : far[s] = "open" THEN 1 ELSE 0
  <2>1. set # 0 <=> \E s \in DOMAIN owner : far[s] = "open"
    <3>1. IsFiniteSet(OpenSockets(far))
      <4>1. IsFiniteSet(1 .. Len(far)) /\ OpenSockets(far) \in SUBSET (1 .. Len(far))
        BY FS_Interval, LenProperties DEF OpenSockets, BusInv, BusTypeOK
      <4> QED
        BY <4>1, FS_Subset
    <3>2. count = 0 <=> OpenSockets(far) = {}
      BY <3>1, FS_EmptySet DEF BusInv, OneHandler
    <3>3. count \in Nat /\ (set # 0 <=> count > 0)
      BY DEF BusInv, BusTypeOK, OneHandler
    <3> QED
      BY <1>1, <3>2, <3>3 DEF OpenSockets
  <2>2. 1 .. Len(wire) = {}
    BY <1>2
  <2>3. on <=> set # 0
    BY <1>2 DEF BusInv, WillHear, Told
  <2>4. set # 0 => listening[set] = {set}
    BY <1>2, <2>2 DEF BusInv, WillHear, Asking
  <2>5. set # 0 => Fanout!Cardinality(listening[set]) = 1
    BY <2>4, FanoutCardinality, FS_Singleton
  <2> QED
    BY <2>1, <2>3, <2>5 DEF Fanout!Copies
<1>3. Fanout!StaysTuned
  BY <1>1 DEF Fanout!StaysTuned, SocketsInv, Tuned, Open, Soon
<1>4. ASSUME NEW p \in Pages PROVE Fanout!Cardinality(Fanout!Ears(p)) <= starts[p]
  <2>1. Fanout!Ears(p) \in SUBSET Holding(p, owner, near)
    BY <1>1 DEF Fanout!Ears, Holding
  <2>2. /\ Cardinality(Fanout!Ears(p)) <= Cardinality(Holding(p, owner, near))
        /\ Cardinality(Fanout!Ears(p)) \in Nat
    BY <2>1, HoldingFacts, FS_Subset, FS_CardinalityType
  <2>3. Few(p) /\ starts[p] \in Nat
    BY DEF HeldInv
  <2>4. Cardinality(Fanout!Ears(p)) <= starts[p]
    BY <2>2, <2>3, HoldingFacts DEF Few
  <2> QED
    BY <2>4, FanoutCardinality
<1> QED
  BY <1>2, <1>3, <1>4 DEF Fanout!EventsArrive, Fanout!HeardOnce, Fanout!NoMoreThanStarts

\* An event published when Redis has answered, and has refused no SUBSCRIBE, is sent once
\* to every socket open at the server and to nobody else; a page that is started is
\* never left without a socket or a reconnect; and it holds at most one socket for each
\* start, so that it shows an event twice only after a restart (realtime.ts, whose
\* onclose reconnects whichever socket has closed).
THEOREM EventsArriveAlways == Spec => []EventsArrive
<1> DEFINE Inv == part = "fanout" => SocketsInv /\ HeldInv /\ BusInv
<1>1. Init => Inv
  BY FanoutInit
<1>2. Inv /\ [Next]_platformVars => Inv'
  BY PartStays, FanoutSteps, SocketsKept, HeldKept, BusKept
<1>3. Inv => EventsArrive
  BY FanoutEvents DEF EventsArrive
<1> QED
  BY <1>1, <1>2, <1>3, PTL DEF Spec, platformVars
=============================================================================
