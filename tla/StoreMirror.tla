---------------------------- MODULE StoreMirror ----------------------------
(***************************************************************************)
(* The copy of a store's objects: what the pages of a sync and the webhooks    *)
(* write, with one function for each family of objects (packages/sync/src/       *)
(* writers.ts, webhook-appliers.ts, modules/index.ts, dto.ts).                    *)
(*                                                                         *)
(* One object stands for each family.  The jobs that write are processed in any  *)
(* order, whatever they were given first; a write is one transaction.  Which      *)
(* deliveries and pages there are is WebhookIntake's and SyncRun's matter.        *)
(***************************************************************************)
EXTENDS Naturals, FiniteSets

CONSTANTS Things,    \* families among product, customer, order, checkout, location, level,
                     \* collection, rule and code
          Pieces,    \* what variants and line items there may be
          MaxEdits,  \* bound: changes at Shopify
          MaxReads   \* bound: pages and orders fetched

VARIABLES
  shop,     \* what Shopify has
  mirror,   \* what the tables have
  transit,  \* payloads of deliveries and pages that have yet to be written
  sound,    \* ghost: things last written as they are at Shopify, after what they refer to
  edits, reads

mirrorVars == <<shop, mirror, transit, sound, edits, reads>>

-----------------------------------------------------------------------------
(* The families.                                                            *)

\* upsertProducts and upsertOrders write variants and line items along.
Composed == {"product", "order"}

\* Foreign keys.
Refers(x) == CASE x = "order"    -> {"customer", "product"}
               [] x = "checkout" -> {"customer"}
               [] x = "level"    -> {"location"}
               [] x = "code"     -> {"rule"}
               [] OTHER          -> {}

\* Those which are skipped when what they refer to is unknown, and deleted with it.
Dependent == {"level", "code"}

\* WEBHOOK_APPLIERS: what create and update topics, and delete topics, are about.
Announced == {"product", "customer", "order", "checkout", "collection", "rule", "level"}
Withdrawn == {"product", "customer", "collection", "rule"}

Absent == [rev |-> 0, pieces |-> {}, refs |-> {}]

Init ==
  /\ shop = [x \in Things |-> [rev |-> 0, gone |-> FALSE, pieces |-> {}]]
  /\ mirror = [x \in Things |-> Absent]
  /\ transit = {} /\ sound = {} /\ edits = 0 /\ reads = 0

There(x)  == shop[x].rev > 0 /\ ~shop[x].gone
Stored(x) == mirror[x].rev > 0

\* The REST serialization, the same in a delivery and on a page.
Payload(x) == [of |-> x, rev |-> shop[x].rev, gone |-> shop[x].gone, pieces |-> shop[x].pieces]

-----------------------------------------------------------------------------
(* Shopify.                                                                 *)

Edit == edits < MaxEdits /\ edits' = edits + 1 /\ UNCHANGED <<mirror, reads>>

\* An object is created or changed; a product has a variant, an order an item.
Change(x, pieces) ==
  /\ Edit /\ ~shop[x].gone
  /\ \A y \in Refers(x) \cap Things : IF x \in Dependent THEN There(y) ELSE shop[y].rev > 0
  /\ (pieces = {}) = (x \notin Composed)
  /\ shop' = [shop EXCEPT ![x].rev = @ + 1, ![x].pieces = pieces]
  /\ sound' = sound \ {x}
  /\ transit' = IF x \in Announced THEN transit \cup {Payload(x)'} ELSE transit

\* An object is deleted, with what depends on it.
Remove(x) ==
  /\ Edit /\ There(x) /\ x \in Withdrawn
  /\ LET lost == {x} \cup {y \in Dependent \cap Things : x \in Refers(y)}
     IN /\ shop' = [y \in Things |-> IF y \in lost THEN [shop[y] EXCEPT !.gone = TRUE] ELSE shop[y]]
        /\ sound' = sound \ lost
  /\ transit' = transit \cup {Payload(x)'}

\* A page of the object's module, or applyRefund's GET of the order.
Fetch(x) ==
  /\ There(x) /\ reads < MaxReads /\ reads' = reads + 1
  /\ transit' = transit \cup {Payload(x)}
  /\ UNCHANGED <<shop, mirror, sound, edits>>

-----------------------------------------------------------------------------
(* The writers.                                                             *)

\* The references the maps of known rows resolve; the others are null.
Resolved(x) == {y \in Refers(x) \cap Things : Stored(y)}

\* Mutant: variants and items that have vanished stay.
PiecesAdded(p) == mirror[p.of].pieces \cup p.pieces

\* The payload's variants or items; one without any leaves them alone.
PiecesOf(p) == IF p.pieces = {} THEN mirror[p.of].pieces ELSE p.pieces

\* A payload is right if it is the latest, and what it refers to is in its place.
Right(p) == p = Payload(p.of) /\ \A y \in Refers(p.of) \cap Things : There(y) => Stored(y)

Upsert(p, row) ==
  /\ p \in transit /\ ~p.gone
  /\ mirror' = [mirror EXCEPT ![p.of] = row]
  /\ sound' = IF Right(p) THEN sound \cup {p.of} ELSE sound \ {p.of}
  /\ transit' = transit \ {p}
  /\ UNCHANGED <<shop, edits, reads>>

\* upsertProducts, upsertOrders.
WriteComposed(p) ==
  /\ p.of \in Composed
  /\ Upsert(p, [rev |-> p.rev, pieces |-> PiecesOf(p), refs |-> Resolved(p.of)])

\* upsertCheckouts.
WriteCheckout(p) ==
  /\ p.of = "checkout"
  /\ Upsert(p, [rev |-> p.rev, pieces |-> {}, refs |-> Resolved(p.of)])

\* upsertCustomers, upsertLocations, upsertCollections, upsertPriceRules.
WritePlain(p) ==
  /\ p.of \in {"customer", "location", "collection", "rule"}
  /\ Upsert(p, [rev |-> p.rev, pieces |-> {}, refs |-> {}])

\* upsertInventoryLevels, upsertDiscountCodes.
WriteDependent(p) ==
  /\ p.of \in Dependent
  /\ Upsert(p, IF Resolved(p.of) = {} THEN mirror[p.of]
               ELSE [rev |-> p.rev, pieces |-> {}, refs |-> Resolved(p.of)])

\* The foreign key: ON DELETE SET NULL.
WithoutRef(row, x) == [row EXCEPT !.refs = @ \ {x}]

\* deleteProductByShopifyId and the like: whatever its children were goes with it.
Delete(p) ==
  /\ p \in transit /\ p.gone
  /\ LET lost == {p.of} \cup {y \in Dependent \cap Things : p.of \in mirror[y].refs}
     IN /\ mirror' = [y \in Things |-> IF y \in lost THEN Absent ELSE WithoutRef(mirror[y], p.of)]
        /\ sound' = sound \cup {p.of}
  /\ transit' = transit \ {p}
  /\ UNCHANGED <<shop, edits, reads>>

\* A delivery is lost, or its job dies for good.
Lose(p) ==
  /\ p \in transit
  /\ transit' = transit \ {p}
  /\ UNCHANGED <<shop, mirror, sound, edits, reads>>

MirrorNext ==
  \/ \E x \in Things : \/ \E pieces \in SUBSET Pieces : Change(x, pieces)
                       \/ Remove(x) \/ Fetch(x)
  \/ \E p \in transit : \/ WriteComposed(p) \/ WriteCheckout(p) \/ WritePlain(p)
                        \/ WriteDependent(p) \/ Delete(p) \/ Lose(p)

MirrorSpec == Init /\ [][MirrorNext]_mirrorVars

-----------------------------------------------------------------------------
(* Properties.                                                              *)

\* "keeping the replica a true reflection, not an append-log": a row last written
\* with the latest state of its object, whatever older payload and deletion came
\* before it and whatever became of its neighbours afterwards, has exactly its
\* variants or items, refers to all it refers to at Shopify and to no row that is
\* not there, and is gone if the object is.
MirrorsShop ==
  /\ \A x \in sound : Stored(x) = There(x)
  /\ \A x \in sound : There(x) =>
       /\ mirror[x].rev = shop[x].rev /\ mirror[x].pieces = shop[x].pieces
       /\ \A y \in Refers(x) \cap Things : There(y) => y \in mirror[x].refs
  /\ \A x \in Things : \A y \in mirror[x].refs : Stored(y)

=============================================================================
