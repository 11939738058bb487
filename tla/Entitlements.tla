---------------------------- MODULE Entitlements ----------------------------
(***************************************************************************)
(* Access of one buyer to one prompt: the Purchase documents that the      *)
(* indexer, settlement polls and the dispute cleanup write, and the        *)
(* Entitlement record that is derived from them                            *)
(* (server/src/services/entitlementService.ts, services/indexer.ts,        *)
(* jobs/handlers/).  The endpoint that records purchases itself            *)
(* (versioningControllers.ts:77) files them under the prompt's database    *)
(* id, which no event carries: they belong to no pair of this model.       *)
(***************************************************************************)
EXTENDS Integers, Sequences

CONSTANTS
    Askers, \* requests, jobs and scripts in flight
    Nobody,
    MaxTx   \* bound on the buyer's purchases on chain

ASSUME AskerAssumption == Nobody \notin Askers

VARIABLES
    chain,       \* the buyer's license as of the last indexed event
    txs,         \* purchases on chain so far, each with its txHash
    purchases,   \* the Purchase documents, in natural order
    access,      \* status of the Entitlement record
    asking,      \* what each request is doing
    solo,        \* the repair that nothing has disturbed so far
    repaired,    \* a repair was undisturbed, and nothing changed since
    overwritten  \* the cleanup has rewritten a dispute that was settled

entitlementVars ==
    <<chain, txs, purchases, access, asking, solo, repaired, overwritten>>

AtRest == [pc |-> "rest"]

EntitlementInit ==
    /\ chain = "none"
    /\ txs = 0
    /\ purchases = <<>>
    /\ access = "none"
    /\ asking = [a \in Askers |-> AtRest]
    /\ solo = Nobody /\ repaired = FALSE
    /\ overwritten = FALSE

Does(a, next) == asking' = [asking EXCEPT ![a] = next]

Disturbed == solo' = Nobody /\ repaired' = FALSE

NewPurchase(tx) == [tx |-> tx, status |-> "purchased", resolution |-> "none"]

-----------------------------------------------------------------------------
(* The indexer, one event at a time *)

\* PromptPurchased: an upsert by transaction.
PromptPurchased ==
    /\ chain \in {"none", "refunded"}
    /\ txs < MaxTx
    /\ txs' = txs + 1
    /\ chain' = "held"
    /\ IF \E i \in DOMAIN purchases : purchases[i].tx = txs'
       THEN UNCHANGED purchases
       ELSE purchases' = Append(purchases, NewPurchase(txs'))
    /\ Disturbed
    /\ UNCHANGED <<access, asking, overwritten>>

\* findOneAndUpdate by prompt and buyer: the first document.
FirstPurchase(f) ==
    purchases' = IF purchases = <<>> THEN <<>> ELSE [purchases EXCEPT ![1] = f]

DisputeOpened ==
    /\ chain = "held"
    /\ chain' = "disputed"
    /\ FirstPurchase([purchases[1] EXCEPT !.status = "disputed"])
    /\ Disturbed
    /\ UNCHANGED <<txs, access, asking, overwritten>>

DisputeResolved(resolution) ==
    /\ chain = "disputed"
    /\ chain' = IF resolution = "refunded" THEN "refunded" ELSE "held"
    /\ FirstPurchase([purchases[1] EXCEPT !.status = "resolved",
                                          !.resolution = resolution])
    /\ Disturbed
    /\ UNCHANGED <<txs, access, asking, overwritten>>

-----------------------------------------------------------------------------
(* Other writers of Purchase *)

\* handleSettlementPoll: an upsert by prompt and buyer, ahead of the indexer.
SettlementPoll ==
    /\ purchases = <<>>
    /\ txs < MaxTx
    /\ purchases' = <<NewPurchase(txs + 1)>>
    /\ Disturbed
    /\ UNCHANGED <<chain, txs, access, asking, overwritten>>

\* handleStaleDisputeCleanup finds old disputes, ...
FindStaleDisputes(a) ==
    LET stale == {i \in DOMAIN purchases : purchases[i].status = "disputed"}
    IN /\ asking[a] = AtRest
       /\ stale # {}
       /\ Does(a, [pc |-> "cleanup", ids |-> stale])
       /\ UNCHANGED <<chain, txs, purchases, access, solo, repaired, overwritten>>

\* ... and closes them by id.
CloseStaleDisputes(a) ==
    LET ids == asking[a].ids
    IN /\ asking[a].pc = "cleanup"
       /\ purchases' = [i \in DOMAIN purchases |->
             IF i \in ids
             THEN [purchases[i] EXCEPT !.status = "resolved",
                                       !.resolution = "rejected"]
             ELSE purchases[i]]
       /\ overwritten' = (overwritten \/ \E i \in ids : purchases[i].status # "disputed")
       /\ Does(a, AtRest)
       /\ Disturbed
       /\ UNCHANGED <<chain, txs, access>>

-----------------------------------------------------------------------------
(* The Entitlement record *)

\* Mutant: only the status is looked at, which is never "refunded".
EntitledByStatus(p) == IF p.status = "refunded" THEN "refunded" ELSE "active"

Entitled(p) == IF p.resolution = "refunded" THEN "refunded" ELSE "active"

\* getEntitlementState: no record yet, so look for the purchase, ...
LookUp(a) ==
    /\ asking[a] = AtRest
    /\ access = "none"
    /\ Does(a, [pc |-> "lookup"])
    /\ UNCHANGED <<chain, txs, purchases, access, solo, repaired, overwritten>>

LookUpPurchase(a) ==
    /\ asking[a].pc = "lookup"
    /\ Does(a, IF purchases = <<>> THEN AtRest
               ELSE [pc |-> "cache", status |-> Entitled(purchases[1])])
    /\ UNCHANGED <<chain, txs, purchases, access, solo, repaired, overwritten>>

\* ... and create the record, unless the unique index has one by now.
CacheAccess(a) ==
    /\ asking[a].pc = "cache"
    /\ access' = IF access = "none" THEN asking[a].status ELSE access
    /\ Does(a, AtRest)
    /\ Disturbed
    /\ UNCHANGED <<chain, txs, purchases, overwritten>>

\* grantEntitlement for an item of a bundle.
GrantBundleItem ==
    /\ access' = "active"
    /\ Disturbed
    /\ UNCHANGED <<chain, txs, purchases, asking, overwritten>>

\* POST /revoke
ModeratorRevokes ==
    /\ access' = "revoked"
    /\ Disturbed
    /\ UNCHANGED <<chain, txs, purchases, asking, overwritten>>

\* repairEntitlementState reads all purchases and goes through them; the manual
\* repair is for one of them.
StartRepair(a, todo) ==
    /\ asking[a] = AtRest
    /\ Does(a, [pc |-> "compare", todo |-> todo])
    /\ solo' = a
    /\ UNCHANGED <<chain, txs, purchases, access, repaired, overwritten>>

AllPurchases == [i \in DOMAIN purchases |-> Entitled(purchases[i])]

\* What is left of a repair after its first purchase; the last one ends it.
Proceed(a) ==
    LET rest == Tail(asking[a].todo)
    IN IF rest = <<>> THEN Does(a, AtRest) /\ repaired' = (solo = a)
       ELSE Does(a, [pc |-> "compare", todo |-> rest]) /\ UNCHANGED repaired

Compare(a) ==
    /\ asking[a].pc = "compare"
    /\ IF access = Head(asking[a].todo)
       THEN Proceed(a)
       ELSE Does(a, [asking[a] EXCEPT !.pc = "write"]) /\ UNCHANGED repaired
    /\ UNCHANGED <<chain, txs, purchases, access, solo, overwritten>>

\* grantEntitlement or revokeEntitlement, an unconditional upsert.
WriteAccess(a) ==
    /\ asking[a].pc = "write"
    /\ access' = Head(asking[a].todo)
    /\ solo' = IF solo = a THEN a ELSE Nobody
    /\ Proceed(a)
    /\ UNCHANGED <<chain, txs, purchases, overwritten>>

AskerDies(a) ==
    /\ asking[a] # AtRest
    /\ Does(a, AtRest)
    /\ solo' = IF solo = a THEN Nobody ELSE solo
    /\ UNCHANGED <<chain, txs, purchases, access, repaired, overwritten>>

EntitlementNext ==
    \/ PromptPurchased
    \/ DisputeOpened
    \/ \E resolution \in {"refunded", "rejected"} : DisputeResolved(resolution)
    \/ SettlementPoll
    \/ GrantBundleItem \/ ModeratorRevokes
    \/ \E a \in Askers :
          \/ FindStaleDisputes(a) \/ CloseStaleDisputes(a)
          \/ LookUp(a) \/ LookUpPurchase(a) \/ CacheAccess(a)
          \/ purchases # <<>> /\ StartRepair(a, AllPurchases)
          \/ \E i \in DOMAIN purchases : StartRepair(a, <<Entitled(purchases[i])>>)
          \/ Compare(a) \/ WriteAccess(a)
          \/ AskerDies(a)

EntitlementSpec == EntitlementInit /\ [][EntitlementNext]_entitlementVars

-----------------------------------------------------------------------------
(* Properties *)

\* The repair job (entitlementService.ts:130) makes the record follow the
\* chain: after a repair that nothing interfered with, the buyer has access
\* unless the purchase was refunded.  It needs one Purchase document for the
\* pair, which no index enforces (Purchase.ts:57 is not unique, against what
\* docs/CONCURRENCY_STRATEGY.md:24-26 says), and a cleanup that has not
\* overwritten a dispute settled in the meantime, as staleDisputeCleanup.ts:29 may.
RepairFollowsChain ==
    repaired /\ Len(purchases) = 1 /\ ~overwritten =>
        access = IF chain = "refunded" THEN "refunded" ELSE "active"
=============================================================================
