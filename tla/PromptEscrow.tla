---------------------------- MODULE PromptEscrow ----------------------------
(***************************************************************************)
(* Purchases, disputes and settlement of the prompt-hash contract, for the *)
(* prompts of one asset (contracts/prompt-hash/src/contract.rs and         *)
(* storage.rs).  Every contract call is one transaction: it either applies *)
(* all of its writes or reverts, so one action is one successful call and  *)
(* a reverted call is a stuttering step.                                   *)
(*                                                                         *)
(* A purchase leaves three records: a license under (prompt, owner), an    *)
(* escrow under (prompt, buyer), and the asset-wide liability counters.    *)
(* Licenses can be resold, the escrow stays under the first buyer's key,   *)
(* and a bundle's escrow is filed under (0, buyer): the three records are  *)
(* related only by what the calls happen to do.                            *)
(***************************************************************************)
EXTENDS Integers, FiniteSets, Functions

CONSTANTS
    Prompts,        \* ids of the listed prompts, all sold in the same asset
    Buyers,         \* accounts other than the prompts' creator
    BundlePrompts,  \* the prompts of the creator's bundle ({}: no bundle)
    Amounts,        \* payments: price after any voucher, plus any tip
    DisputeWindow,  \* DISPUTE_WINDOW_SECS in clock units
    MaxTime,        \* bound on the ledger clock
    SaleStatuses,   \* the sale statuses in use, see EscrowAssumption
    SupplyCaps,     \* the supply caps in use, 0 = unlimited
    MaxSales,       \* bound on the units sold per prompt
    MaxReserve      \* bound on the rounding reserve

\* Prompt ids are handed out from 0 upwards, so any listed prompt implies
\* that prompt 0 exists and the code's "prompt 0 is absent" branches are dead.
\* Of PromptSaleStatus, Draft, Paused and Restricted all just withhold the
\* prompt ("Withheld"), and only Retired is final.
ASSUME EscrowAssumption ==
    /\ Prompts \subseteq Nat /\ 0 \in Prompts
    /\ IsFiniteSet(Prompts) /\ IsFiniteSet(Buyers)
    /\ BundlePrompts \subseteq Prompts
    /\ Amounts \subseteq Nat /\ SupplyCaps \subseteq Nat
    /\ "Active" \in SaleStatuses
    /\ SaleStatuses \subseteq {"Active", "Withheld", "Retired"}
    /\ DisputeWindow \in Nat /\ MaxTime \in Nat
    /\ MaxSales \in Nat /\ MaxReserve \in Nat

VARIABLES
    paused,     \* global pause flag
    saleStatus, \* PromptSaleStatus of each prompt
    sales,      \* sales_count of each prompt
    maxSupply,  \* max_supply of each prompt, 0 = unlimited
    license,    \* original_price of the Purchase under (prompt, owner)
    escrow,     \* PurchaseEscrow under (prompt, buyer)
    dispute,    \* status of the PurchaseDispute under (prompt, buyer)
    pending,    \* AssetLiability.pending
    disputed,   \* AssetLiability.disputed
    reserve,    \* RevenueRoundingReport.reserve_stroops
    balance,    \* the contract's token balance
    now         \* ledger timestamp

listing == <<paused, saleStatus, maxSupply>>
records == <<sales, license, escrow, dispute>>
ledger  == <<pending, disputed, reserve, balance>>
vars    == <<paused, saleStatus, sales, maxSupply, license, escrow, dispute,
             pending, disputed, reserve, balance, now>>

Keys == Prompts \X Buyers

NoLicense == -1

NoEscrow == [status |-> "None", amount |-> 0, deadline |-> 0]

EscrowRecord == [status : {"None", "Pending", "Settled", "Refunded"},
                 amount : Nat, deadline : Nat]

TypeOK ==
    /\ paused \in BOOLEAN
    /\ saleStatus \in [Prompts -> SaleStatuses]
    /\ sales \in [Prompts -> Nat]
    /\ maxSupply \in [Prompts -> Nat]
    /\ license \in [Keys -> Nat \cup {NoLicense}]
    /\ escrow \in [Keys -> EscrowRecord]
    /\ dispute \in [Keys -> {"None", "Open", "Refunded", "Rejected"}]
    /\ pending \in Int /\ disputed \in Int
    /\ reserve \in Nat /\ balance \in Nat /\ now \in Nat

\* create_prompt leaves a prompt active with unlimited supply.
Init ==
    /\ paused = FALSE
    /\ saleStatus = [p \in Prompts |-> "Active"]
    /\ sales = [p \in Prompts |-> 0]
    /\ maxSupply = [p \in Prompts |-> 0]
    /\ license = [k \in Keys |-> NoLicense]
    /\ escrow = [k \in Keys |-> NoEscrow]
    /\ dispute = [k \in Keys |-> "None"]
    /\ pending = 0 /\ disputed = 0
    /\ reserve = 0 /\ balance = 0 /\ now = 0

Holds(p, b) == license[<<p, b>>] # NoLicense

Owners(p) == {b \in Buyers : Holds(p, b)}

\* Mutant: the cap compared one sale late.
SupplyLeftOffByOne(p) == maxSupply[p] > 0 => sales[p] <= maxSupply[p]

\* reserve_supply: a unit is left under the prompt's cap.
SupplyLeft(p) == maxSupply[p] > 0 => sales[p] < maxSupply[p]

\* Mutant: the transfer goes through whatever the balance is.
AffordableUnchecked(amount) == amount >= 0

\* The token contract refuses a transfer out of the contract that is negative
\* or exceeds its balance, and the whole call reverts.
Affordable(amount) == amount >= 0 /\ amount <= balance

NewEscrow(amount) ==
    [status |-> "Pending", amount |-> amount, deadline |-> now + DisputeWindow]

-----------------------------------------------------------------------------
(* Listing administration *)

SetPauseStatus(flag) ==
    /\ paused' = flag
    /\ UNCHANGED <<saleStatus, maxSupply, records, ledger, now>>

SetPromptSaleStatus(p, status) ==
    /\ ~paused
    /\ saleStatus[p] # "Retired"
    /\ saleStatus[p] # status
    /\ saleStatus' = [saleStatus EXCEPT ![p] = status]
    /\ UNCHANGED <<paused, maxSupply, records, ledger, now>>

\* The administrator's moderation path ignores the pause flag.
AdminSetPromptSaleStatus(p, status) ==
    /\ saleStatus[p] # "Retired"
    /\ saleStatus[p] # status
    /\ saleStatus' = [saleStatus EXCEPT ![p] = status]
    /\ UNCHANGED <<paused, maxSupply, records, ledger, now>>

SetPromptMaxSupply(p, cap) ==
    /\ ~paused
    /\ cap = 0 \/ cap >= sales[p]
    /\ maxSupply' = [maxSupply EXCEPT ![p] = cap]
    /\ UNCHANGED <<paused, saleStatus, records, ledger, now>>

-----------------------------------------------------------------------------
(* Purchases *)

\* buy_prompt through execute_buy_with_required_price.  The creator may
\* reprice at any time, so the payment is any of Amounts.  A license bought
\* here never expires: having the record is having access.
BuyPrompt(p, b, amount) ==
    /\ ~paused
    /\ saleStatus[p] = "Active"
    /\ ~Holds(p, b)
    /\ SupplyLeft(p)
    /\ sales[p] < MaxSales
    /\ sales' = [sales EXCEPT ![p] = @ + 1]
    /\ license' = [license EXCEPT ![<<p, b>>] = amount]
    /\ escrow' = [escrow EXCEPT ![<<p, b>>] = NewEscrow(amount)]
    /\ pending' = pending + amount
    /\ balance' = balance + amount
    /\ UNCHANGED <<listing, dispute, disputed, reserve, now>>

\* The prompts of the bundle that b does not own yet.
Missing(b) == {p \in BundlePrompts : ~Holds(p, b)}

First(S) == CHOOSE p \in S : \A q \in S : p <= q

\* Mutant: the even share alone, as before #596.
BundleShareWithoutDust(amount, S, p) == amount \div Cardinality(S)

\* The recorded prices add up to the payment: the first new prompt takes the
\* remainder of the even division.
BundleShare(amount, S, p) ==
    (amount \div Cardinality(S))
      + (IF p = First(S) THEN amount % Cardinality(S) ELSE 0)

BuyBundle(b, amount) ==
    /\ ~paused
    /\ \A p \in BundlePrompts : saleStatus[p] = "Active"
    /\ Missing(b) # {}
    /\ \A p \in Missing(b) : SupplyLeft(p) /\ sales[p] < MaxSales
    /\ sales' = [p \in Prompts |->
                    IF p \in Missing(b) THEN sales[p] + 1 ELSE sales[p]]
    /\ license' = [k \in Keys |->
                      IF k[2] = b /\ k[1] \in Missing(b)
                      THEN BundleShare(amount, Missing(b), k[1])
                      ELSE license[k]]
    /\ escrow' = [escrow EXCEPT ![<<0, b>>] = NewEscrow(amount)]
    /\ pending' = pending + amount
    /\ balance' = balance + amount
    /\ UNCHANGED <<listing, dispute, disputed, reserve, now>>

\* transfer_license: the resale price and royalty go from the new buyer to
\* the seller and the creator without passing through the contract.  The
\* license keeps its original_price; escrow and dispute stay where they are.
TransferLicense(p, seller, b) ==
    /\ ~paused
    /\ seller # b
    /\ Holds(p, seller)
    /\ ~Holds(p, b)
    /\ license' = [license EXCEPT ![<<p, seller>>] = NoLicense,
                                  ![<<p, b>>] = license[<<p, seller>>]]
    /\ UNCHANGED <<listing, sales, escrow, dispute, ledger, now>>

-----------------------------------------------------------------------------
(* Disputes and settlement *)

OpenDispute(p, b) ==
    LET k == <<p, b>> IN
    /\ ~paused
    /\ Holds(p, b)
    /\ escrow[k].status = "Pending"
    /\ now <= escrow[k].deadline
    /\ dispute[k] # "Open"
    /\ dispute' = [dispute EXCEPT ![k] = "Open"]
    /\ pending' = pending - escrow[k].amount
    /\ disputed' = disputed + escrow[k].amount
    /\ UNCHANGED <<listing, sales, license, escrow, reserve, balance, now>>

\* resolve_dispute with refund = true.  The transfer pays the license's
\* original price; the liability leaves by the escrow's amount.
ResolveRefund(p, b) ==
    LET k == <<p, b>> IN
    /\ ~paused
    /\ dispute[k] = "Open"
    /\ Holds(p, b)
    /\ Affordable(license[k])
    /\ sales[p] > 0
    /\ balance' = balance - license[k]
    /\ license' = [license EXCEPT ![k] = NoLicense]
    /\ sales' = [sales EXCEPT ![p] = @ - 1]
    /\ dispute' = [dispute EXCEPT ![k] = "Refunded"]
    /\ IF escrow[k].status = "None"
       THEN UNCHANGED <<escrow, disputed>>
       ELSE /\ escrow' = [escrow EXCEPT ![k].status = "Refunded"]
            /\ disputed' = disputed - escrow[k].amount
    /\ UNCHANGED <<listing, pending, reserve, now>>

ResolveReject(p, b) ==
    LET k == <<p, b>> IN
    /\ ~paused
    /\ dispute[k] = "Open"
    /\ dispute' = [dispute EXCEPT ![k] = "Rejected"]
    /\ IF escrow[k].status = "Pending"
       THEN /\ disputed' = disputed - escrow[k].amount
            /\ pending' = pending + escrow[k].amount
       ELSE UNCHANGED <<disputed, pending>>
    /\ UNCHANGED <<listing, sales, license, escrow, reserve, balance, now>>

\* Mutants of MaySettle: one drops the dispute check, one the status check,
\* one the pause check.
MaySettleDisputed(p, b, privileged) ==
    /\ ~paused /\ escrow[<<p, b>>].status = "Pending"
    /\ privileged \/ now > escrow[<<p, b>>].deadline
MaySettleTwice(p, b, privileged) ==
    /\ ~paused /\ escrow[<<p, b>>].status # "None"
    /\ dispute[<<p, b>>] # "Open"
    /\ privileged \/ now > escrow[<<p, b>>].deadline
MaySettleWhilePaused(p, b, privileged) ==
    /\ escrow[<<p, b>>].status = "Pending"
    /\ dispute[<<p, b>>] # "Open"
    /\ privileged \/ now > escrow[<<p, b>>].deadline

\* The guards of settle_purchase.  The owner and the creator are privileged;
\* anybody else waits until the dispute window has closed.
MaySettle(p, b, privileged) ==
    LET k == <<p, b>> IN
    /\ ~paused
    /\ escrow[k].status = "Pending"
    /\ dispute[k] # "Open"
    /\ privileged \/ now > escrow[k].deadline

\* Mutant: the payout takes no account of the dust kept back.
PayoutIgnoringReserve(p, b, reserveAfter) == escrow[<<p, b>>].amount

\* What allocate_round pays out when it leaves reserveAfter in the reserve
\* (module RevenueRounding): never negative, and limited by the balance.
Payout(p, b, reserveAfter) == escrow[<<p, b>>].amount + reserve - reserveAfter

SettlePurchase(p, b, privileged, reserveAfter) ==
    LET k == <<p, b>> IN
    /\ MaySettle(p, b, privileged)
    /\ Affordable(Payout(p, b, reserveAfter))
    /\ balance' = balance - Payout(p, b, reserveAfter)
    /\ reserve' = reserveAfter
    /\ pending' = pending - escrow[k].amount
    /\ escrow' = [escrow EXCEPT ![k].status = "Settled"]
    /\ UNCHANGED <<listing, sales, license, dispute, disputed, now>>

\* Ledgers close and the ledger timestamp advances.
Tick ==
    /\ now < MaxTime
    /\ now' = now + 1
    /\ UNCHANGED <<listing, records, ledger>>

Next ==
    \/ \E flag \in BOOLEAN : SetPauseStatus(flag)
    \/ \E p \in Prompts, s \in SaleStatuses : SetPromptSaleStatus(p, s)
    \/ \E p \in Prompts, s \in SaleStatuses : AdminSetPromptSaleStatus(p, s)
    \/ \E p \in Prompts, cap \in SupplyCaps : SetPromptMaxSupply(p, cap)
    \/ \E p \in Prompts, b \in Buyers, a \in Amounts : BuyPrompt(p, b, a)
    \/ \E b \in Buyers, a \in Amounts : BuyBundle(b, a)
    \/ \E p \in Prompts, s \in Buyers, b \in Buyers : TransferLicense(p, s, b)
    \/ \E p \in Prompts, b \in Buyers : OpenDispute(p, b)
    \/ \E p \in Prompts, b \in Buyers : ResolveRefund(p, b)
    \/ \E p \in Prompts, b \in Buyers : ResolveReject(p, b)
    \/ \E p \in Prompts, b \in Buyers, privileged \in BOOLEAN,
          r \in 0..MaxReserve : SettlePurchase(p, b, privileged, r)
    \/ Tick

Spec == Init /\ [][Next]_vars

-----------------------------------------------------------------------------
(* Properties *)

\* The calls that move customer funds must respect the pause flag: no license,
\* escrow, dispute or token moves in a step that starts paused.
CustodyFrozenWhilePaused ==
    [][paused => UNCHANGED <<license, escrow, dispute, pending, disputed,
                             reserve, balance>>]_vars

\* Supply means the same on every path (buy, bundle, resale, refund): a capped
\* prompt is never oversold, and every license in circulation is backed by a
\* counted sale, so a refund can always release its unit.
SupplyRespected ==
    \A p \in Prompts :
        /\ maxSupply[p] > 0 => sales[p] <= maxSupply[p]
        /\ Cardinality(Owners(p)) <= sales[p]

\* An open dispute always concerns money the contract still holds for that
\* key: it cannot be settled, refunded or replaced by a final record under
\* the dispute's feet, whatever resales and repurchases happen in between.
OpenDisputeHoldsEscrow ==
    \A k \in Keys : dispute[k] = "Open" => escrow[k].status = "Pending"

\* What the contract still owes under the escrow record of each key.
LiveAmounts ==
    [k \in Keys |-> IF escrow[k].status = "Pending" THEN escrow[k].amount ELSE 0]

\* The tracked liability never understates what the escrow records still owe:
\* records can be overwritten or filed under a shared key, but their amounts
\* stay counted.
LiveEscrowsTracked == SumFunction(LiveAmounts) <= pending + disputed

\* buy_bundle splits the payment over the new licenses without losing a stroop
\* (#596): the original prices recorded by one purchase sum to the payment.
BundlePricesAddUp ==
    [][\A b \in Buyers, amount \in Amounts :
          BuyBundle(b, amount) =>
            SumFunction([p \in Missing(b) |-> license'[<<p, b>>]]) = amount]_vars

\* compute_asset_solvency: balance minus everything the contract says it owes.
Surplus == balance - (pending + disputed + reserve)

\* Every call keeps the token balance and the tracked liability in step, down
\* to the rounding reserve.  The only exception is a refund whose license was
\* bought at another price than the escrow it is refunded against (a license
\* that was resold into the key, or a share of a bundle): then the difference
\* is exactly the two prices.
SurplusMovesOnlyByMismatchedRefund ==
    [][Surplus' # Surplus =>
         \E k \in Keys :
            /\ dispute[k] = "Open" /\ dispute'[k] = "Refunded"
            /\ license[k] # escrow[k].amount
            /\ Surplus' - Surplus = escrow[k].amount - license[k]]_vars
=============================================================================
