--------------------------- MODULE Contract_proofs --------------------------
(***************************************************************************)
(* Proofs about the prompt-hash contract: the rounding of payouts          *)
(* (RevenueRounding), for any shares, denominator and payments, and the    *)
(* purchases, disputes and settlements (PromptEscrow), for any prompts,    *)
(* buyers and amounts.                                                     *)
(***************************************************************************)
EXTENDS PromptEscrow, RevenueRounding, Sums_proofs, TLAPS

(***************************************************************************)
(* Rounding, per share: a settlement turns the share's numerator into      *)
(* whole stroops, which are paid, and a remainder, which is carried.       *)
(***************************************************************************)

\* Division with remainder, the one fact of arithmetic the proof rests on.
LEMMA DivideExactly ==
    ASSUME NEW n \in Nat, NEW d \in Nat \ {0}, NEW q, NEW r,
           q = n \div d, r = n % d
    PROVE  q \in Nat /\ r \in 0..(d - 1) /\ q * d + r = n
<1>1. q \in Int /\ r \in 0..(d - 1)
    BY SMT
<1>2. q \in Nat
    BY <1>1, SMT
<1>3. d * q + r = n
    BY <1>1, SMT
<1> QED
    BY <1>1, <1>2, <1>3

PerShare ==
    /\ carry \in [Shares -> 0..(Denominator - 1)]
    /\ paid \in [Shares -> Nat]
    /\ entitled \in [Shares -> Nat]
    /\ EntitlementExact

\* What a settlement does to one share: its numerator becomes whole stroops
\* and a remainder, and without a part in the plan it keeps its carry.
LEMMA ShareSettles ==
    ASSUME PerShare, NEW payment \in Payments, NEW bps \in Plans, NEW s \in Shares
    PROVE  /\ Numerator(payment, bps, s) \in Nat
           /\ Amount(payment, bps, s) \in Nat
           /\ Remainder(payment, bps, s) \in 0..(Denominator - 1)
           /\ Numerator(payment, bps, s) =
                Denominator * Amount(payment, bps, s) + Remainder(payment, bps, s)
           /\ bps[s] = 0 => Remainder(payment, bps, s) = carry[s]
<1> USE RoundingAssumption
<1> DEFINE n == Numerator(payment, bps, s)
           q == Amount(payment, bps, s)
           r == Remainder(payment, bps, s)
<1>1. /\ payment \in Nat /\ bps[s] \in Nat /\ payment * bps[s] \in Nat
      /\ carry[s] \in 0..(Denominator - 1)
    BY DEF Plans, PerShare
<1>2. n \in Nat /\ (bps[s] = 0 => n = carry[s])
    BY <1>1 DEF Numerator
<1>3. q = n \div Denominator /\ r = n % Denominator
    BY DEF Amount, Remainder
<1> HIDE DEF n, q, r
<1>4. q \in Nat /\ r \in 0..(Denominator - 1) /\ n = Denominator * q + r
  <2>1. n \in Nat /\ Denominator \in Nat \ {0}
    BY <1>2
  <2>2. q \in Nat /\ r \in 0..(Denominator - 1) /\ q * Denominator + r = n
    BY ONLY <1>3, <2>1, DivideExactly
  <2> QED
    BY <2>1, <2>2
<1>5. bps[s] = 0 => r = carry[s]
  <2>1. SUFFICES ASSUME bps[s] = 0 PROVE r = n
    BY <1>2
  <2>2. n < Denominator /\ Denominator * q >= 0
    BY <1>1, <1>2, <1>4, <2>1
  <2>3. q = 0
    BY <1>3, <2>2, <1>2
  <2> QED
    BY <1>2, <1>4, <2>3
<1> QED
    BY <1>2, <1>4, <1>5 DEF n, q, r

LEMMA PerShareStep == PerShare /\ [RoundingNext]_roundingVars => PerShare'
<1> SUFFICES ASSUME PerShare, [RoundingNext]_roundingVars PROVE PerShare'
    OBVIOUS
<1> USE RoundingAssumption DEF PerShare
<1>1. ASSUME NEW payment \in Payments, NEW bps \in Plans, Settle(payment, bps)
      PROVE  PerShare'
  <2> SUFFICES ASSUME NEW s \in Shares
               PROVE  /\ carry'[s] \in 0..(Denominator - 1)
                      /\ paid'[s] \in Nat /\ entitled'[s] \in Nat
                      /\ paid'[s] * Denominator + carry'[s] = entitled'[s]
    BY <1>1 DEF Settle, EntitlementExact
  <2> DEFINE q == Amount(payment, bps, s)
             r == Remainder(payment, bps, s)
             part == payment * bps[s]
  <2>1. /\ part \in Nat /\ bps[s] \in Nat
        /\ carry[s] \in Nat /\ paid[s] \in Nat /\ entitled[s] \in Nat
        /\ paid[s] * Denominator + carry[s] = entitled[s]
    BY DEF Plans, EntitlementExact
  <2>2. q \in Nat /\ r \in 0..(Denominator - 1) /\ part + carry[s] = Denominator * q + r
    BY ShareSettles DEF Numerator
  <2>3. carry'[s] = r
    BY <1>1, <2>1, ShareSettles DEF Settle
  <2>4. paid'[s] = paid[s] + q /\ entitled'[s] = entitled[s] + part
    BY <1>1 DEF Settle
  <2> HIDE DEF q, r, part
  <2>5. (paid[s] + q) * Denominator = paid[s] * Denominator + Denominator * q
    BY <2>1, <2>2
  <2>6. paid[s] * Denominator \in Nat /\ Denominator * q \in Nat
    BY <2>1, <2>2
  <2> QED
    BY <2>1, <2>2, <2>3, <2>4, <2>5, <2>6
<1>2. CASE UNCHANGED roundingVars
    BY <1>2 DEF roundingVars, EntitlementExact
<1> QED
    BY <1>1, <1>2 DEF RoundingNext

LEMMA PerShareInit == RoundingInit => PerShare
BY RoundingAssumption DEF RoundingInit, PerShare, EntitlementExact

\* Whatever plans follow each other, what a share has earned is what it was
\* paid and what it carries.
THEOREM EntitlementIsExact == RoundingSpec => []EntitlementExact
<1>1. PerShare => EntitlementExact
    BY DEF PerShare
<1> QED
    BY <1>1, PerShareInit, PerShareStep, PTL DEF RoundingSpec

\* So every share's payouts are its earned amount rounded down once, however
\* many settlements made it up.
THEOREM EveryoneIsPaidToTheStroop == RoundingSpec => []PaidToTheStroop
<1>1. PerShare => PaidToTheStroop
  <2> SUFFICES ASSUME PerShare, NEW s \in Shares
               PROVE  /\ paid[s] * Denominator <= entitled[s]
                      /\ entitled[s] < (paid[s] + 1) * Denominator
    BY DEF PaidToTheStroop
  <2>1. (paid[s] + 1) * Denominator = paid[s] * Denominator + Denominator
    BY RoundingAssumption DEF PerShare
  <2>2. paid[s] * Denominator \in Nat
    BY RoundingAssumption DEF PerShare
  <2> QED
    BY <2>1, <2>2, RoundingAssumption DEF PerShare, EntitlementExact
<1> QED
    BY <1>1, PerShareInit, PerShareStep, PTL DEF RoundingSpec

-----------------------------------------------------------------------------
(***************************************************************************)
(* The reserve.  Summed over the shares, numerators are whole stroops and  *)
(* remainders; the remainders are the new carries, and what the payment    *)
(* and the old reserve do not pay out is the new reserve.                  *)
(***************************************************************************)

Backed == PerShare /\ roundingReserve \in Int /\ CarriesBacked

\* What is left of a payment backs the remainders of all shares.
LEMMA ReserveBacksRemainders ==
    ASSUME Backed, NEW payment \in Payments, NEW bps \in Plans
    PROVE  /\ ReserveAfter(payment, bps) \in Int
           /\ SumFunctionOnSet([s \in Shares |-> Remainder(payment, bps, s)], Shares)
                = Denominator * ReserveAfter(payment, bps)
<1> USE RoundingAssumption
<1> DEFINE n == [s \in Shares |-> Numerator(payment, bps, s)]
           q == [s \in Shares |-> Amount(payment, bps, s)]
           r == [s \in Shares |-> Remainder(payment, bps, s)]
           part == [s \in Shares |-> payment * bps[s]]
           whole == [s \in Shares |-> Denominator * q[s]]
           Sum(f) == SumFunctionOnSet(f, Shares)
<1>1. \A s \in Shares : /\ n[s] \in Int /\ q[s] \in Int /\ r[s] \in Int
                        /\ whole[s] \in Int /\ whole[s] = Denominator * q[s]
                        /\ n[s] = whole[s] + r[s]
  <2>1. PerShare
    BY DEF Backed
  <2> QED
    BY <2>1, ShareSettles
<1>2. \A s \in Shares : /\ bps[s] \in Int /\ carry[s] \in Int /\ part[s] \in Int
                        /\ part[s] = payment * bps[s] /\ n[s] = part[s] + carry[s]
    BY DEF Plans, Backed, PerShare, Numerator
<1>3. payment \in Int /\ Denominator \in Int /\ IsFiniteSet(Shares)
    OBVIOUS
<1>4. Sum(bps) = Denominator
    BY DEF Plans, SumFunction
<1>5. Sum(carry) = roundingReserve * Denominator
    BY DEF Backed, PerShare, CarriesBacked, SumFunction
<1>6. ReserveAfter(payment, bps) = roundingReserve + payment - Sum(q)
    BY DEF ReserveAfter, SumFunction
<1> HIDE DEF n, q, r, part, whole
<1>7. Sum(n) = Sum(part) + Sum(carry)
    BY <1>1, <1>2, <1>3, SumAdd
<1>8. Sum(part) = payment * Sum(bps)
    BY <1>2, <1>3, SumScale
<1>9. Sum(n) = Sum(whole) + Sum(r)
    BY <1>1, <1>3, SumAdd
<1>10. Sum(whole) = Denominator * Sum(q)
    BY <1>1, <1>3, SumScale
<1>11. Sum(q) \in Int /\ Sum(r) \in Int /\ roundingReserve \in Int
    BY <1>1, <1>3, SumInt DEF Backed
<1>12. Sum(r) = payment * Denominator + roundingReserve * Denominator - Denominator * Sum(q)
    BY <1>3, <1>4, <1>5, <1>7, <1>8, <1>9, <1>10, <1>11
<1>13. Sum(r) = Denominator * (roundingReserve + payment - Sum(q))
  <2>1. \A x, y, z, d \in Int : y * d + z * d - d * x = d * (z + y - x)
    BY SMT
  <2> QED
    BY <1>3, <1>11, <1>12, <2>1
<1> QED
    BY <1>3, <1>6, <1>11, <1>13 DEF r

LEMMA BackedStep == Backed /\ [RoundingNext]_roundingVars => Backed'
<1> SUFFICES ASSUME Backed, [RoundingNext]_roundingVars
             PROVE  roundingReserve' \in Int /\ CarriesBacked'
    BY PerShareStep DEF Backed
<1>1. ASSUME NEW payment \in Payments, NEW bps \in Plans, Settle(payment, bps)
      PROVE  roundingReserve' \in Int /\ CarriesBacked'
  <2>1. carry' = [s \in Shares |-> Remainder(payment, bps, s)]
    <3>1. \A s \in Shares : bps[s] \in Nat /\ (bps[s] = 0 => Remainder(payment, bps, s) = carry[s])
      BY ShareSettles DEF Plans, Backed
    <3> QED
      BY <1>1, <3>1 DEF Settle
  <2>2. roundingReserve' = ReserveAfter(payment, bps)
    BY <1>1 DEF Settle
  <2>3. SumFunction(carry') = SumFunctionOnSet(carry', Shares)
    BY <2>1 DEF SumFunction
  <2>4. \A x \in Int : Denominator * x = x * Denominator
    BY RoundingAssumption
  <2> QED
    BY <2>1, <2>2, <2>3, <2>4, ReserveBacksRemainders DEF CarriesBacked
<1>2. CASE UNCHANGED roundingVars
    BY <1>2 DEF roundingVars, CarriesBacked, Backed
<1> QED
    BY <1>1, <1>2 DEF RoundingNext

LEMMA BackedInit == RoundingInit => Backed
<1> SUFFICES ASSUME RoundingInit PROVE roundingReserve \in Int /\ CarriesBacked
    BY PerShareInit DEF Backed
<1>1. SumFunction(carry) = 0 * Cardinality(Shares)
    BY SumConstant, RoundingAssumption DEF RoundingInit, SumFunction
<1> QED
    BY <1>1, FS_CardinalityType, RoundingAssumption DEF RoundingInit, CarriesBacked

\* The bookkeeping stays in natural numbers: no carry reaches a whole stroop and
\* the reserve is never negative.
THEOREM RoundingTypeCorrect == RoundingSpec => []RoundingTypeOK
<1> DEFINE Typed == roundingReserve \in Nat /\ numerator \in Nat
<1>1. RoundingInit => Typed
    BY DEF RoundingInit
<1>2. Backed /\ Typed /\ [RoundingNext]_roundingVars => Typed'
  <2> SUFFICES ASSUME Backed, Typed, [RoundingNext]_roundingVars PROVE Typed'
    OBVIOUS
  <2>1. ASSUME NEW payment \in Payments, NEW bps \in Plans, Settle(payment, bps)
        PROVE  Typed'
    <3> DEFINE r == [s \in Shares |-> (payment * bps[s]) % Denominator]
    <3>1. \A s \in Shares : r[s] \in Nat
      BY RoundingAssumption DEF Plans
    <3>2. DOMAIN r = Shares
      OBVIOUS
    <3> HIDE DEF r
    <3>3. SumFunction(r) \in Nat
      BY <3>1, <3>2, SumNat, RoundingAssumption DEF SumFunction
    <3>4. numerator' = numerator + SumFunction(r)
      BY <2>1 DEF Settle, r
    <3>5. ReserveAfter(payment, bps) \in Int
      BY ReserveBacksRemainders
    <3>6. roundingReserve' \in Nat
      BY <2>1, <3>5 DEF Settle
    <3> QED
      BY <3>3, <3>4, <3>6
  <2>2. CASE UNCHANGED roundingVars
    BY <2>2 DEF roundingVars
  <2> QED
    BY <2>1, <2>2 DEF RoundingNext
<1>3. Backed /\ Typed => RoundingTypeOK
    BY DEF Backed, PerShare, RoundingTypeOK
<1> QED
    BY <1>1, <1>2, <1>3, BackedInit, BackedStep, PTL DEF RoundingSpec

\* The reserve holds exactly what the carried fractions add up to: whatever
\* plans follow each other, no stroop appears and none is stranded.
THEOREM ReserveBacksCarries == RoundingSpec => []CarriesBacked
<1>1. Backed => CarriesBacked
    BY DEF Backed
<1> QED
    BY <1>1, BackedInit, BackedStep, PTL DEF RoundingSpec

\* So no settlement can find the reserve short: what it would leave is the sum
\* of remainders, which are never negative.
THEOREM SettlementNeverUnderflows == RoundingSpec => []NeverUnderflows
<1>1. Backed => NeverUnderflows
  <2> SUFFICES ASSUME Backed, NEW payment \in Payments, NEW bps \in Plans
               PROVE  ReserveAfter(payment, bps) >= 0
    BY DEF NeverUnderflows
  <2> DEFINE r == [s \in Shares |-> Remainder(payment, bps, s)]
             x == ReserveAfter(payment, bps)
  <2>1. \A s \in Shares : r[s] \in Nat
    BY ShareSettles, RoundingAssumption DEF Backed
  <2>2. SumFunctionOnSet(r, Shares) = Denominator * x /\ x \in Int
    BY ReserveBacksRemainders
  <2> HIDE DEF r, x
  <2>3. SumFunctionOnSet(r, Shares) \in Nat
    BY <2>1, SumNat, RoundingAssumption
  <2>4. \A d \in Nat \ {0} : d * x \in Nat => x >= 0
    BY <2>2, SMT
  <2> QED
    BY <2>2, <2>3, <2>4, RoundingAssumption DEF x
<1> QED
    BY <1>1, BackedInit, BackedStep, PTL DEF RoundingSpec

-----------------------------------------------------------------------------
(***************************************************************************)
(* Purchases, disputes and settlement.                                     *)
(***************************************************************************)

USE EscrowAssumption

(***************************************************************************)
(* Type correctness.  The one delicate part is that the token balance      *)
(* stays a natural number: refund and settlement check it before paying.   *)
(***************************************************************************)

\* A bundle's price shares are natural numbers.
LEMMA BundleShareNat ==
    ASSUME NEW amount \in Nat, NEW S \in SUBSET Prompts, S # {}, NEW p \in S
    PROVE  BundleShare(amount, S, p) \in Nat
<1>1. Cardinality(S) \in Nat /\ Cardinality(S) # 0
    BY FS_Subset, FS_CardinalityType, FS_EmptySet
<1>2. amount \div Cardinality(S) \in Nat /\ amount % Cardinality(S) \in Nat
    BY <1>1, SMT
<1> QED
    BY <1>2, SMT DEF BundleShare

LEMMA TypeOKInit == Init => TypeOK
<1> SUFFICES ASSUME Init PROVE TypeOK
    OBVIOUS
<1>1. NoEscrow \in EscrowRecord /\ NoLicense \in {NoLicense}
    BY DEF NoEscrow, EscrowRecord
<1>2. escrow \in [Keys -> EscrowRecord]
    BY <1>1 DEF Init
<1>3. saleStatus \in [Prompts -> SaleStatuses]
    BY DEF Init
<1>4. paused \in BOOLEAN
    BY Zenon DEF Init
<1>5. license \in [Keys -> Nat \cup {NoLicense}]
    BY <1>1 DEF Init
<1>6. sales \in [Prompts -> Nat] /\ maxSupply \in [Prompts -> Nat]
    BY DEF Init
<1>7. dispute \in [Keys -> {"None", "Open", "Refunded", "Rejected"}]
    BY DEF Init
<1>8. /\ pending \in Int /\ disputed \in Int
      /\ reserve \in Nat /\ balance \in Nat /\ now \in Nat
    BY DEF Init
<1> QED
    BY <1>2, <1>3, <1>4, <1>5, <1>6, <1>7, <1>8 DEF TypeOK

LEMMA TypeOKStep == TypeOK /\ [Next]_vars => TypeOK'
<1> SUFFICES ASSUME TypeOK, [Next]_vars PROVE TypeOK'
    OBVIOUS
<1> USE DEF TypeOK, listing, records, ledger
<1>1. CASE UNCHANGED vars
    BY <1>1 DEF vars
<1>2. ASSUME NEW flag \in BOOLEAN, SetPauseStatus(flag) PROVE TypeOK'
    BY <1>2 DEF SetPauseStatus
<1>3. ASSUME NEW p \in Prompts, NEW s \in SaleStatuses,
             SetPromptSaleStatus(p, s) \/ AdminSetPromptSaleStatus(p, s)
      PROVE  TypeOK'
    BY <1>3 DEF SetPromptSaleStatus, AdminSetPromptSaleStatus
<1>4. ASSUME NEW p \in Prompts, NEW cap \in SupplyCaps, SetPromptMaxSupply(p, cap)
      PROVE  TypeOK'
    BY <1>4 DEF SetPromptMaxSupply
<1>5. ASSUME NEW p \in Prompts, NEW b \in Buyers, NEW a \in Amounts,
             BuyPrompt(p, b, a)
      PROVE  TypeOK'
  <2>1. NewEscrow(a) \in EscrowRecord
    BY DEF NewEscrow, EscrowRecord
  <2>2. <<p, b>> \in Keys /\ a \in Nat
    BY DEF Keys
  <2> QED
    BY <1>5, <2>1, <2>2 DEF BuyPrompt
<1>6. ASSUME NEW b \in Buyers, NEW a \in Amounts, BuyBundle(b, a)
      PROVE  TypeOK'
  <2>1. NewEscrow(a) \in EscrowRecord /\ a \in Nat
    BY DEF NewEscrow, EscrowRecord
  <2>2. Missing(b) \in SUBSET Prompts /\ Missing(b) # {}
    BY <1>6 DEF BuyBundle, Missing
  <2>3. license' \in [Keys -> Nat \cup {NoLicense}]
    <3>1. \A p \in Missing(b) : BundleShare(a, Missing(b), p) \in Nat
      BY <2>1, <2>2, BundleShareNat
    <3>2. \A k \in Keys : license[k] \in Nat \cup {NoLicense}
      OBVIOUS
    <3> DEFINE new(k) == IF k[2] = b /\ k[1] \in Missing(b)
                         THEN BundleShare(a, Missing(b), k[1])
                         ELSE license[k]
    <3>3. license' = [k \in Keys |-> new(k)]
      BY <1>6 DEF BuyBundle
    <3>4. \A k \in Keys : new(k) \in Nat \cup {NoLicense}
      BY <3>1, <3>2
    <3> HIDE DEF new
    <3> QED
      BY <3>3, <3>4
  <2>4. sales' \in [Prompts -> Nat]
    BY <1>6 DEF BuyBundle
  <2>5. escrow' \in [Keys -> EscrowRecord]
    BY <1>6, <2>1 DEF BuyBundle
  <2>6. pending' \in Int /\ balance' \in Nat
    BY <1>6, <2>1 DEF BuyBundle
  <2>7. UNCHANGED <<paused, saleStatus, maxSupply, dispute, disputed, reserve, now>>
    BY <1>6 DEF BuyBundle
  <2> QED
    BY <2>3, <2>4, <2>5, <2>6, <2>7
<1>7. ASSUME NEW p \in Prompts, NEW s \in Buyers, NEW b \in Buyers,
             TransferLicense(p, s, b)
      PROVE  TypeOK'
  <2>1. <<p, s>> \in Keys /\ <<p, b>> \in Keys
    BY DEF Keys
  <2> QED
    BY <1>7, <2>1 DEF TransferLicense
<1>8. ASSUME NEW p \in Prompts, NEW b \in Buyers,
             OpenDispute(p, b) \/ ResolveReject(p, b)
      PROVE  TypeOK'
  <2>1. <<p, b>> \in Keys /\ escrow[<<p, b>>].amount \in Int
    BY DEF Keys, EscrowRecord
  <2> QED
    BY <1>8, <2>1 DEF OpenDispute, ResolveReject
<1>9. ASSUME NEW p \in Prompts, NEW b \in Buyers, ResolveRefund(p, b)
      PROVE  TypeOK'
  <2>1. <<p, b>> \in Keys /\ escrow[<<p, b>>].amount \in Int
    BY DEF Keys, EscrowRecord
  <2>2. license[<<p, b>>] \in Nat
    BY <1>9, <2>1 DEF ResolveRefund, Holds
  <2>3. escrow' \in [Keys -> EscrowRecord]
    <3>1. [escrow[<<p, b>>] EXCEPT !.status = "Refunded"] \in EscrowRecord
      BY <2>1 DEF EscrowRecord
    <3>2. \/ escrow' = escrow
          \/ escrow' = [escrow EXCEPT ![<<p, b>>] =
                           [escrow[<<p, b>>] EXCEPT !.status = "Refunded"]]
      BY <1>9 DEF ResolveRefund
    <3> QED
      BY <3>1, <3>2, <2>1
  <2>4. balance' \in Nat
    BY <1>9, <2>2 DEF ResolveRefund, Affordable
  <2>5. disputed' \in Int
    BY <1>9, <2>1 DEF ResolveRefund
  <2>6. sales' \in [Prompts -> Nat]
    BY <1>9 DEF ResolveRefund
  <2>7. /\ license' \in [Keys -> Nat \cup {NoLicense}]
        /\ dispute' \in [Keys -> {"None", "Open", "Refunded", "Rejected"}]
    BY <1>9, <2>1 DEF ResolveRefund
  <2>8. UNCHANGED <<paused, saleStatus, maxSupply, pending, reserve, now>>
    BY <1>9 DEF ResolveRefund
  <2> QED
    BY <2>3, <2>4, <2>6, <2>7, <2>8, <2>5
<1>10. ASSUME NEW p \in Prompts, NEW b \in Buyers, NEW privileged \in BOOLEAN,
             NEW r \in 0..MaxReserve, SettlePurchase(p, b, privileged, r)
      PROVE  TypeOK'
  <2>1. <<p, b>> \in Keys /\ escrow[<<p, b>>].amount \in Int
    BY DEF Keys, EscrowRecord
  <2>2. escrow' \in [Keys -> EscrowRecord]
    <3>1. [escrow[<<p, b>>] EXCEPT !.status = "Settled"] \in EscrowRecord
      BY <2>1 DEF EscrowRecord
    <3>2. escrow' = [escrow EXCEPT ![<<p, b>>] =
                        [escrow[<<p, b>>] EXCEPT !.status = "Settled"]]
      BY <1>10 DEF SettlePurchase
    <3> QED
      BY <3>1, <3>2, <2>1
  <2> QED
    BY <1>10, <2>1, <2>2 DEF SettlePurchase, Affordable, Payout
<1>11. CASE Tick
    BY <1>11 DEF Tick
<1> QED
    BY <1>1, <1>2, <1>3, <1>4, <1>5, <1>6, <1>7, <1>8, <1>9, <1>10, <1>11 DEF Next

\* Every reachable state is well typed; in particular the contract never pays
\* out more tokens than it holds.
THEOREM TypeCorrect == Spec => []TypeOK
BY TypeOKInit, TypeOKStep, PTL DEF Spec

-----------------------------------------------------------------------------
(***************************************************************************)
(* Open disputes.  The property is inductive: a dispute opens only over a  *)
(* pending escrow, and the calls that end a pending escrow (refund and     *)
(* settlement) either close the dispute or refuse to run while it is open. *)
(***************************************************************************)

LEMMA OpenDisputeStep ==
    TypeOK /\ OpenDisputeHoldsEscrow /\ [Next]_vars => OpenDisputeHoldsEscrow'
<1> SUFFICES ASSUME TypeOK, OpenDisputeHoldsEscrow, [Next]_vars,
                    NEW k \in Keys, dispute'[k] = "Open"
             PROVE  escrow'[k].status = "Pending"
    BY DEF OpenDisputeHoldsEscrow
<1> USE DEF TypeOK, OpenDisputeHoldsEscrow, listing, records, ledger
<1>1. ASSUME UNCHANGED <<escrow, dispute>>
      PROVE  escrow'[k].status = "Pending"
    BY <1>1
<1>2. ASSUME NEW p \in Prompts, NEW b \in Buyers, NEW a \in Amounts,
             escrow' = [escrow EXCEPT ![<<p, b>>] = NewEscrow(a)],
             UNCHANGED dispute
      PROVE  escrow'[k].status = "Pending"
    BY <1>2 DEF NewEscrow
<1>3. ASSUME NEW p \in Prompts, NEW b \in Buyers, OpenDispute(p, b)
      PROVE  escrow'[k].status = "Pending"
    BY <1>3 DEF OpenDispute
<1>4. ASSUME NEW p \in Prompts, NEW b \in Buyers, ResolveReject(p, b)
      PROVE  escrow'[k].status = "Pending"
    BY <1>4 DEF ResolveReject
<1>5. ASSUME NEW p \in Prompts, NEW b \in Buyers, ResolveRefund(p, b)
      PROVE  escrow'[k].status = "Pending"
  <2>1. k # <<p, b>>
    BY <1>5 DEF ResolveRefund, Keys
  <2>2. escrow'[k] = escrow[k] /\ dispute'[k] = dispute[k]
    BY <1>5, <2>1 DEF ResolveRefund
  <2> QED
    BY <2>2
<1>6. ASSUME NEW p \in Prompts, NEW b \in Buyers, NEW privileged \in BOOLEAN,
             NEW r \in 0..MaxReserve, SettlePurchase(p, b, privileged, r)
      PROVE  escrow'[k].status = "Pending"
  <2>1. k # <<p, b>>
    BY <1>6 DEF SettlePurchase, MaySettle
  <2>2. escrow'[k] = escrow[k] /\ dispute'[k] = dispute[k]
    BY <1>6, <2>1 DEF SettlePurchase
  <2> QED
    BY <2>2
<1>7. CASE UNCHANGED vars
    BY <1>7, <1>1 DEF vars
<1>8. ASSUME NEW p \in Prompts, NEW b \in Buyers, NEW a \in Amounts,
             BuyPrompt(p, b, a)
      PROVE  escrow'[k].status = "Pending"
    BY <1>8, <1>2 DEF BuyPrompt
<1>9. ASSUME NEW b \in Buyers, NEW a \in Amounts, BuyBundle(b, a)
      PROVE  escrow'[k].status = "Pending"
    BY <1>9, <1>2, EscrowAssumption DEF BuyBundle
<1> QED
    BY <1>1, <1>3, <1>4, <1>5, <1>6, <1>7, <1>8, <1>9
    DEF Next, SetPauseStatus, SetPromptSaleStatus, AdminSetPromptSaleStatus,
        SetPromptMaxSupply, TransferLicense, Tick

\* Whatever resales, repurchases and bundles happen while a dispute is open,
\* the disputed key keeps a pending escrow: nothing was paid out of it.
THEOREM OpenDisputesHoldEscrow == Spec => []OpenDisputeHoldsEscrow
<1>1. Init => OpenDisputeHoldsEscrow
    BY DEF Init, OpenDisputeHoldsEscrow
<1> QED
    BY <1>1, OpenDisputeStep, TypeCorrect, PTL DEF Spec

-----------------------------------------------------------------------------
(* Action properties. *)

\* No call moves a license, an escrow, a dispute or a token while the contract
\* is paused.
THEOREM CustodyFrozen == Spec => CustodyFrozenWhilePaused
<1> DEFINE Frozen == paused => UNCHANGED <<license, escrow, dispute, pending,
                                           disputed, reserve, balance>>
<1>1. [Next]_vars => [Frozen]_vars
  <2> SUFFICES ASSUME Next, paused
               PROVE  UNCHANGED <<license, escrow, dispute, pending, disputed,
                                  reserve, balance>>
    OBVIOUS
  <2> QED
    BY DEF Next, SetPauseStatus, SetPromptSaleStatus, AdminSetPromptSaleStatus,
           SetPromptMaxSupply, BuyPrompt, BuyBundle, TransferLicense,
           OpenDispute, ResolveRefund, ResolveReject, SettlePurchase, MaySettle,
           Tick, records, ledger
<1> QED
    BY <1>1, PTL DEF Spec, CustodyFrozenWhilePaused

LEMMA SurplusStep ==
    TypeOK /\ OpenDisputeHoldsEscrow /\ Next =>
        (Surplus' # Surplus =>
           \E k \in Keys :
              /\ dispute[k] = "Open" /\ dispute'[k] = "Refunded"
              /\ license[k] # escrow[k].amount
              /\ Surplus' - Surplus = escrow[k].amount - license[k])
<1> SUFFICES ASSUME TypeOK, OpenDisputeHoldsEscrow, Next, Surplus' # Surplus
             PROVE  \E k \in Keys :
                       /\ dispute[k] = "Open" /\ dispute'[k] = "Refunded"
                       /\ license[k] # escrow[k].amount
                       /\ Surplus' - Surplus = escrow[k].amount - license[k]
    OBVIOUS
<1> USE DEF TypeOK
<1>1. \A k \in Keys : escrow[k].amount \in Nat
    BY DEF EscrowRecord
<1>2. ASSUME UNCHANGED ledger PROVE FALSE
    BY <1>2 DEF ledger, Surplus
<1>3. ASSUME NEW a \in Amounts, pending' = pending + a, balance' = balance + a,
             UNCHANGED <<disputed, reserve>>
      PROVE  FALSE
    BY <1>3, EscrowAssumption DEF Surplus
<1>4. ASSUME NEW p \in Prompts, NEW b \in Buyers,
             OpenDispute(p, b) \/ ResolveReject(p, b)
      PROVE  FALSE
  <2>1. <<p, b>> \in Keys
    BY DEF Keys
  <2> QED
    BY <1>1, <1>4, <2>1 DEF OpenDispute, ResolveReject, Surplus
<1>5. ASSUME NEW p \in Prompts, NEW b \in Buyers, NEW privileged \in BOOLEAN,
             NEW r \in 0..MaxReserve, SettlePurchase(p, b, privileged, r)
      PROVE  FALSE
  <2>1. <<p, b>> \in Keys
    BY DEF Keys
  <2> QED
    BY <1>1, <1>5, <2>1, EscrowAssumption DEF SettlePurchase, Payout, Surplus
<1>6. PICK p \in Prompts, b \in Buyers : ResolveRefund(p, b)
    BY <1>2, <1>3, <1>4, <1>5
    DEF Next, SetPauseStatus, SetPromptSaleStatus, AdminSetPromptSaleStatus,
        SetPromptMaxSupply, BuyPrompt, BuyBundle, TransferLicense, Tick
<1> DEFINE k == <<p, b>>
<1>7. k \in Keys
    BY DEF Keys
<1>8. dispute[k] = "Open" /\ dispute'[k] = "Refunded"
    BY <1>6, <1>7 DEF ResolveRefund
<1>9. escrow[k].status = "Pending"
    BY <1>7, <1>8 DEF OpenDisputeHoldsEscrow
<1>10. license[k] \in Nat
    BY <1>6, <1>7 DEF ResolveRefund, Holds
<1>11. /\ balance' = balance - license[k] /\ disputed' = disputed - escrow[k].amount
       /\ UNCHANGED <<pending, reserve>>
    BY <1>6, <1>9 DEF ResolveRefund
<1>12. Surplus' - Surplus = escrow[k].amount - license[k]
    BY <1>1, <1>7, <1>10, <1>11 DEF Surplus
<1>13. license[k] # escrow[k].amount
    BY <1>1, <1>7, <1>10, <1>11 DEF Surplus
<1> QED
    BY <1>7, <1>8, <1>12, <1>13

\* The contract's surplus over its tracked liability changes only when a refund
\* pays another price than the escrow it closes, and then by exactly the
\* difference of the two.
THEOREM SurplusAccounted == Spec => SurplusMovesOnlyByMismatchedRefund
BY SurplusStep, TypeCorrect, OpenDisputesHoldEscrow, PTL
DEF Spec, SurplusMovesOnlyByMismatchedRefund

-----------------------------------------------------------------------------
(***************************************************************************)
(* Supply.  A step adds one owner together with one counted sale, replaces *)
(* an owner, or removes one together with one sale; so the owners of a     *)
(* prompt are never more than its counted sales.                           *)
(***************************************************************************)

LEMMA OwnersFinite ==
    \A p \in Prompts : IsFiniteSet(Owners(p)) /\ Cardinality(Owners(p)) \in Nat
BY FS_Subset, FS_CardinalityType, EscrowAssumption DEF Owners

LEMMA SupplyStep ==
    TypeOK /\ SupplyRespected /\ [Next]_vars => SupplyRespected'
<1> SUFFICES ASSUME TypeOK, SupplyRespected, [Next]_vars, NEW q \in Prompts
             PROVE  /\ maxSupply'[q] > 0 => sales'[q] <= maxSupply'[q]
                    /\ Cardinality(Owners(q)') <= sales'[q]
    BY DEF SupplyRespected, Owners
<1> DEFINE Respected ==
       /\ maxSupply'[q] > 0 => sales'[q] <= maxSupply'[q]
       /\ Cardinality(Owners(q)') <= sales'[q]
<1> HIDE DEF Respected
<1>1. /\ maxSupply[q] > 0 => sales[q] <= maxSupply[q]
      /\ Cardinality(Owners(q)) <= sales[q]
      /\ sales[q] \in Nat /\ maxSupply[q] \in Nat
    BY DEF SupplyRespected, TypeOK
<1>2. IsFiniteSet(Owners(q)) /\ Cardinality(Owners(q)) \in Nat
    BY OwnersFinite
<1>3. ASSUME UNCHANGED <<sales, maxSupply>>, Owners(q)' = Owners(q) PROVE Respected
    BY <1>1, <1>3 DEF Respected
<1>4. ASSUME UNCHANGED <<sales, license, maxSupply>> PROVE Respected
    BY <1>3, <1>4 DEF Owners, Holds
<1>5. ASSUME NEW b, Owners(q)' = Owners(q) \cup {b}, SupplyLeft(q),
             sales'[q] = sales[q] + 1, UNCHANGED maxSupply
      PROVE  Respected
  <2>1. Cardinality(Owners(q)') =
            IF b \in Owners(q) THEN Cardinality(Owners(q))
                               ELSE Cardinality(Owners(q)) + 1
    BY <1>2, <1>5, FS_AddElement, Zenon
  <2>2. Cardinality(Owners(q)') <= sales'[q]
    BY <1>1, <1>2, <1>5, <2>1
  <2>3. maxSupply'[q] > 0 => sales'[q] <= maxSupply'[q]
    BY <1>1, <1>5 DEF SupplyLeft
  <2> QED
    BY <2>2, <2>3 DEF Respected
<1>6. ASSUME NEW p \in Prompts, NEW cap \in SupplyCaps, SetPromptMaxSupply(p, cap)
      PROVE  Respected
  <2>1. Owners(q)' = Owners(q) /\ sales' = sales
    BY <1>6 DEF SetPromptMaxSupply, records, Owners, Holds
  <2>2. maxSupply'[q] > 0 => sales[q] <= maxSupply'[q]
    BY <1>6, <1>1, EscrowAssumption DEF SetPromptMaxSupply, TypeOK
  <2> QED
    BY <2>1, <2>2, <1>1 DEF Respected
<1>7. ASSUME NEW p \in Prompts, NEW b \in Buyers, NEW a \in Amounts,
             BuyPrompt(p, b, a)
      PROVE  Respected
  <2>1. UNCHANGED maxSupply /\ license' = [license EXCEPT ![<<p, b>>] = a]
    BY <1>7 DEF BuyPrompt, listing
  <2>2. CASE p = q
    <3>1. a # NoLicense
      BY EscrowAssumption DEF NoLicense
    <3>2. Owners(q)' = Owners(q) \cup {b}
      BY <2>1, <2>2, <3>1 DEF Owners, Holds, Keys, TypeOK
    <3> QED
      BY <1>7, <1>5, <2>1, <2>2, <3>2 DEF BuyPrompt, TypeOK
  <2>3. CASE p # q
    <3>1. Owners(q)' = Owners(q)
      BY <2>1, <2>3 DEF Owners, Holds, Keys, TypeOK
    <3>2. sales'[q] = sales[q]
      BY <1>7, <2>3 DEF BuyPrompt, TypeOK
    <3> QED
      BY <1>1, <2>1, <3>1, <3>2 DEF Respected
  <2> QED
    BY <2>2, <2>3
<1>8. ASSUME NEW b \in Buyers, NEW a \in Amounts, BuyBundle(b, a)
      PROVE  Respected
  <2>1. UNCHANGED maxSupply
    BY <1>8 DEF BuyBundle, listing
  <2>2. Missing(b) \in SUBSET Prompts /\ Missing(b) # {} /\ a \in Nat
    BY <1>8, EscrowAssumption DEF BuyBundle, Missing
  <2>3. \A x \in Buyers : license'[<<q, x>>] =
            IF x = b /\ q \in Missing(b)
            THEN BundleShare(a, Missing(b), q) ELSE license[<<q, x>>]
    BY <1>8 DEF BuyBundle, Keys
  <2>4. CASE q \in Missing(b)
    <3>1. BundleShare(a, Missing(b), q) # NoLicense
      BY <2>2, <2>4, BundleShareNat DEF NoLicense
    <3>2. Owners(q)' = Owners(q) \cup {b}
      BY <2>3, <2>4, <3>1 DEF Owners, Holds
    <3>3. sales'[q] = sales[q] + 1 /\ SupplyLeft(q)
      BY <1>8, <2>4 DEF BuyBundle
    <3> QED
      BY <1>5, <2>1, <3>2, <3>3
  <2>5. CASE q \notin Missing(b)
    <3>1. Owners(q)' = Owners(q)
      BY <2>3, <2>5 DEF Owners, Holds
    <3>2. sales'[q] = sales[q]
      BY <1>8, <2>5 DEF BuyBundle
    <3> QED
      BY <1>1, <2>1, <3>1, <3>2 DEF Respected
  <2> QED
    BY <2>4, <2>5
<1>9. ASSUME NEW p \in Prompts, NEW s \in Buyers, NEW b \in Buyers,
             TransferLicense(p, s, b)
      PROVE  Respected
  <2>1. /\ UNCHANGED <<sales, maxSupply>>
        /\ license' = [license EXCEPT ![<<p, s>>] = NoLicense,
                                      ![<<p, b>>] = license[<<p, s>>]]
        /\ s # b /\ Holds(p, s) /\ ~Holds(p, b)
    BY <1>9 DEF TransferLicense, listing
  <2>2. CASE p = q
    <3>1. Owners(q)' = (Owners(q) \ {s}) \cup {b}
      BY <2>1, <2>2 DEF Owners, Holds, Keys, TypeOK
    <3>2. s \in Owners(q) /\ b \notin Owners(q) \ {s}
      BY <2>1, <2>2 DEF Owners
    <3>3. /\ IsFiniteSet(Owners(q) \ {s})
          /\ Cardinality(Owners(q) \ {s}) = Cardinality(Owners(q)) - 1
      BY <1>2, <3>2, FS_RemoveElement
    <3>4. Cardinality((Owners(q) \ {s}) \cup {b}) = Cardinality(Owners(q) \ {s}) + 1
      BY <3>2, <3>3, FS_AddElement
    <3>5. Cardinality(Owners(q)') = Cardinality(Owners(q))
      BY <1>2, <3>1, <3>3, <3>4
    <3> QED
      BY <1>1, <2>1, <3>5 DEF Respected
  <2>3. CASE p # q
    <3>1. Owners(q)' = Owners(q)
      BY <2>1, <2>3 DEF Owners, Holds, Keys, TypeOK
    <3> QED
      BY <1>3, <2>1, <3>1
  <2> QED
    BY <2>2, <2>3
<1>10. ASSUME NEW p \in Prompts, NEW b \in Buyers, ResolveRefund(p, b)
      PROVE  Respected
  <2>1. /\ UNCHANGED maxSupply
        /\ license' = [license EXCEPT ![<<p, b>>] = NoLicense]
        /\ sales' = [sales EXCEPT ![p] = @ - 1]
        /\ Holds(p, b)
    BY <1>10 DEF ResolveRefund, listing
  <2>2. CASE p = q
    <3>1. Owners(q)' = Owners(q) \ {b} /\ b \in Owners(q)
      BY <2>1, <2>2 DEF Owners, Holds, Keys, TypeOK
    <3>2. Cardinality(Owners(q)') = Cardinality(Owners(q)) - 1
      BY <1>2, <3>1, FS_RemoveElement
    <3>3. sales'[q] = sales[q] - 1
      BY <2>1, <2>2 DEF TypeOK
    <3> QED
      BY <1>1, <1>2, <2>1, <3>2, <3>3 DEF Respected
  <2>3. CASE p # q
    <3>1. Owners(q)' = Owners(q) /\ sales'[q] = sales[q]
      BY <2>1, <2>3 DEF Owners, Holds, Keys, TypeOK
    <3> QED
      BY <1>1, <2>1, <3>1 DEF Respected
  <2> QED
    BY <2>2, <2>3
<1>11. ASSUME UNCHANGED vars PROVE Respected
    BY <1>11, <1>4 DEF vars
<1> QED
  <2>1. Respected
    BY <1>4, <1>6, <1>7, <1>8, <1>9, <1>10, <1>11
    DEF Next, SetPauseStatus, SetPromptSaleStatus, AdminSetPromptSaleStatus,
        OpenDispute, ResolveReject, SettlePurchase, Tick, records, listing
  <2> QED
    BY <2>1 DEF Respected

\* Through purchases, bundles, resales and refunds, no prompt is oversold and
\* every license in circulation is backed by a counted sale.
THEOREM SupplyIsRespected == Spec => []SupplyRespected
<1>1. Init => SupplyRespected
  <2> SUFFICES ASSUME Init, NEW p \in Prompts
               PROVE  Owners(p) = {} /\ sales[p] = 0 /\ maxSupply[p] = 0
    BY FS_EmptySet DEF SupplyRespected
  <2> QED
    BY DEF Init, Owners, Holds, Keys
<1> QED
    BY <1>1, SupplyStep, TypeCorrect, PTL DEF Spec

-----------------------------------------------------------------------------
(***************************************************************************)
(* Sums over the records: what the escrows still owe, and what a bundle    *)
(* records as the prices of its licenses.                                  *)
(***************************************************************************)

LEMMA KeysFinite == IsFiniteSet(Keys)
BY FS_Product DEF Keys

LEMMA LiveAmountsInt ==
    TypeOK => \A k \in Keys : LiveAmounts[k] \in Int /\ escrow[k].amount \in Nat
BY DEF TypeOK, LiveAmounts, EscrowRecord

\* A call that changes the escrow of one key changes the sum by the difference.
LEMMA LiveSumChanges ==
    ASSUME TypeOK, TypeOK', NEW k \in Keys, NEW e,
           escrow' = [escrow EXCEPT ![k] = e]
    PROVE  SumFunction(LiveAmounts)' =
              SumFunction(LiveAmounts) - LiveAmounts[k] + LiveAmounts'[k]
<1>1. \A x \in Keys : LiveAmounts[x] \in Int /\ LiveAmounts'[x] \in Int
    BY LiveAmountsInt DEF TypeOK, LiveAmounts, EscrowRecord
<1>2. \A x \in Keys \ {k} : LiveAmounts'[x] = LiveAmounts[x]
    BY DEF TypeOK, LiveAmounts
<1>3. SumFunctionOnSet(LiveAmounts', Keys) =
          SumFunctionOnSet(LiveAmounts, Keys) - LiveAmounts[k] + LiveAmounts'[k]
    BY <1>1, <1>2, KeysFinite, SumChange
<1>4. DOMAIN LiveAmounts = Keys /\ DOMAIN LiveAmounts' = Keys
    BY DEF LiveAmounts
<1> QED
    BY <1>3, <1>4 DEF SumFunction

LEMMA LiveStep ==
    TypeOK /\ OpenDisputeHoldsEscrow /\ LiveEscrowsTracked /\ [Next]_vars
        => LiveEscrowsTracked'
<1> SUFFICES ASSUME TypeOK, OpenDisputeHoldsEscrow, LiveEscrowsTracked, [Next]_vars
             PROVE  LiveEscrowsTracked'
    OBVIOUS
<1> DEFINE S == SumFunction(LiveAmounts)
<1>1. TypeOK'
    BY TypeOKStep
<1>2. /\ S \in Int /\ S <= pending + disputed
      /\ pending \in Int /\ disputed \in Int
  <2>1. SumFunctionOnSet(LiveAmounts, Keys) \in Int
    BY LiveAmountsInt, KeysFinite, SumInt
  <2>2. DOMAIN LiveAmounts = Keys
    BY DEF LiveAmounts
  <2> QED
    BY <2>1, <2>2 DEF SumFunction, LiveEscrowsTracked, TypeOK
<1>3. ASSUME UNCHANGED escrow, pending' + disputed' = pending + disputed
      PROVE  LiveEscrowsTracked'
  <2>1. LiveAmounts' = LiveAmounts
    BY <1>3 DEF LiveAmounts
  <2> QED
    BY <1>2, <1>3, <2>1 DEF LiveEscrowsTracked
<1>4. ASSUME NEW k \in Keys, NEW a \in Amounts,
             escrow' = [escrow EXCEPT ![k] = NewEscrow(a)],
             pending' = pending + a, UNCHANGED disputed
      PROVE  LiveEscrowsTracked'
  <2>1. LiveAmounts'[k] = a /\ LiveAmounts[k] \in Nat /\ a \in Nat
    BY <1>4 DEF LiveAmounts, TypeOK, NewEscrow, EscrowRecord
  <2>2. S' = S - LiveAmounts[k] + LiveAmounts'[k]
    BY <1>1, <1>4, LiveSumChanges
  <2> QED
    BY <1>2, <1>4, <2>1, <2>2 DEF LiveEscrowsTracked
<1>5. ASSUME NEW k \in Keys, NEW status \in {"Settled", "Refunded"},
             escrow[k].status = "Pending",
             escrow' = [escrow EXCEPT ![k].status = status],
             pending' + disputed' = pending + disputed - escrow[k].amount
      PROVE  LiveEscrowsTracked'
  <2>1. LiveAmounts'[k] = 0 /\ LiveAmounts[k] = escrow[k].amount
    BY <1>5 DEF LiveAmounts, TypeOK, EscrowRecord
  <2>2. S' = S - LiveAmounts[k] + LiveAmounts'[k]
    BY <1>1, <1>5, LiveSumChanges
  <2>3. escrow[k].amount \in Int
    BY LiveAmountsInt
  <2> QED
    BY <1>2, <1>5, <2>1, <2>2, <2>3 DEF LiveEscrowsTracked
<1>6. ASSUME NEW p \in Prompts, NEW b \in Buyers, NEW a \in Amounts,
             BuyPrompt(p, b, a)
      PROVE  LiveEscrowsTracked'
    BY <1>4, <1>6 DEF BuyPrompt, Keys
<1>7. ASSUME NEW b \in Buyers, NEW a \in Amounts, BuyBundle(b, a)
      PROVE  LiveEscrowsTracked'
    BY <1>4, <1>7 DEF BuyBundle, Keys
<1>8. ASSUME NEW p \in Prompts, NEW b \in Buyers,
             OpenDispute(p, b) \/ ResolveReject(p, b)
      PROVE  LiveEscrowsTracked'
  <2>1. escrow[<<p, b>>].amount \in Int
    BY LiveAmountsInt DEF Keys
  <2> QED
    BY <1>2, <1>3, <1>8, <2>1 DEF OpenDispute, ResolveReject
<1>9. ASSUME NEW p \in Prompts, NEW b \in Buyers, ResolveRefund(p, b)
      PROVE  LiveEscrowsTracked'
  <2>1. <<p, b>> \in Keys /\ escrow[<<p, b>>].status = "Pending"
    BY <1>9 DEF Keys, OpenDisputeHoldsEscrow, ResolveRefund
  <2>2. /\ escrow' = [escrow EXCEPT ![<<p, b>>].status = "Refunded"]
        /\ disputed' = disputed - escrow[<<p, b>>].amount /\ pending' = pending
    BY <1>9, <2>1 DEF ResolveRefund
  <2>3. pending' + disputed' = pending + disputed - escrow[<<p, b>>].amount
    BY <1>2, <2>1, <2>2, LiveAmountsInt
  <2> QED
    BY <1>5, <2>1, <2>2, <2>3
<1>10. ASSUME NEW p \in Prompts, NEW b \in Buyers, NEW privileged \in BOOLEAN,
              NEW r \in 0..MaxReserve, SettlePurchase(p, b, privileged, r)
       PROVE  LiveEscrowsTracked'
  <2>1. <<p, b>> \in Keys /\ escrow[<<p, b>>].status = "Pending"
    BY <1>10 DEF Keys, SettlePurchase, MaySettle
  <2>2. /\ escrow' = [escrow EXCEPT ![<<p, b>>].status = "Settled"]
        /\ pending' = pending - escrow[<<p, b>>].amount /\ disputed' = disputed
    BY <1>10 DEF SettlePurchase
  <2>3. pending' + disputed' = pending + disputed - escrow[<<p, b>>].amount
    BY <1>2, <2>1, <2>2, LiveAmountsInt
  <2> QED
    BY <1>5, <2>1, <2>2, <2>3
<1>11. CASE UNCHANGED vars
    BY <1>2, <1>3, <1>11 DEF vars
<1> QED
    BY <1>2, <1>3, <1>6, <1>7, <1>8, <1>9, <1>10, <1>11
    DEF Next, SetPauseStatus, SetPromptSaleStatus, AdminSetPromptSaleStatus,
        SetPromptMaxSupply, TransferLicense, Tick, records, ledger

\* Whatever records are overwritten or filed under a shared key, the contract's
\* tracked liability covers every escrow that is still pending.
THEOREM EscrowsStayTracked == Spec => []LiveEscrowsTracked
<1>1. Init => LiveEscrowsTracked
  <2> SUFFICES ASSUME Init PROVE LiveEscrowsTracked
    OBVIOUS
  <2>1. DOMAIN LiveAmounts = Keys /\ (\A k \in Keys : LiveAmounts[k] = 0)
    BY DEF LiveAmounts, Init, NoEscrow
  <2>2. SumFunctionOnSet(LiveAmounts, Keys) = 0 * Cardinality(Keys)
    BY <2>1, KeysFinite, SumConstant
  <2> QED
    BY <2>1, <2>2, KeysFinite, FS_CardinalityType DEF Init, LiveEscrowsTracked, SumFunction
<1> QED
    BY <1>1, LiveStep, TypeCorrect, OpenDisputesHoldEscrow, PTL DEF Spec

LEMMA FirstIsMember ==
    ASSUME NEW S \in SUBSET Prompts, S # {} PROVE First(S) \in S
<1>1. \E p \in S : \A q \in S : p <= q
    BY LeastNatural
<1> QED
    BY <1>1 DEF First

\* Even shares, and the remainder on one of them.
LEMMA BundleSharesAddUp ==
    ASSUME NEW amount \in Nat, NEW S \in SUBSET Prompts, S # {},
           NEW f, \A p \in S : f[p] = BundleShare(amount, S, p)
    PROVE  SumFunctionOnSet(f, S) = amount
<1> DEFINE n == Cardinality(S)
           q == amount \div n
           r == amount % n
           even == [p \in S |-> q]
           e == First(S)
<1>1. IsFiniteSet(S) /\ n \in Nat \ {0} /\ e \in S
    BY FS_Subset, FS_CardinalityType, FS_EmptySet, FirstIsMember
<1>2. /\ \A p \in S : even[p] = q
      /\ \A p \in S : f[p] = q + (IF p = e THEN r ELSE 0)
    BY DEF BundleShare
<1>3. amount \in Nat /\ q = amount \div n /\ r = amount % n
    OBVIOUS
<1> HIDE DEF n, q, r, even, e
<1>4. q \in Nat /\ r \in 0..(n - 1) /\ q * n + r = amount
    BY ONLY <1>1, <1>3, DivideExactly
<1>5. q \in Int /\ IsFiniteSet(S) /\ e \in S
    BY <1>1, <1>4
<1>6. \A p \in S : even[p] = q
    BY <1>2
<1>7. \A p \in S : even[p] \in Int /\ f[p] \in Int
    BY <1>1, <1>2, <1>4
<1>8. \A p \in S \ {e} : f[p] = even[p]
    BY <1>2, <1>4
<1>9. SumFunctionOnSet(even, S) = q * n
    BY ONLY <1>5, <1>6, SumConstant DEF n
<1>10. SumFunctionOnSet(f, S) = SumFunctionOnSet(even, S) - even[e] + f[e]
    BY ONLY <1>5, <1>7, <1>8, SumChange
<1>11. q * n \in Nat /\ even[e] = q /\ f[e] = q + r
    BY <1>1, <1>2, <1>4
<1> QED
    BY <1>4, <1>9, <1>10, <1>11

\* The prices a bundle purchase records add up to what was paid for it.
THEOREM BundleKeepsEveryStroop == Spec => BundlePricesAddUp
<1>1. ASSUME NEW b \in Buyers, NEW amount \in Amounts, BuyBundle(b, amount)
      PROVE  SumFunction([p \in Missing(b) |-> license'[<<p, b>>]]) = amount
  <2> DEFINE f == [p \in Missing(b) |-> license'[<<p, b>>]]
  <2>1. Missing(b) \in SUBSET Prompts /\ Missing(b) # {} /\ amount \in Nat
    BY <1>1 DEF BuyBundle, Missing
  <2>2. \A p \in Missing(b) : f[p] = BundleShare(amount, Missing(b), p)
    BY <1>1, <2>1 DEF BuyBundle, Keys
  <2>3. DOMAIN f = Missing(b)
    OBVIOUS
  <2> HIDE DEF f
  <2>4. SumFunctionOnSet(f, Missing(b)) = amount
    BY <2>1, <2>2, BundleSharesAddUp
  <2> QED
    BY <2>3, <2>4 DEF SumFunction, f
<1>2. \A b \in Buyers, amount \in Amounts :
         BuyBundle(b, amount) =>
            SumFunction([p \in Missing(b) |-> license'[<<p, b>>]]) = amount
    BY <1>1
<1> QED
    BY <1>2, PTL DEF BundlePricesAddUp
=============================================================================
