----------------------------- MODULE MCContract -----------------------------
(***************************************************************************)
(* The escrow of the contract in one run of two parts: one prompt sold to  *)
(* three buyers over time, and bundles of two prompts at one price, each   *)
(* an instance of PromptEscrow with constants of its own.  A behaviour     *)
(* belongs to one part, chosen at the start.                               *)
(***************************************************************************)
EXTENDS MCPromptEscrow

OnePrompt ==
    INSTANCE PromptEscrow WITH
        BundlePrompts <- {0}, Amounts <- {1, 2}, DisputeWindow <- 1

\* The configuration's bundle and window: BundlePricesAddUp is about these calls.
Bundles ==
    INSTANCE PromptEscrow WITH
        Amounts <- {3}, MaxTime <- 0, SaleStatuses <- {"Active"}

VARIABLE part \* the part this behaviour is about

ContractInit == part \in {"one prompt", "bundles"} /\ Init

\* Nothing is done to prompt 1.
OnePromptPart ==
    /\ part = "one prompt"
    /\ OnePrompt!Next
    /\ saleStatus'[1] = saleStatus[1] /\ maxSupply'[1] = maxSupply[1]
    /\ \A x \in Buyers : license'[<<1, x>>] = NoLicense

\* Who has been sold something.
Customers == {x \in Buyers : \E p \in Prompts : Holds(p, x) \/ escrow[<<p, x>>] # NoEscrow}

BundlePart ==
    /\ part = "bundles"
    /\ Bundles!Next
    /\ Cardinality(Customers') <= 2

ContractSpec ==
    ContractInit /\ [][(OnePromptPart \/ BundlePart) /\ UNCHANGED part]_<<part, vars>>
=============================================================================
