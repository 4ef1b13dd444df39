------------------------------ MODULE MCOffice ------------------------------
(* The parts of the panel beside sites and their bills, for TLC.  They     *)
(* share no variable: one of them moves in each behaviour, the others stay *)
(* as they began.                                                          *)
EXTENDS Capacity, Shop, Fiscal, Webhooks, LeasedBlocks, Imports, Crons

VARIABLE part

officeVars ==
  <<capVars, shopVars, fiscalVars, hookVars, blockVars, importVars, cronVars, part>>

OfficeInit ==
  /\ part \in {"capacity", "shop", "fiscal", "webhooks", "blocks", "imports", "crons"}
  /\ CapacityInit /\ ShopInit /\ FiscalInit /\ WebhooksInit /\ LeasedBlocksInit
  /\ ImportsInit /\ (part # "imports" => user = {})
  /\ CronsInit /\ (part # "crons" => due = {})

OfficeNext ==
  /\ UNCHANGED part
  /\ \/ /\ part = "capacity" /\ CapacityNext
        /\ UNCHANGED <<shopVars, fiscalVars, hookVars, blockVars, importVars, cronVars>>
     \/ /\ part = "shop" /\ ShopNext
        /\ UNCHANGED <<capVars, fiscalVars, hookVars, blockVars, importVars, cronVars>>
     \/ /\ part = "fiscal" /\ FiscalNext
        /\ UNCHANGED <<capVars, shopVars, hookVars, blockVars, importVars, cronVars>>
     \/ /\ part = "webhooks" /\ WebhooksNext
        /\ UNCHANGED <<capVars, shopVars, fiscalVars, blockVars, importVars, cronVars>>
     \/ /\ part = "blocks" /\ LeasedBlocksNext
        /\ UNCHANGED <<capVars, shopVars, fiscalVars, hookVars, importVars, cronVars>>
     \/ /\ part = "imports" /\ ImportsNext
        /\ UNCHANGED <<capVars, shopVars, fiscalVars, hookVars, blockVars, cronVars>>
     \/ /\ part = "crons" /\ CronsNext
        /\ UNCHANGED <<capVars, shopVars, fiscalVars, hookVars, blockVars, importVars>>

\* The hourly run starts where servers come and go, the exchange is asked where
\* invoices are sent; nothing else that is fair is enabled in a part that stays
\* as it began.
OfficeSpec ==
  /\ OfficeInit /\ [][OfficeNext]_officeVars
  /\ CapacityFairness /\ WF_capState(part = "capacity" /\ KeepStart)
  /\ ShopFairness
  /\ FiscalFairness /\ \A d \in Doc : SF_fiscalVars(\E h \in Hand : Ask(h, d))

\* Every part's rows are what their columns allow.
OfficeTypeOK == CapacityTypeOK /\ ShopTypeOK /\ FiscalTypeOK /\ WebhooksTypeOK
                /\ LeasedBlocksTypeOK /\ ImportsTypeOK /\ CronsTypeOK

\* Places for sites, and the addresses they are reached at, are what was agreed
\* with providers and the marketplace.
PlacesRight == CapacityRight /\ BlocksRight

\* What customers agreed to, here or at another system they moved from, becomes
\* services and invoices, once each, and what the tax authority has of them is what
\* the panel shows; an endpoint that keeps failing is switched off in time; scheduled
\* jobs are started once and only where they were asked for.
SalesRight == ShopRight /\ FiscalRight /\ ImportRight
OfficeRight == SalesRight /\ SwitchedOffInTime /\ CronsRight

\* Nothing hangs: the reserve of places returns, an accepted quote is decided,
\* the outcome of every electronic invoice that was sent is seen.
Owed == (part = "capacity" /\ ReserveShort) \/ QuoteUndecided \/ \E d \in Doc : OutcomeUnseen(d)
OfficeEnd == Owed ~> ~Owed
=============================================================================
