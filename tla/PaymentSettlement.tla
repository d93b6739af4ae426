-------------------------- MODULE PaymentSettlement --------------------------
(***************************************************************************)
(* x402 payments: a proof is submitted to POST /v1/billing/topup or        *)
(* /upgrade-intent, its receipt is verified and settled by the facilitator *)
(* and then by the ledger, the account and the send policy; POST           *)
(* /v1/billing/payment/confirm takes up what was left.  Nothing holds the  *)
(* receipt meanwhile: any number of requests may work on one.              *)
(***************************************************************************)
EXTENDS PaymentStore

PaySteps == {"Lookup", "Create", "Relook", "Begin", "Verify", "WriteVerified", "WriteFailed",
             "Settle", "WriteSettled", "WriteRefused", "Finalize", "Grant", "Account", "Profile",
             "ReadPolicy", "Enable", "Relax", "Open", "Sum", "Credit", "Mark", "Refresh"}

Request(x) == [pc |-> "Lookup", print |-> x, copy |-> NoReceipt, had |-> FALSE, again |-> FALSE,
               sum |-> 0, was |-> "trial", list |-> None]
Upgrade(p) == About[Mine(p)].kind = "upgrade"

(* What a proof has to be for: the credits asked for, or the upgrade.      *)
TopupQuote(c) == [kind |-> "topup", credits |-> c.credits]
UpgradeQuote == [kind |-> "upgrade", credits |-> IncludedCredits]

(* validateX402PaymentProof: the proof is whole and for this quote.        *)
Admissible(x, quote) ==
    /\ About[x].flaws = {}
    /\ [kind |-> About[x].kind, credits |-> About[x].credits] = quote

Submit(p, quote) ==
    LET x == calls[p].proof IN
    /\ At(p, "free")
    /\ IF x # None /\ Admissible(x, quote) THEN Put(p, Request(ReceiptOf(x))) ELSE Answer(p, "refused")
    /\ NoFault /\ UNCHANGED payVars

Topup(p) == Calls(p, "topup") /\ Submit(p, TopupQuote(calls[p]))
UpgradeIntent(p) == Calls(p, "upgrade") /\ Submit(p, UpgradeQuote)

-----------------------------------------------------------------------------
(* What a request does next with a receipt it has read.                    *)

(* Variant: any stored answer to a settlement is taken for a success.      *)
NextStepTrusting(p, r) ==
    CASE r.status = "pending" -> "Verify"
      [] r.status = "settled" /\ Calls(p, "confirm") -> "Finalize"
      [] r.status \in {"verified", "settled"} /\ r.settle # "none" -> "Finalize"
      [] OTHER -> "Settle"

NextStep(p, r) ==
    CASE r.status = "pending" -> "Verify"
      [] \/ r.status = "settled" /\ Calls(p, "confirm")
         \/ r.status \in {"verified", "settled"} /\ r.settle = "settled" -> "Finalize"
      [] OTHER -> "Settle"

Take(p, r, q) == Put(p, [q EXCEPT !.copy = r, !.pc = "Begin"])
Unsettled(r) == r.status \in {"pending", "verified"}

Replay(p) == Answer(p, "done")

LookUp(p, s) ==
    LET r == receipt[Mine(p)] IN
    /\ At(p, s)
    /\ \/ Unsettled(r) /\ Take(p, r, proc[p])
       \/ r.status \in {"failed", "settled"} /\ Replay(p)
       \/ r.status = "none" /\ s = "Lookup" /\ Go(p, "Create")
       \/ r.status = "none" /\ s = "Relook" /\ Answer(p, "error")
    /\ touched' = touched \ {p}
    /\ NoFault /\ UNCHANGED <<sendVars, standing, receipt, ledger, available, funds, charged, raced>>

Pending == [status |-> "pending", settle |-> "none"]

Create(p) ==
    /\ At(p, "Create")
    /\ \/ /\ receipt[Mine(p)] = NoReceipt
          /\ receipt' = [receipt EXCEPT ![Mine(p)] = Pending]
          /\ Take(p, Pending, proc[p])
       \/ /\ receipt[Mine(p)] # NoReceipt
          /\ Go(p, "Relook") /\ UNCHANGED receipt
    /\ NoFault /\ UNCHANGED <<sendVars, standing, ledger, available, funds, charged, raced, touched>>

(* Variant: only a pending receipt can be confirmed.                       *)
ConfirmPending(p) ==
    /\ At(p, "free") /\ Calls(p, "confirm")
    /\ LET x == calls[p].print
           r == receipt[x]
       IN IF r.status # "pending" THEN Answer(p, "refused") ELSE Take(p, r, Request(x))
    /\ touched' = touched \ {p}
    /\ NoFault /\ UNCHANGED <<sendVars, standing, receipt, ledger, available, funds, charged, raced>>

(* payment/confirm reads the receipt by its id.                            *)
Confirm(p) ==
    /\ At(p, "free") /\ Calls(p, "confirm")
    /\ LET x == calls[p].print
           r == receipt[x]
       IN IF r.status \in {"none", "failed"} THEN Answer(p, "refused") ELSE Take(p, r, Request(x))
    /\ touched' = touched \ {p}
    /\ NoFault /\ UNCHANGED <<sendVars, standing, receipt, ledger, available, funds, charged, raced>>

(* A client confirms again as long as the receipt is not settled.          *)
Repeat(p) ==
    /\ Answered(p) /\ Calls(p, "confirm")
    /\ Unsettled(receipt[calls[p].print])
    /\ Put(p, Free)
    /\ NoFault /\ UNCHANGED payVars

Begin(p) ==
    /\ At(p, "Begin")
    /\ IF Copy(p).status = "failed" THEN Answer(p, "refused")
       ELSE Put(p, [proc[p] EXCEPT !.had = Mine(p) \in ledger, !.pc = NextStep(p, Copy(p))])
    /\ NoFault /\ UNCHANGED payVars

-----------------------------------------------------------------------------
(* confirmPaymentReceiptWithFacilitator.                                   *)

(* The facilitator may refuse an authorization it has already used.        *)
Verify(p) ==
    LET x == Mine(p) IN
    /\ At(p, "Verify")
    /\ \/ About[x].good /\ Go(p, "WriteVerified")
       \/ (~About[x].good \/ x \in charged) /\ Go(p, "WriteFailed")
    /\ NoFault /\ UNCHANGED payVars

(* The metadata written are those of the copy: a settlement that another   *)
(* request has stored meanwhile is lost.                                   *)
WriteVerified(p) ==
    /\ At(p, "WriteVerified")
    /\ WriteReceipt(p, "verified", Copy(p).settle)
    /\ Put(p, [proc[p] EXCEPT !.copy.status = "verified", !.pc = "Settle"])
    /\ NoFault /\ UNCHANGED <<sendVars, standing, ledger, available, funds, charged, raced>>

WriteFailed(p) ==
    /\ At(p, "WriteFailed")
    /\ WriteReceipt(p, "failed", Copy(p).settle)
    /\ raced' = IF Mine(p) \in charged THEN raced \union {Mine(p)} ELSE raced
    /\ Answer(p, "refused")
    /\ NoFault /\ UNCHANGED <<sendVars, standing, ledger, available, funds, charged>>

(* The id of the receipt is the idempotency key.                           *)
Charge(x) ==
    /\ charged' = charged \union {x}
    /\ raced' = IF receipt[x].status = "failed" THEN raced \union {x} ELSE raced

Settle(p) ==
    LET x == Mine(p) IN
    /\ At(p, "Settle")
    /\ \/ About[x].good /\ Charge(x) /\ Go(p, "WriteSettled")
       \/ x \notin charged /\ Go(p, "WriteRefused") /\ UNCHANGED <<charged, raced>>
    /\ NoFault /\ UNCHANGED <<sendVars, standing, receipt, ledger, available, funds, touched>>

WriteSettled(p) ==
    /\ At(p, "WriteSettled")
    /\ WriteReceipt(p, "verified", "settled")
    /\ Put(p, [proc[p] EXCEPT !.copy = [status |-> "verified", settle |-> "settled"],
                              !.pc = "Finalize"])
    /\ NoFault /\ UNCHANGED <<sendVars, standing, ledger, available, funds, charged, raced>>

WriteRefused(p) ==
    /\ At(p, "WriteRefused")
    /\ WriteReceipt(p, "verified", "refused")
    /\ Answer(p, "refused")
    /\ NoFault /\ UNCHANGED <<sendVars, standing, ledger, available, funds, charged, raced>>

-----------------------------------------------------------------------------
(* finalizePaymentReceiptSettlement.  A settled receipt that has its entry *)
(* is only shown again; otherwise what is missing is done, an upgrade also *)
(* enabling external sending.                                              *)

(* Variant: an upgrade is applied whenever it is finalized.                *)
UpgradeStepAlways(entry, settled) == IF entry THEN "Account" ELSE "Grant"

UpgradeStep(entry, settled) ==
    CASE ~entry -> "Grant"
      [] entry /\ ~settled -> "Account"
      [] OTHER -> "Sum"
TopupStep(entry) == IF entry THEN "Sum" ELSE "Grant"

Finalize(p) ==
    LET entry == Mine(p) \in ledger
        settled == Copy(p).status = "settled"
    IN
    /\ At(p, "Finalize")
    /\ Go(p, IF settled /\ ~entry THEN "Refresh"
             ELSE IF Upgrade(p) THEN UpgradeStep(entry, settled) ELSE TopupStep(entry))
    /\ NoFault /\ UNCHANGED payVars

(* INSERT OR IGNORE under the unique index on payment_receipt_id.          *)
Grant(p) ==
    /\ At(p, "Grant")
    /\ ledger' = ledger \union {Mine(p)}
    /\ Go(p, IF Upgrade(p) THEN "Account" ELSE "Sum")
    /\ NoFault /\ UNCHANGED <<sendVars, standing, receipt, available, funds, charged, touched, raced>>

Account(p) ==
    /\ At(p, "Account")
    /\ Put(p, [proc[p] EXCEPT !.was = standing, !.pc = "Profile"])
    /\ NoFault /\ UNCHANGED payVars

Profile(p) ==
    /\ At(p, "Profile") /\ Paying(p)
    /\ standing' = IF proc[p].was = "trial" THEN "active" ELSE standing
    /\ Go(p, "ReadPolicy")
    /\ NoFault /\ UNCHANGED <<moneyVars, sendVars>>

ReadPolicy(p) ==
    /\ At(p, "ReadPolicy")
    /\ Put(p, [proc[p] EXCEPT !.list = policy.allow, !.pc = "Enable"])
    /\ NoFault /\ UNCHANGED payVars

(* Variant: whoever may send to others needs no allowlist.                 *)
EnabledForAll(list) ==
    [status |-> "external_enabled", external |-> TRUE, review |-> FALSE, allow |-> "open"]

Enabled(list) == [status |-> "external_enabled", external |-> TRUE, review |-> FALSE, allow |-> list]

Enable(p) ==
    /\ At(p, "Enable")
    /\ policy' = Enabled(proc[p].list)
    /\ Go(p, "Relax")
    /\ NoFault /\ UNCHANGED <<moneyVars, standing, recipients, approved, closed>>

RelaxUpgraded(p) ==
    /\ At(p, "Relax")
    /\ Go(p, IF Default(proc[p].list) THEN "Open" ELSE "Sum")
    /\ NoFault /\ UNCHANGED payVars

Open(p) ==
    /\ At(p, "Open")
    /\ UpsertAgentPolicy("open")
    /\ Go(p, "Sum")
    /\ NoFault /\ UNCHANGED <<moneyVars, standing, policy, approved, closed>>

(* reconcileTenantAvailableCredits reads the sum and writes it later; the  *)
(* statement subtracts reserved_credits as they are then.                  *)
Sum(p) ==
    /\ At(p, "Sum")
    /\ Put(p, [proc[p] EXCEPT !.sum = Total, !.pc = "Credit"])
    /\ NoFault /\ UNCHANGED payVars

Credit(p) ==
    /\ At(p, "Credit")
    /\ available' = proc[p].sum - funds.held
    /\ IF Copy(p).status = "settled" THEN Answer(p, "done") ELSE Go(p, "Mark")
    /\ NoFault /\ UNCHANGED <<sendVars, standing, receipt, ledger, funds, charged, touched, raced>>

Mark(p) ==
    /\ At(p, "Mark")
    /\ WriteReceipt(p, "settled", Copy(p).settle)
    /\ Answer(p, "done")
    /\ NoFault /\ UNCHANGED <<sendVars, standing, ledger, available, funds, charged, raced>>

-----------------------------------------------------------------------------
(* Failures.                                                               *)

(* withRefreshedPaymentReceipt: the action is run once more if another     *)
(* request, or this one, has got further than what was read.               *)
Refresh(p) ==
    LET r == receipt[Mine(p)]
        further == p \in touched \/ (~proc[p].had /\ Mine(p) \in ledger)
    IN /\ At(p, "Refresh")
       /\ \/ (proc[p].again \/ ~further) /\ Answer(p, "error")
          \/ /\ ~proc[p].again /\ further
             /\ IF r.status = "failed" THEN Answer(p, "refused")
                ELSE Put(p, [proc[p] EXCEPT !.copy = r, !.again = TRUE, !.pc = NextStep(p, r)])
       /\ touched' = touched \ {p}
       /\ NoFault /\ UNCHANGED <<sendVars, standing, receipt, ledger, available, funds, charged, raced>>

Guarded == PaySteps \ {"Lookup", "Create", "Relook", "Begin", "Refresh"}

(* A call throws.  A write may have been done all the same, and the payer  *)
(* may have been charged; writes that a second attempt repeats need no     *)
(* case of their own.                                                      *)
FailPayment(p) ==
    /\ Paying(p) /\ Fault(proc[p].pc)
    /\ \/ proc[p].pc \in Guarded /\ Go(p, "Refresh")
       \/ At(p, "Create") /\ Go(p, "Relook")
       \/ proc[p].pc \in {"Lookup", "Relook"} /\ Answer(p, "error")
    /\ \/ UNCHANGED payVars
       \/ /\ At(p, "Settle") /\ About[Mine(p)].good
          /\ Charge(Mine(p))
          /\ UNCHANGED <<sendVars, standing, receipt, ledger, available, funds, touched>>
       \/ /\ At(p, "Create") /\ receipt[Mine(p)] = NoReceipt
          /\ receipt' = [receipt EXCEPT ![Mine(p)] = Pending]
          /\ UNCHANGED <<sendVars, standing, ledger, available, funds, charged, touched, raced>>
       \/ /\ At(p, "Grant")
          /\ ledger' = ledger \union {Mine(p)}
          /\ UNCHANGED <<sendVars, standing, receipt, available, funds, charged, touched, raced>>
       \/ /\ \/ At(p, "WriteVerified") /\ WriteReceipt(p, "verified", Copy(p).settle)
             \/ At(p, "WriteSettled") /\ WriteReceipt(p, "verified", "settled")
             \/ At(p, "Mark") /\ WriteReceipt(p, "settled", Copy(p).settle)
          /\ UNCHANGED <<sendVars, standing, ledger, available, funds, charged, raced>>

(* The facilitator answers with an error status and no verdict, which is   *)
(* taken for a refusal; the payer may have been charged.                   *)
NoVerdict(p) ==
    /\ Fault("Facilitator")
    /\ \/ At(p, "Verify") /\ Go(p, "WriteFailed") /\ UNCHANGED <<charged, raced>>
       \/ At(p, "Settle") /\ Go(p, "WriteRefused") /\ UNCHANGED <<charged, raced>>
       \/ At(p, "Settle") /\ Go(p, "WriteRefused") /\ About[Mine(p)].good /\ Charge(Mine(p))
    /\ UNCHANGED <<sendVars, standing, receipt, ledger, available, funds, touched>>

PayStep(p) ==
    \/ Topup(p) \/ UpgradeIntent(p) \/ Confirm(p) \/ Repeat(p)
    \/ LookUp(p, "Lookup") \/ LookUp(p, "Relook") \/ Create(p) \/ Begin(p)
    \/ Verify(p) \/ WriteVerified(p) \/ WriteFailed(p)
    \/ Settle(p) \/ WriteSettled(p) \/ WriteRefused(p)
    \/ Finalize(p) \/ Grant(p) \/ Account(p) \/ Profile(p)
    \/ ReadPolicy(p) \/ Enable(p) \/ RelaxUpgraded(p) \/ Open(p)
    \/ Sum(p) \/ Credit(p) \/ Mark(p) \/ Refresh(p)
=============================================================================
