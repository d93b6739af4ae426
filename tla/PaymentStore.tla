---------------------------- MODULE PaymentStore ----------------------------
(***************************************************************************)
(* What the payments and the operators of one tenant read and write: its   *)
(* receipts, credit ledger, billing account, send policy and the policy of *)
(* its default agent; and, outside, whom the x402 facilitator has charged. *)
(***************************************************************************)
EXTENDS TenantCalls, FiniteSetsExt

CONSTANTS
    Proofs,     \* payment proofs, as customers send them
    About,      \* [print, kind, credits, good, flaws] of a proof: what it is
                \* for, whether the facilitator accepts it, and which checks
                \* of validateX402PaymentProof it does not pass
    IncludedCredits, \* credits that come with an upgrade
    Allowlists, \* values of internal_domain_allowlist
    CustomLists \* lists of an agent policy that is not the default one

(* Equal proofs, however they are encoded, have one fingerprint.           *)
Prints == {About[x].print : x \in Proofs}
ReceiptOf(x) == About[x].print

ASSUME PaymentAssumption ==
    /\ Prints \subseteq Proofs
    /\ \A x \in Proofs : /\ About[x].kind \in {"topup", "upgrade"}
                         /\ About[x].credits \in Nat \ {0}
                         /\ \A f \in {"kind", "credits", "good"} : About[x][f] = About[ReceiptOf(x)][f]
    /\ Allowlists # {} /\ "open" \notin Allowlists \union CustomLists
    /\ Allowlists \intersect CustomLists = {}

VARIABLES
    receipt,     \* tenant_payment_receipts by fingerprint: status, and the
                 \* facilitator's stored answer to a settlement
    ledger,      \* tenant_credit_ledger: the receipts with an entry
    available,   \* available_credits of the billing account
    funds,       \* opening: the sum of the ledger entries there were before,
                 \* held: reserved_credits; neither changes here
    standing,    \* status of the billing account
    policy,      \* tenant_send_policies: status, external, review, allow
    recipients,  \* allowed_recipient_domains of the agent's policy: an
                 \* allowlist or "open", the empty list, of a default policy,
                 \* or a list of the customer's own
    charged,     \* the facilitator: proofs whose payer was charged
    touched,     \* requests whose receipt was written since they read it
    raced,       \* history: receipts set to failed although charged
    approved,    \* history: an operator has enabled external sending
    closed       \* history: payments settled and answered at a suspension

moneyVars == <<receipt, ledger, available, funds, charged, touched, raced>>
sendVars == <<policy, recipients, approved, closed>>
payVars == <<moneyVars, sendVars, standing>>

NoReceipt == [status |-> "none", settle |-> "none"]
Statuses == {"none", "pending", "verified", "failed", "settled"}

InitPayments(before) ==
    /\ funds = before
    /\ receipt = [x \in Prints |-> NoReceipt]
    /\ ledger = {} /\ charged = {} /\ touched = {} /\ raced = {} /\ closed = {}
    /\ available = before.opening - before.held
    /\ standing = "trial"
    /\ recipients = CHOOSE l \in Allowlists : TRUE
    /\ policy = [status |-> "internal_only", external |-> FALSE, review |-> TRUE, allow |-> recipients]
    /\ approved = FALSE

-----------------------------------------------------------------------------
(* Requests that work on receipts.  `copy` is the receipt as last read or  *)
(* written, `had` whether there was a ledger entry at the start, `again`   *)
(* whether this is the second attempt, `sum` what the ledger added up to,  *)
(* `was` the account's status and `list` the allowlist as read.            *)

Paying(p) == Running(p) /\ "print" \in DOMAIN proc[p]
Mine(p) == proc[p].print
Copy(p) == proc[p].copy

(* Any write of a receipt changes updated_at, which a request compares.    *)
WriteReceipt(p, status, settle) ==
    /\ receipt' = [receipt EXCEPT ![Mine(p)] = [status |-> status, settle |-> settle]]
    /\ touched' = touched \union {q \in Callers : Paying(q) /\ Mine(q) = Mine(p)}

(* What the ledger adds up to.                                             *)
Total == FoldSet(LAMBDA x, sum : sum + About[x].credits, funds.opening, ledger)

(* The agent's policy is the default one for a list; such a policy, read   *)
(* in one step, is rewritten in the next, whatever it is by then.          *)
Default(list) == recipients = list
UpsertAgentPolicy(list) == recipients' = list
=============================================================================
