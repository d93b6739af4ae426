------------------------------- MODULE Tenancy -------------------------------
(***************************************************************************)
(* What happens to a tenant around its mail: signup, access tokens, x402   *)
(* payments, operators' decisions about sending, the permission to send,   *)
(* and the contact aliases of the service itself.  Requests of each kind   *)
(* interleave step by step; payments, decisions and sends share the        *)
(* billing account and the policies, aliases and sends the addresses.      *)
(***************************************************************************)
EXTENDS OutboundPolicy, Signup, AccessTokens

(* There are aliases, and rules of other localparts.  To begin with each   *)
(* alias has an active mailbox exactly if it has its rule, and the rules to*)
(* be kept are there; where the worker maintains them nobody may delete    *)
(* one.                                                                    *)
AliasesFit(w) ==
    /\ w.start.box \in [ContactParts -> {"none", "active", "inactive"}]
    /\ w.start.rule \in [ContactParts \union Others -> {"none", "worker", "other"}]
    /\ \A a \in ContactParts : w.start.box[a] = "active" <=> w.start.rule[a] = "worker"
    /\ \A l \in Preserved : w.start.rule[l] = "worker"
    /\ \A p \in DOMAIN w.calls : w.calls[p].call \in {"save", "remove"} =>
         w.calls[p].alias \in ContactParts
    /\ \A p, q \in DOMAIN w.calls :
         w.calls[p].call = "maintain" /\ w.calls[q].call = "remove" => w.calls[q].auto

ASSUME AliasAssumption ==
    /\ ContactParts = ContactLocalparts
    /\ Aliases \in Seq(ContactParts) /\ Aliases # <<>>
    /\ Preserved \subseteq Others /\ ContactParts \intersect Others = {}
    /\ \A w \in Workloads : AliasesFit(w)

(* What callers send: proofs that there are, receipts by their fingerprint *)
(* and policies with lists of their kind; how an agent is bound.           *)
Sendable(c) ==
    /\ c.call \in {"topup", "upgrade"} => c.proof \in Proofs \union {None}
    /\ c.call = "confirm" => c.print \in Prints
    /\ c.call = "rebind" => c.role \in BindingRoles
    /\ c.call = "put" => c.policy.external \in BOOLEAN /\ c.policy.allow \in Allowlists
    /\ c.call = "restrict" => c.list \in Allowlists \union CustomLists \union {"open"}

ASSUME CallAssumption ==
    \A w \in Workloads :
      w.access.binding \in BindingRoles /\ \A p \in DOMAIN w.calls : Sendable(w.calls[p])

vars == <<calls, faults, overlapped, proc, barred, payVars, signupVars, tokenVars, aliasVars>>

Init ==
    \E w \in Workloads :
      /\ calls = [p \in Callers |-> IF p \in DOMAIN w.calls THEN w.calls[p] ELSE NoCall]
      /\ faults = w.spared
      /\ overlapped = FALSE
      /\ proc = [p \in Callers |-> Free]
      /\ barred = {}
      /\ InitPayments(w.funds) /\ InitSignup /\ InitTokens(w.access) /\ InitAliases(w.start)

(* An isolate is evicted: its request is neither finished nor undone.      *)
Crash(p) ==
    /\ Running(p) /\ Fault("Crash")
    /\ Answer(p, "crashed")
    /\ broken' = IF Calls(p, "signup") THEN broken \union {p} ELSE broken
    /\ stray' = IF At(p, "MailQueue") \/ At(p, "MailUndo") THEN stray \union {p} ELSE stray
    /\ unclear' = (unclear \/ proc[p].pc \in AliasSteps)
    /\ UNCHANGED <<payVars, rows, blobs, mailed, box, rule,
                   accessVars, reissues, drafts, queued, handed, unlogged>>

Work(p) ==
    \/ /\ PayStep(p) \/ PolicyStep(p) \/ PutAgentPolicy(p)
       /\ UNCHANGED <<signupVars, tokenVars, aliasVars, overlapped>>
    \/ SendStep(p) /\ UNCHANGED <<payVars, signupVars, tokenVars, aliasVars, overlapped>>
    \/ SignupStep(p) /\ UNCHANGED <<payVars, tokenVars, aliasVars, overlapped>>
    \/ TokenStep(p) /\ Overlap(p) /\ UNCHANGED <<payVars, signupVars, aliasVars>>
    \/ AliasStep(p) /\ Overlap(p) /\ UNCHANGED <<payVars, signupVars, tokenVars>>

Failure(p) ==
    \/ (FailPayment(p) \/ NoVerdict(p) \/ FailDecision(p)) /\ UNCHANGED <<signupVars, tokenVars, aliasVars>>
    \/ (FailSignup(p) \/ Arrive(p)) /\ UNCHANGED <<payVars, tokenVars, aliasVars>>
    \/ FailSend(p) /\ UNCHANGED <<payVars, signupVars, tokenVars, aliasVars>>
    \/ FailToken(p) /\ UNCHANGED <<payVars, signupVars, aliasVars>>
    \/ FailAlias(p) /\ UNCHANGED <<payVars, signupVars, tokenVars>>
    \/ Crash(p)

(* What the requests have met when the next step begins: a suspended       *)
(* tenant; an agent that lacks the access, or a mailbox that is closed.    *)
Forbidden(p) ==
    \/ Calls(p, "send") /\ policy.status = "suspended"
    \/ Minting(p) /\ calls[p].agent /\ ~Able(calls[p].scopes = "send")
    \/ calls[p].call \in {"reissue", "rotate"} /\ ~(open /\ Able(TRUE))
Bar == barred' = {p \in Callers : Forbidden(p) /\ (At(p, "free") \/ p \in barred)}

Next ==
    /\ Bar /\ UNCHANGED calls
    /\ \E p \in Callers : Work(p) \/ (Failure(p) /\ UNCHANGED overlapped)

(* A request that has begun goes on, and a client confirms a payment until *)
(* it is settled or has failed.                                            *)
Spec == Init /\ [][Next]_vars /\ \A p \in Callers : WF_vars(Work(p) /\ Bar /\ UNCHANGED calls)

-----------------------------------------------------------------------------
(* Properties.                                                             *)

(* Every variable has its type.                                            *)
TypeOK ==
    /\ receipt \in [Prints -> [status : Statuses, settle : {"none", "refused", "settled"}]]
    /\ ledger \subseteq Prints /\ charged \subseteq Prints
    /\ available \in Int /\ standing \in {"trial", "active", "suspended"}
    /\ policy.status \in {"internal_only", "external_review", "external_enabled", "suspended"}
    /\ policy.allow \in Allowlists /\ recipients \in Allowlists \union CustomLists \union {"open"}
    /\ \A p \in Callers : rows[p] \subseteq {CleanupOrder[i] : i \in DOMAIN CleanupOrder}
    /\ (drafts \union queued \union handed \union reissues) \subseteq Callers
    /\ box \in [ContactParts -> {"none", "active", "inactive"}]
    /\ rule \in [ContactParts \union Others -> {"none", "worker", "other"}]
    /\ faults \in 0..MaxFaults

(* Credits and external sending are paid for: an entry of the ledger has a *)
(* payer who was charged, a settled receipt has its entry, the balance is  *)
(* never more than the ledger holds, and all of it once a single payment   *)
(* is settled; nobody may send to others, nor is the agent's list opened   *)
(* but by its customer, unless an operator allowed it or an upgrade was    *)
(* charged; and no message to others is permitted to a tenant that never   *)
(* had a credit -- whichever requests work on a receipt at once, fail, or  *)
(* die.                                                                    *)
(* (finalizePaymentReceiptSettlement, reconcileTenantAvailableCredits,     *)
(* checkOutboundCreditRequirement)                                         *)
EntriesEarned == ledger \subseteq charged
ReceiptsBooked == \A x \in Prints : receipt[x].status = "settled" => x \in ledger
Privileged == approved \/ \E x \in charged : About[x].kind = "upgrade"
OpenedItself == \E p \in Callers : Calls(p, "restrict") /\ calls[p].list = "open"
RightsEarned ==
    /\ policy.external => Privileged
    /\ recipients = "open" => Privileged \/ OpenedItself
BalanceEarned ==
    /\ available + funds.held <= Total
    /\ \A x \in ledger : receipt[x].status = "settled" /\ ledger = {x} => available + funds.held = Total
    /\ \A p \in Callers : Calls(p, "send") /\ At(p, "done") /\ Outside(p) # {} =>
         funds.opening > 0 \/ charged # {}
PaidFor == EntriesEarned /\ ReceiptsBooked /\ RightsEarned /\ BalanceEarned

(* A payment whose payer was charged ends up in the ledger, and settled,   *)
(* if its client keeps confirming it -- unless a second request had its    *)
(* verification refused, or not answered, and wrote the receipt off.       *)
(* (confirmPaymentReceiptWithFacilitator, withRefreshedPaymentReceipt)     *)
Confirmed(x) == \E p \in Callers : Calls(p, "confirm") /\ calls[p].print = x
Landed(x) == x \in ledger /\ receipt[x].status = "settled"
PaymentLands == \A x \in Prints : (x \in charged /\ Confirmed(x)) ~> (Landed(x) \/ x \in raced)

(* A suspension is lifted by an operator or by a new upgrade, never by one *)
(* that was settled and answered when it was imposed, however often that   *)
(* is submitted or confirmed again; and while it stands no message to      *)
(* others is permitted, whoever's mailbox is closed or opened meanwhile.   *)
(* (finalizePaymentReceiptSettlement, evaluateOutboundPolicy)              *)
Lifts(p) ==
    \/ Decide(p) /\ calls[p].call \in {"approve", "put", "reset"}
    \/ Enable(p) /\ Mine(p) \notin closed
Lifted == policy.status = "suspended" /\ policy'.status # "suspended"
Permitted(p) == Calls(p, "send") /\ ~At(p, "done") /\ At(p, "done")'
SuspensionStands ==
    [][/\ Lifted => \E p \in Callers : Lifts(p)
       /\ \A p \in barred : Permitted(p) => Outside(p) = {}]_vars

(* Access is given whole or not at all.  A signup that succeeds has every  *)
(* row, alone at its address; one that fails leaves no row and no object,  *)
(* unless its cleanup failed too.  A token mail that was not queued leaves *)
(* no draft, a rotated token is in the answer or in a queued mail, one     *)
(* token is mailed per cooldown, unless the log failed or two asked at     *)
(* once, and nobody gets a token for what the agent had no access to at    *)
(* any time of the request -- unless two of the mailbox, the binding and   *)
(* the deployment, which are read one after the other, change.             *)
(* (performSelfServeSignup, cleanupPartialSelfServeSignup,                 *)
(* reissueMailboxAccessToken, deliverRotatedTokenToSelfMailbox,            *)
(* validateTokenAgentMailboxScopes)                                        *)
SignupWhole(p) ==
    /\ At(p, "done") => Planned \subseteq rows[p] /\ (calls[p].inline \/ p \in mailed)
    /\ proc[p].pc \in {"refused", "error"} /\ p \notin broken => rows[p] = {} /\ blobs[p] = {}
TwoChanges == \E q, r \in Callers : q # r /\ {calls[q].call, calls[r].call} \subseteq Changing
TokenWhole(p) ==
    /\ Answered(p) /\ p \in drafts => p \in queued \union stray
    /\ Rotating(p) /\ At(p, "done") => p \in handed \union queued
    /\ p \in barred /\ ~TwoChanges => p \notin handed \union queued
AccessWhole ==
    /\ \A p \in Callers : Calls(p, "signup") => SignupWhole(p)
    /\ \A p, q \in Callers :
         p # q /\ Calls(p, "signup") /\ Calls(q, "signup") /\ At(p, "done") /\ At(q, "done") =>
           Address(p) # Address(q)
    /\ \A p \in Callers : Calls(p, "reissue") \/ Rotating(p) \/ Minting(p) => TokenWhole(p)
    /\ \A p, q \in queued :
         p # q /\ Calls(p, "reissue") /\ Calls(q, "reissue") => unlogged # {} \/ overlapped

(* A contact alias has an active mailbox exactly if it has a rule to the   *)
(* worker, also after a rule could not be written or deleted, unless two   *)
(* requests overlapped, a call failed in the dark or maintenance stopped   *)
(* halfway; and what is maintained has no redundant rule left, while those *)
(* to be kept are kept.                                                    *)
(* (the contact-alias routes, ensureManagedContactAliasRouting,            *)
(* cleanupRedundantMailboxWorkerRules)                                     *)
Quiet == AtRest /\ ~overlapped /\ ~unclear
AliasAgrees ==
    Quiet =>
      /\ \A a \in ContactParts : box[a] = "active" <=> rule[a] = "worker"
      /\ (\E p \in Callers : Maintains(p) /\ At(p, "done")) =>
           /\ \A a \in ContactParts : box[a] = "active"
           /\ {l \in Others : rule[l] = "worker"} = Preserved
=============================================================================
