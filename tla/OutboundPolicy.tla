--------------------------- MODULE OutboundPolicy ---------------------------
(***************************************************************************)
(* Whether a message may be sent: evaluateOutboundPolicy followed by       *)
(* checkOutboundCreditRequirement, as every route that queues a message    *)
(* and every system mail runs them.  Both route the recipients afresh:     *)
(* active mailboxes of the service are local, all else is external, and    *)
(* only what is external needs permission and credits.  A request that is  *)
(* done has the permission.                                                *)
(***************************************************************************)
EXTENDS SendPolicies, ContactAliases

CONSTANT
    Reach    \* by list: the addresses whose domains are in it

ASSUME ReachAssumption == DOMAIN Reach = Allowlists \union CustomLists

SendSteps == {"Route", "ReadStanding", "Judge", "ReadAgent", "RouteAgain", "Balance"}

Recipients(p) == calls[p].to \union calls[p].others
Outside(p) == Recipients(p) \ ContactParts

(* routeOutboundRecipients: who of the recipients is external just now.    *)
External(p) == {a \in Recipients(p) : a \notin ContactParts \/ box[a] # "active"}

SendBegins(p) ==
    /\ At(p, "free") /\ Calls(p, "send")
    /\ Put(p, [pc |-> "Route", ext |-> {}, tenant |-> policy, credits |-> FALSE])
    /\ NoFault

(* There is a recipient, and an external one is not only copied.           *)
Route(p) ==
    LET ext == External(p) IN
    /\ At(p, "Route")
    /\ \/ Recipients(p) = {} /\ Answer(p, "refused")
       \/ ext # {} /\ ext \intersect calls[p].to = {} /\ Answer(p, "refused")
       \/ Recipients(p) # {} /\ ext = {} /\ Go(p, "RouteAgain")
       \/ /\ ext \intersect calls[p].to # {}
          /\ Put(p, [proc[p] EXCEPT !.ext = ext, !.pc = "ReadStanding"])
    /\ NoFault

ReadStanding(p) ==
    /\ At(p, "ReadStanding")
    /\ Put(p, [proc[p] EXCEPT !.tenant = policy, !.pc = "Judge"])
    /\ NoFault

(* Credits that are reserved count: they may be this message's own.        *)
Unlocked(tenant, credits) ==
    /\ tenant.status # "suspended"
    /\ credits \/ (tenant.external /\ tenant.status = "external_enabled")

Judge(p) ==
    LET credits == available + funds.held > 0 IN
    /\ At(p, "Judge")
    /\ IF Unlocked(proc[p].tenant, credits)
       THEN Put(p, [proc[p] EXCEPT !.credits = credits, !.pc = "ReadAgent"])
       ELSE Answer(p, "refused")
    /\ NoFault

(* The agent's list, which credits override while it is the default one.   *)
(* No quota of messages is counted after this: that is for tenants who     *)
(* have neither credits nor an enabled policy, and they do not get here.   *)
Admitted(p) ==
    \/ recipients = "open"
    \/ proc[p].credits /\ recipients = proc[p].tenant.allow
    \/ recipients # "open" /\ proc[p].ext \subseteq Reach[recipients]

ReadAgent(p) ==
    /\ At(p, "ReadAgent")
    /\ IF Admitted(p) THEN Go(p, "RouteAgain") ELSE Answer(p, "refused")
    /\ NoFault

RouteAgain(p) ==
    /\ At(p, "RouteAgain")
    /\ IF External(p) = {} THEN Answer(p, "done") ELSE Go(p, "Balance")
    /\ NoFault

Balance(p) ==
    /\ At(p, "Balance")
    /\ Answer(p, IF available >= 1 THEN "done" ELSE "refused")
    /\ NoFault

FailSend(p) ==
    /\ proc[p].pc \in SendSteps /\ Fault(proc[p].pc)
    /\ Answer(p, "error")

(* PUT /v1/agents/:agentId/policy: the agent's list is the customer's own. *)
PutAgentPolicy(p) ==
    /\ At(p, "free") /\ Calls(p, "restrict")
    /\ UpsertAgentPolicy(calls[p].list)
    /\ Answer(p, "done")
    /\ NoFault /\ UNCHANGED <<moneyVars, standing, policy, approved, closed>>

SendStep(p) ==
    \/ SendBegins(p) \/ Route(p) \/ ReadStanding(p) \/ Judge(p)
    \/ ReadAgent(p) \/ RouteAgain(p) \/ Balance(p)
=============================================================================
