---------------------------- MODULE SendPolicies ----------------------------
(***************************************************************************)
(* What operators decide about a tenant's sending: PUT send-policy, and    *)
(* the review decisions approve_external, reset_review, suspend_outbound.  *)
(* Each reads first and then writes row after row; decisions and upgrade   *)
(* payments may overlap.                                                   *)
(***************************************************************************)
EXTENDS PaymentSettlement

Decisions == {"approve", "reset", "suspend"}
PolicySteps == {"Decide", "SetStanding", "SyncAgents", "WriteList", "RelaxAgents",
                "WriteOpen"}

Before(p) == proc[p].read
Reads == [pc |-> "Decide", read |-> policy, was |-> standing]

Ask(p) ==
    /\ At(p, "free") /\ calls[p].call \in Decisions \union {"put"}
    /\ Put(p, Reads)
    /\ NoFault /\ UNCHANGED payVars

Decision(p) ==
    LET list == Before(p).allow IN
    CASE Calls(p, "approve") -> Enabled(list)
      [] Calls(p, "reset") -> [status |-> "external_review", external |-> FALSE, review |-> TRUE,
                               allow |-> list]
      [] Calls(p, "suspend") -> [status |-> "suspended", external |-> FALSE, review |-> TRUE,
                                 allow |-> list]
      [] OTHER -> calls[p].policy

(* Payments that are settled and that no request works on.                 *)
Over == {x \in Prints : receipt[x].status = "settled" /\ \A q \in Callers : Paying(q) => Mine(q) # x}

Freed(new) == new.status = "external_enabled" /\ new.external
Synced(p) == IF Freed(Decision(p)) THEN Go(p, "RelaxAgents") ELSE Answer(p, "done")
Changed(p) == Decision(p).allow # Before(p).allow

Decide(p) ==
    /\ At(p, "Decide")
    /\ policy' = Decision(p)
    /\ approved' = (approved \/ policy'.external)
    /\ closed' = IF policy'.status = "suspended" THEN Over ELSE closed
    /\ \/ ~Calls(p, "put") /\ Go(p, "SetStanding")
       \/ Calls(p, "put") /\ Changed(p) /\ Go(p, "SyncAgents")
       \/ Calls(p, "put") /\ ~Changed(p) /\ Synced(p)
    /\ NoFault /\ UNCHANGED <<moneyVars, standing, recipients>>

NewStanding(p) ==
    CASE Calls(p, "approve") /\ proc[p].was = "trial" -> "active"
      [] Calls(p, "reset") /\ proc[p].was = "suspended" -> "active"
      [] Calls(p, "suspend") -> "suspended"
      [] OTHER -> standing

SetStanding(p) ==
    /\ At(p, "SetStanding")
    /\ standing' = NewStanding(p)
    /\ IF Calls(p, "approve") THEN Go(p, "RelaxAgents") ELSE Answer(p, "done")
    /\ NoFault /\ UNCHANGED <<moneyVars, sendVars>>

(* The agent's default policy follows: it gets the new list, and none if   *)
(* the tenant may now send to others.  PUT goes on with what it wrote.     *)
SyncAgents(p) ==
    /\ At(p, "SyncAgents")
    /\ IF Default(Before(p).allow) THEN Go(p, "WriteList") ELSE Synced(p)
    /\ NoFault /\ UNCHANGED payVars

WriteList(p) ==
    /\ At(p, "WriteList")
    /\ UpsertAgentPolicy(Decision(p).allow)
    /\ Synced(p)
    /\ NoFault /\ UNCHANGED <<moneyVars, standing, policy, approved, closed>>

RelaxAgents(p) ==
    /\ At(p, "RelaxAgents")
    /\ IF Default(Decision(p).allow) THEN Go(p, "WriteOpen") ELSE Answer(p, "done")
    /\ NoFault /\ UNCHANGED payVars

WriteOpen(p) ==
    /\ At(p, "WriteOpen")
    /\ UpsertAgentPolicy("open")
    /\ Answer(p, "done")
    /\ NoFault /\ UNCHANGED <<moneyVars, standing, policy, approved, closed>>

(* A call throws: what was written stays.                                  *)
FailDecision(p) ==
    /\ proc[p].pc \in PolicySteps /\ Fault(proc[p].pc)
    /\ Answer(p, "error")
    /\ UNCHANGED payVars

PolicyStep(p) ==
    \/ Ask(p) \/ Decide(p) \/ SetStanding(p)
    \/ SyncAgents(p) \/ WriteList(p) \/ RelaxAgents(p) \/ WriteOpen(p)
=============================================================================
