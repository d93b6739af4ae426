--------------------------- MODULE ContactAliases ---------------------------
(***************************************************************************)
(* The contact aliases: each has a mailbox and a rule of Cloudflare Email  *)
(* Routing that sends its mail to the worker.  An operator saves, deletes  *)
(* or bootstraps them; where the bootstrap flag is on, every event of the  *)
(* worker maintains them and cleans up rules that a catch-all makes        *)
(* redundant.                                                              *)
(***************************************************************************)
EXTENDS TenantCalls

CONSTANTS
    Aliases,    \* CONTACT_ALIAS_LOCALPARTS, in the order of the loops
    Others,     \* localparts of other rules
    Preserved   \* those of Others that the clean-up keeps

ContactParts == {Aliases[i] : i \in DOMAIN Aliases}

VARIABLES
    box,      \* mailboxes of the aliases: none, active or inactive
    rule,     \* rules by localpart: none, worker or other
    unclear   \* history: a call failed and nobody knows what it has done, or
              \* an undo failed, or maintenance stopped halfway

aliasVars == <<box, rule, unclear>>

InitAliases(start) == box = start.box /\ rule = start.rule /\ unclear = FALSE

AliasSteps == {"List", "Box", "Activate", "Rule", "Undo", "OwnBox", "Deactivate", "DeleteRule",
               "Restore", "Redundant"}

(* `todo` are the aliases left, `rules` what was listed, `created` and     *)
(* `prior` tell of the mailbox; `phase` is that of the maintenance.        *)
Task(s, todo) == [pc |-> s, todo |-> todo, rules |-> [l \in {} |-> "none"], created |-> FALSE,
                  prior |-> "none", phase |-> 1]
Part(p) == Head(proc[p].todo)
Maintains(p) == Calls(p, "maintain")

Begins(p) ==
    /\ At(p, "free")
    /\ \/ Calls(p, "save") /\ Put(p, Task("List", <<calls[p].alias>>))
       \/ Calls(p, "remove") /\ IF calls[p].auto THEN Answer(p, "refused")
                                ELSE Put(p, Task("List", <<calls[p].alias>>))
       \/ Calls(p, "bootstrap") /\ Put(p, Task("List", Aliases))
       \/ Maintains(p) /\ Put(p, Task("Box", Aliases))
    /\ NoFault /\ UNCHANGED aliasVars

(* A rule the bootstrap leaves alone.                                      *)
Healthy(p, r, a) == Calls(p, "bootstrap") /\ ~calls[p].overwrite /\ r[a] = "worker"

(* What comes after an alias is done: of the maintenance first all the     *)
(* mailboxes, then the rules.                                              *)
Following(p, r) ==
    LET q == [r EXCEPT !.todo = Tail(r.todo), !.created = FALSE, !.prior = "none"] IN
    CASE q.todo # <<>> /\ r.phase = 2 -> [q EXCEPT !.pc = "Rule"]
      [] q.todo # <<>> /\ r.phase = 1 -> [q EXCEPT !.pc = "Box"]
      [] q.todo = <<>> /\ Maintains(p) /\ r.phase = 1 ->
           [q EXCEPT !.pc = "List", !.todo = Aliases, !.phase = 2]
      [] q.todo = <<>> /\ Maintains(p) /\ r.phase = 2 -> [q EXCEPT !.pc = "Redundant"]
      [] OTHER -> [pc |-> "done"]

List(p) ==
    /\ At(p, "List")
    /\ Put(p, [proc[p] EXCEPT !.rules = rule,
                              !.pc = CASE Calls(p, "remove") -> "OwnBox"
                                       [] Maintains(p) -> "Rule"
                                       [] OTHER -> "Box"])
    /\ NoFault /\ UNCHANGED aliasVars

(* When the mailbox is ready: its rule, if that is this request's concern. *)
WithBox(p, r) ==
    IF Maintains(p) \/ Healthy(p, r.rules, Head(r.todo)) THEN Following(p, r)
    ELSE [r EXCEPT !.pc = "Rule"]

Box(p) ==
    LET new == box[Part(p)] = "none"
        r == [proc[p] EXCEPT !.created = new, !.prior = IF new THEN "active" ELSE box[Part(p)]]
    IN /\ At(p, "Box")
       /\ box' = IF new THEN [box EXCEPT ![Part(p)] = "active"] ELSE box
       /\ Put(p, IF r.prior = "active" THEN WithBox(p, r) ELSE [r EXCEPT !.pc = "Activate"])
       /\ NoFault /\ UNCHANGED <<rule, unclear>>

(* updateMailboxStatus throws if the mailbox is gone.                      *)
Activate(p) ==
    /\ At(p, "Activate")
    /\ \/ /\ box[Part(p)] # "none"
          /\ box' = [box EXCEPT ![Part(p)] = "active"]
          /\ Put(p, WithBox(p, proc[p]))
       \/ box[Part(p)] = "none" /\ Answer(p, "error") /\ box' = box
    /\ NoFault /\ UNCHANGED <<rule, unclear>>

(* upsertWorkerRule: a rule that was listed is replaced, and is not found  *)
(* if it has gone; the maintenance leaves rules of the worker alone.       *)
Gone(p) == proc[p].rules[Part(p)] # "none" /\ rule[Part(p)] = "none"
Fine(p) == Maintains(p) /\ proc[p].rules[Part(p)] = "worker"

(* Variant: the mailbox stays as it is when the rule fails.                *)
NotFoundKept(p) == Answer(p, "error")
NotFound(p) == IF Maintains(p) THEN Answer(p, "error") ELSE Go(p, "Undo")

Rule(p) ==
    /\ At(p, "Rule")
    /\ \/ Fine(p) /\ Put(p, Following(p, proc[p])) /\ UNCHANGED rule
       \/ ~Fine(p) /\ Gone(p) /\ NotFound(p) /\ UNCHANGED rule
       \/ /\ ~Fine(p) /\ ~Gone(p)
          /\ rule' = [rule EXCEPT ![Part(p)] = "worker"]
          /\ Put(p, Following(p, proc[p]))
    /\ NoFault /\ UNCHANGED <<box, unclear>>

Undo(p) ==
    /\ At(p, "Undo")
    /\ box' = [box EXCEPT ![Part(p)] = IF proc[p].created THEN "none"
                                       ELSE IF @ = "none" \/ proc[p].prior = "active" THEN @
                                       ELSE proc[p].prior]
    /\ Answer(p, "error")
    /\ NoFault /\ UNCHANGED <<rule, unclear>>

OwnBox(p) ==
    /\ At(p, "OwnBox")
    /\ Put(p, [proc[p] EXCEPT !.prior = box[Part(p)],
                              !.pc = IF box[Part(p)] = "active" THEN "Deactivate"
                                     ELSE IF proc[p].rules[Part(p)] = "none" THEN "done"
                                     ELSE "DeleteRule"])
    /\ NoFault /\ UNCHANGED aliasVars

Deactivate(p) ==
    /\ At(p, "Deactivate")
    /\ \/ /\ box[Part(p)] # "none"
          /\ box' = [box EXCEPT ![Part(p)] = "inactive"]
          /\ Go(p, IF proc[p].rules[Part(p)] = "none" THEN "done" ELSE "DeleteRule")
       \/ box[Part(p)] = "none" /\ Answer(p, "error") /\ box' = box
    /\ NoFault /\ UNCHANGED <<rule, unclear>>

DeleteRule(p) ==
    /\ At(p, "DeleteRule")
    /\ IF Gone(p) THEN Go(p, "Restore") /\ UNCHANGED rule
       ELSE rule' = [rule EXCEPT ![Part(p)] = "none"] /\ Answer(p, "done")
    /\ NoFault /\ UNCHANGED <<box, unclear>>

Restore(p) ==
    /\ At(p, "Restore")
    /\ box' = IF proc[p].prior = "active" /\ box[Part(p)] # "none"
              THEN [box EXCEPT ![Part(p)] = "active"] ELSE box
    /\ Answer(p, "error")
    /\ NoFault /\ UNCHANGED <<rule, unclear>>

(* cleanupRedundantMailboxWorkerRules, a rule at a time.                   *)
Redundant(p) ==
    LET extra == {l \in Others \ Preserved : rule[l] = "worker"} IN
    /\ At(p, "Redundant")
    /\ \/ \E l \in extra : rule' = [rule EXCEPT ![l] = "none"] /\ UNCHANGED proc
       \/ extra = {} /\ Answer(p, "done") /\ rule' = rule
    /\ NoFault /\ UNCHANGED <<box, unclear>>

(* A call fails.  A call to Cloudflare has then done nothing, or has done  *)
(* what it should; what happens after it is undone as far as is known.     *)
FailAlias(p) ==
    LET s == proc[p].pc IN
    /\ s \in AliasSteps /\ Fault(s)
    /\ CASE s = "Rule" -> NotFound(p)
         [] s = "DeleteRule" -> Go(p, "Restore")
         [] OTHER -> Answer(p, "error")
    /\ \/ rule' = rule /\ unclear' = (unclear \/ Maintains(p) \/ s \in {"Undo", "Restore"})
       \/ s = "Rule" /\ rule' = [rule EXCEPT ![Part(p)] = "worker"] /\ unclear' = TRUE
       \/ s = "DeleteRule" /\ rule' = [rule EXCEPT ![Part(p)] = "none"] /\ unclear' = TRUE
    /\ UNCHANGED box

AliasStep(p) ==
    \/ Begins(p) \/ List(p) \/ Box(p) \/ Activate(p) \/ Rule(p) \/ Undo(p)
    \/ OwnBox(p) \/ Deactivate(p) \/ DeleteRule(p) \/ Restore(p) \/ Redundant(p)
=============================================================================
