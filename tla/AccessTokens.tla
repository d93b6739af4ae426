---------------------------- MODULE AccessTokens ----------------------------
(***************************************************************************)
(* Access tokens for one mailbox: POST /public/token/reissue mails a new   *)
(* one to the operator, at most once per cooldown; POST                    *)
(* /v1/auth/token/rotate answers with one, mails it to the mailbox itself, *)
(* or both; operators mint them (POST /v1/auth/tokens, create_access_token *)
(* and, "bootmint", bootstrap_mailbox_agent_token).  Each request is named *)
(* by its caller, and so is its draft.                                     *)
(***************************************************************************)
EXTENDS TenantCalls

CONSTANT IpMax   \* reissues for one IP address in a window

VARIABLES
    open,        \* the mailbox is active
    binding,     \* role in which the agent is bound to it: send, other or none
    deployed,    \* the agent has an active deployment for it
    reissues,    \* token_reissue_requests within the windows
    drafts,      \* drafts of token mails
    queued,      \* drafts with an outbound job
    handed,      \* requests whose answer carries a token
    unlogged,    \* history: reissues that were queued and are not logged
    stray        \* history: drafts whose deletion or creation failed

accessVars == <<open, binding, deployed>>
mailVars == <<reissues, drafts, queued, unlogged, stray>>
tokenVars == <<accessVars, mailVars, handed>>

InitTokens(access) ==
    /\ open = TRUE /\ binding = access.binding /\ deployed = access.deployed
    /\ reissues = {} /\ drafts = {} /\ queued = {} /\ handed = {} /\ unlogged = {} /\ stray = {}

TokenSteps == {"Recent", "ByIp", "Target", "Operator", "Binding", "AnyBinding", "Deployment",
               "Claims", "Deliver", "Sender", "MailDraft", "MailQueue", "MailUndo", "Log"}

Rotating(p) == Calls(p, "rotate")
Minting(p) == calls[p].call \in {"mint", "bootmint"}

(* `need` tells whether the agent must be able to send, `then` what the    *)
(* check of its access is for.                                             *)
Begun(p, s, need, then) ==
    /\ At(p, "free")
    /\ Put(p, [pc |-> s, need |-> need, then |-> then])
    /\ NoFault /\ UNCHANGED tokenVars

Reissue(p) == Calls(p, "reissue") /\ Begun(p, "Recent", TRUE, "grant")

(* A token to be mailed is asked for by who has access to the mailbox now. *)
Rotate(p) ==
    /\ Rotating(p)
    /\ IF calls[p].delivery = "inline" THEN Begun(p, "Claims", TRUE, "grant")
       ELSE Begun(p, "Binding", FALSE, "claims")

(* Operators mint tokens: for some scopes there must be an agent, which    *)
(* has access to the mailbox, for the scope to send one that may send.     *)
(* That the mailbox is active is not asked.                                *)
Handed(p) ==
    /\ handed' = handed \union {p} /\ Answer(p, "done")
    /\ NoFault /\ UNCHANGED <<accessVars, mailVars>>

Mint(p) ==
    /\ Minting(p)
    /\ \/ ~calls[p].agent /\ calls[p].scopes = "read" /\ At(p, "free") /\ Handed(p)
       \/ /\ ~calls[p].agent /\ calls[p].scopes # "read" /\ At(p, "free")
          /\ Answer(p, "refused")
          /\ NoFault /\ UNCHANGED tokenVars
       \/ /\ calls[p].agent /\ Calls(p, "mint")
          /\ Begun(p, "Binding", calls[p].scopes = "send", "grant")
       \/ /\ calls[p].agent /\ Calls(p, "bootmint")
          /\ Begun(p, "Binding", FALSE, "again")

-----------------------------------------------------------------------------
(* The agent's active binding: in a role that sends, in another, or none.  *)
BindingRoles == {"send", "other", "none"}

(* validateTokenAgentMailboxScopes, assertAgentActiveForMailbox and        *)
(* requireCurrentMailboxAccessForClaims: an active binding, in a role that *)
(* sends if need be, or, where there is none, an active deployment.        *)

Roles(need) == IF need THEN {"send"} ELSE {"send", "other"}
Able(need) == binding \in Roles(need) \/ (deployed /\ binding = "none")

Passed(p) ==
    CASE proc[p].then = "claims" -> Put(p, [pc |-> "Claims", need |-> TRUE, then |-> "grant"])
      [] proc[p].then = "again" ->
           Put(p, [pc |-> "Binding", need |-> calls[p].scopes = "send", then |-> "grant"])
      [] OTHER -> IF Rotating(p) /\ calls[p].delivery # "inline" THEN Go(p, "Deliver")
                  ELSE Answer(p, "done")

Pass(p) ==
    /\ Passed(p)
    /\ handed' = IF proc[p].then = "grant" /\ (Minting(p) \/ calls[p].delivery = "inline")
                 THEN handed \union {p} ELSE handed

Binding(p) ==
    /\ At(p, "Binding")
    /\ IF binding \in Roles(proc[p].need) THEN Pass(p)
       ELSE Go(p, IF proc[p].need THEN "AnyBinding" ELSE "Deployment") /\ UNCHANGED handed
    /\ NoFault /\ UNCHANGED <<accessVars, mailVars>>

(* An agent bound in another role may not send, deployed or not.           *)
AnyBinding(p) ==
    /\ At(p, "AnyBinding")
    /\ IF binding # "none" THEN Answer(p, "refused") ELSE Go(p, "Deployment")
    /\ NoFault /\ UNCHANGED tokenVars

Deployment(p) ==
    /\ At(p, "Deployment")
    /\ IF deployed THEN Pass(p) ELSE Answer(p, "refused") /\ UNCHANGED handed
    /\ NoFault /\ UNCHANGED <<accessVars, mailVars>>

-----------------------------------------------------------------------------
(* hasRecentMailboxTokenReissue and countRecentIpTokenReissues: an answer  *)
(* that says nothing.                                                      *)
Recent(p) ==
    /\ At(p, "Recent")
    /\ IF reissues # {} THEN Answer(p, "done") ELSE Go(p, "ByIp")
    /\ NoFault /\ UNCHANGED tokenVars

ByIp(p) ==
    /\ At(p, "ByIp")
    /\ IF Cardinality({q \in reissues : calls[q].ip = calls[p].ip}) >= IpMax
       THEN Answer(p, "done") ELSE Go(p, "Target")
    /\ NoFault /\ UNCHANGED tokenVars

Target(p) ==
    /\ At(p, "Target")
    /\ IF open THEN Go(p, "Operator") ELSE Answer(p, "done")
    /\ NoFault /\ UNCHANGED tokenVars

(* An agent that may send, the operator's address it has and the           *)
(* permission to send to that.                                             *)
Operator(p) ==
    /\ At(p, "Operator")
    /\ IF Able(TRUE) /\ calls[p].reachable THEN Go(p, "MailDraft") ELSE Answer(p, "done")
    /\ NoFault /\ UNCHANGED tokenVars

(* validateRotatedAccessClaims: the mailbox, then what the scopes need.    *)
Claims(p) ==
    /\ At(p, "Claims")
    /\ IF open THEN Go(p, "Binding") ELSE Answer(p, "refused")
    /\ NoFault /\ UNCHANGED tokenVars

(* Nothing was queued: the rotated token is in the answer.                 *)
Unmailed(p) ==
    /\ handed' = IF Rotating(p) THEN handed \union {p} ELSE handed
    /\ Answer(p, "done")

Deliver(p) ==
    /\ At(p, "Deliver")
    /\ IF open THEN Go(p, "Sender") /\ UNCHANGED handed ELSE Unmailed(p)
    /\ NoFault /\ UNCHANGED <<accessVars, mailVars>>

Sender(p) ==
    /\ At(p, "Sender")
    /\ IF Able(TRUE) /\ calls[p].reachable THEN Go(p, "MailDraft") /\ UNCHANGED handed
       ELSE Unmailed(p)
    /\ NoFault /\ UNCHANGED <<accessVars, mailVars>>

MailDraft(p) ==
    /\ At(p, "MailDraft")
    /\ drafts' = drafts \union {p}
    /\ Go(p, "MailQueue")
    /\ NoFault /\ UNCHANGED <<accessVars, reissues, queued, handed, unlogged, stray>>

Queue(p) ==
    /\ queued' = queued \union {p}
    /\ unlogged' = IF Rotating(p) THEN unlogged ELSE unlogged \union {p}

MailQueue(p) ==
    /\ At(p, "MailQueue")
    /\ Queue(p)
    /\ IF Rotating(p) THEN Answer(p, "done") ELSE Go(p, "Log")
    /\ handed' = IF Rotating(p) /\ calls[p].delivery = "both" THEN handed \union {p} ELSE handed
    /\ NoFault /\ UNCHANGED <<accessVars, reissues, drafts, stray>>

(* deleteDraftIfUnqueued, whose failure is swallowed.                      *)
MailUndo(p) ==
    /\ At(p, "MailUndo")
    /\ drafts' = IF p \in queued THEN drafts ELSE drafts \ {p}
    /\ Unmailed(p)
    /\ NoFault /\ UNCHANGED <<accessVars, reissues, queued, unlogged, stray>>

Log(p) ==
    /\ At(p, "Log")
    /\ reissues' = reissues \union {p}
    /\ unlogged' = unlogged \ {p}
    /\ Answer(p, "done")
    /\ NoFault /\ UNCHANGED <<accessVars, drafts, queued, handed, stray>>

(* What changes meanwhile: the mailbox is closed, the agent is bound in    *)
(* another role or no more, or its deployment is switched.                 *)
Changing == {"close", "rebind", "redeploy"}

Change(p) ==
    /\ At(p, "free") /\ calls[p].call \in Changing
    /\ open' = (open /\ ~Calls(p, "close"))
    /\ binding' = IF Calls(p, "rebind") THEN calls[p].role ELSE binding
    /\ deployed' = IF Calls(p, "redeploy") THEN calls[p].on ELSE deployed
    /\ Answer(p, "done")
    /\ NoFault /\ UNCHANGED <<mailVars, handed>>

(* A call fails; the draft or the job may have been written all the same.  *)
FailToken(p) ==
    /\ proc[p].pc \in TokenSteps /\ Fault(proc[p].pc)
    /\ \/ /\ proc[p].pc \in {"Recent", "ByIp", "Binding", "AnyBinding", "Deployment", "Claims",
                             "Deliver", "Sender"}
          /\ Answer(p, "error")
          /\ UNCHANGED <<mailVars, handed>>
       \/ /\ proc[p].pc \in {"Target", "Operator", "Log"}
          /\ Answer(p, "done")
          /\ UNCHANGED <<mailVars, handed>>
       \/ /\ At(p, "Sender")
          /\ Unmailed(p)
          /\ UNCHANGED mailVars
       \/ /\ At(p, "MailDraft")
          /\ Unmailed(p)
          /\ \/ UNCHANGED <<drafts, stray>>
             \/ drafts' = drafts \union {p} /\ stray' = stray \union {p}
          /\ UNCHANGED <<reissues, queued, unlogged>>
       \/ /\ At(p, "MailQueue")
          /\ Go(p, "MailUndo")
          /\ UNCHANGED <<queued, unlogged>> \/ Queue(p)
          /\ UNCHANGED <<reissues, drafts, handed, stray>>
       \/ /\ At(p, "MailUndo")
          /\ Unmailed(p)
          /\ stray' = stray \union {p}
          /\ UNCHANGED <<reissues, drafts, queued, unlogged>>
    /\ UNCHANGED accessVars

TokenStep(p) ==
    \/ Reissue(p) \/ Rotate(p) \/ Mint(p) \/ Change(p)
    \/ Recent(p) \/ ByIp(p) \/ Target(p) \/ Operator(p)
    \/ Binding(p) \/ AnyBinding(p) \/ Deployment(p) \/ Claims(p)
    \/ Deliver(p) \/ Sender(p) \/ MailDraft(p) \/ MailQueue(p) \/ MailUndo(p) \/ Log(p)
=============================================================================
