---------------------------- MODULE AgentVersions ----------------------------
(***************************************************************************)
(* Agents and versions, with the configurations and manifests in R2.       *)
(*                                                                         *)
(*   agent     POST /v1/agents and create_agent                            *)
(*   update    PATCH /v1/agents/:id, of the configuration or the default   *)
(*   version   POST /v1/agents/:id/versions, with both objects and with a  *)
(*             capability and a tool                                       *)
(***************************************************************************)
EXTENDS RegistryStore

NoAgent == [status |-> "none", config |-> None, default |-> None]
WholeVersion == 2

-----------------------------------------------------------------------------
(* A new agent.                                                            *)

ArriveAgent(r, c) ==
    /\ c.kind = "agent"
    /\ Begin(r, [IdleProc EXCEPT !.pc = "PutAgent", !.kind = "agent"])

PutAgent(r) ==
    /\ At(r, "PutAgent")
    /\ blobs' = blobs \union {<<"config", r>>}
    /\ Go(r, "InsertAgent")
    /\ UNCHANGED <<agent, version, parts, targetVars, historyVars>>

InsertAgent(r) ==
    /\ At(r, "InsertAgent")
    /\ agent' = [agent EXCEPT ![r] = [status |-> "active", config |-> <<"config", r>>,
                                      default |-> None]]
    /\ Go(r, "ReadAgent")
    /\ UNCHANGED <<version, parts, blobs, targetVars, historyVars>>

ReadAgent(r) ==
    /\ At(r, "ReadAgent")
    /\ Go(r, "done")
    /\ UNCHANGED <<agentVars, targetVars, historyVars>>

-----------------------------------------------------------------------------
(* A change writes the whole row from the one it read when it began.       *)

ArriveUpdate(r, c) ==
    /\ c.kind = "update"
    /\ \E a \in c.on, v \in AllVersions \union {None} :
         /\ agent[a].status # "none"
         /\ IF c.as = "default" THEN v # None /\ version[v] = a ELSE v = agent[a].default
         /\ Begin(r, [IdleProc EXCEPT
              !.pc = IF c.as = "config" THEN "PutUpdate" ELSE "UpdateAgent",
              !.kind = "update", !.agent = a, !.version = v, !.config = c.as = "config",
              !.seen = agent[a].config])

(* Variant: the superseded object is deleted before the row names another. *)
PutAndDrop(r) ==
    /\ At(r, "PutUpdate")
    /\ blobs' = (blobs \ {proc[r].seen}) \union {<<"config", r>>}
    /\ Go(r, "UpdateAgent")
    /\ UNCHANGED <<agent, version, parts, targetVars, historyVars>>

PutUpdate(r) ==
    /\ At(r, "PutUpdate")
    /\ blobs' = blobs \union {<<"config", r>>}
    /\ Go(r, "UpdateAgent")
    /\ UNCHANGED <<agent, version, parts, targetVars, historyVars>>

Updated(r) ==
    [agent EXCEPT ![proc[r].agent].default = proc[r].version,
                  ![proc[r].agent].config = IF proc[r].config THEN <<"config", r>>
                                            ELSE proc[r].seen]

UpdateAgent(r) ==
    /\ At(r, "UpdateAgent")
    /\ agent' = Updated(r)
    /\ Go(r, "ReadUpdated")
    /\ UNCHANGED <<version, parts, blobs, targetVars, historyVars>>

ReadUpdated(r) ==
    /\ At(r, "ReadUpdated")
    /\ Go(r, IF proc[r].config THEN "DropOld" ELSE "done")
    /\ UNCHANGED <<agentVars, targetVars, historyVars>>

(* The object the row named before.  Its deletion may fail unnoticed.      *)
DropOld(r) ==
    /\ At(r, "DropOld")
    /\ blobs' = blobs \ {proc[r].seen}
    /\ Go(r, "done")
    /\ UNCHANGED <<agent, version, parts, targetVars, historyVars>>

(* The catch blocks of a creation and of a change.                         *)
DropBlob(r, s) ==
    /\ At(r, s)
    /\ blobs' = blobs \ {<<"config", r>>}
    /\ Go(r, "refused")
    /\ UNCHANGED <<agent, version, parts, targetVars, historyVars>>

DropAgentBlob(r) == DropBlob(r, "DropAgentBlob")
DropNew(r) == DropBlob(r, "DropNew")

-----------------------------------------------------------------------------
(* A new version: two objects, a row, and the rows of its parts.           *)

ArriveVersion(r, c) ==
    /\ c.kind = "version"
    /\ \E a \in c.on : Begin(r, [IdleProc EXCEPT !.pc = "PutConfig", !.kind = "version",
                                                 !.agent = a])

PutConfig(r) ==
    /\ At(r, "PutConfig")
    /\ blobs' = blobs \union {<<"config", r>>}
    /\ Go(r, "PutManifest")
    /\ UNCHANGED <<agent, version, parts, targetVars, historyVars>>

PutManifest(r) ==
    /\ At(r, "PutManifest")
    /\ blobs' = blobs \union {<<"manifest", r>>}
    /\ Go(r, "InsertVersion")
    /\ UNCHANGED <<agent, version, parts, targetVars, historyVars>>

InsertVersion(r) ==
    /\ At(r, "InsertVersion")
    /\ version' = [version EXCEPT ![r] = proc[r].agent]
    /\ Go(r, "InsertParts")
    /\ UNCHANGED <<agent, parts, blobs, targetVars, historyVars>>

(* Variant: the loop runs once too often.                                  *)
InsertPartsAgain(r) ==
    /\ At(r, "InsertParts")
    /\ parts' = [parts EXCEPT ![r] = @ + 1]
    /\ Go(r, IF parts[r] = WholeVersion THEN "ReadVersion" ELSE "InsertParts")
    /\ UNCHANGED <<agent, version, blobs, targetVars, historyVars>>

(* One statement for each capability and each tool.                        *)
InsertParts(r) ==
    /\ At(r, "InsertParts")
    /\ parts' = [parts EXCEPT ![r] = @ + 1]
    /\ Go(r, IF parts[r] + 1 = WholeVersion THEN "ReadVersion" ELSE "InsertParts")
    /\ UNCHANGED <<agent, version, blobs, targetVars, historyVars>>

ReadVersion(r) ==
    /\ At(r, "ReadVersion")
    /\ Go(r, "done")
    /\ UNCHANGED <<agentVars, targetVars, historyVars>>

UndoParts(r) ==
    /\ At(r, "UndoParts")
    /\ parts' = [parts EXCEPT ![r] = 0]
    /\ Go(r, "UndoVersion")
    /\ UNCHANGED <<agent, version, blobs, targetVars, historyVars>>

UndoVersion(r) ==
    /\ At(r, "UndoVersion")
    /\ version' = [version EXCEPT ![r] = None]
    /\ Go(r, "UndoConfig")
    /\ UNCHANGED <<agent, parts, blobs, targetVars, historyVars>>

UndoConfig(r) ==
    /\ At(r, "UndoConfig")
    /\ blobs' = blobs \ {<<"config", r>>}
    /\ Go(r, "UndoManifest")
    /\ UNCHANGED <<agent, version, parts, targetVars, historyVars>>

UndoManifest(r) ==
    /\ At(r, "UndoManifest")
    /\ blobs' = blobs \ {<<"manifest", r>>}
    /\ Go(r, "refused")
    /\ UNCHANGED <<agent, version, parts, targetVars, historyVars>>

-----------------------------------------------------------------------------
(* Failures.  The insertion of a taken slug, version or tool fails the same*)
(* way as one the database does not execute.                               *)

NextAfterThrow ==
    [InsertAgent |-> "DropAgentBlob", UpdateAgent |-> "DropNew",
     InsertVersion |-> "UndoParts", InsertParts |-> "UndoParts"]

FailAgentWrite(r) ==
    /\ proc[r].pc \in DOMAIN NextAfterThrow
    /\ \/ MayFail("throw") /\ Record("throw") /\ UNCHANGED agent
       \/ /\ At(r, "UpdateAgent")
          /\ MayFail("unclear") /\ Record("unclear")
          /\ agent' = Updated(r)
    /\ Go(r, IF At(r, "UpdateAgent") /\ ~proc[r].config THEN "refused"
             ELSE NextAfterThrow[proc[r].pc])
    /\ UNCHANGED <<version, parts, blobs, targetVars>>

FailAgentRead(r) ==
    /\ proc[r].pc \in {"PutAgent", "ReadAgent", "PutUpdate", "ReadUpdated", "PutConfig",
                       "PutManifest", "ReadVersion"}
    /\ MayFail("throw") /\ Record("throw")
    /\ Go(r, "refused")
    /\ UNCHANGED <<agentVars, targetVars>>

NextAfterUndo ==
    [DropAgentBlob |-> "refused", DropNew |-> "refused", DropOld |-> "done",
     UndoParts |-> "UndoVersion", UndoVersion |-> "UndoConfig",
     UndoConfig |-> "UndoManifest", UndoManifest |-> "refused"]

FailAgentUndo(r) ==
    /\ proc[r].pc \in DOMAIN NextAfterUndo
    /\ MayFail("undo") /\ Record("undo")
    /\ Go(r, NextAfterUndo[proc[r].pc])
    /\ UNCHANGED <<agentVars, targetVars>>

ArriveForAgent(r, c) ==
    /\ ArriveAgent(r, c) \/ ArriveUpdate(r, c) \/ ArriveVersion(r, c)
    /\ UNCHANGED <<agentVars, targetVars>>

AgentStep(r) ==
    \/ PutAgent(r) \/ InsertAgent(r) \/ ReadAgent(r)
    \/ PutUpdate(r) \/ UpdateAgent(r) \/ ReadUpdated(r) \/ DropOld(r)
    \/ DropAgentBlob(r) \/ DropNew(r)
    \/ PutConfig(r) \/ PutManifest(r) \/ InsertVersion(r) \/ InsertParts(r) \/ ReadVersion(r)
    \/ UndoParts(r) \/ UndoVersion(r) \/ UndoConfig(r) \/ UndoManifest(r)

AgentFailure(r) == FailAgentWrite(r) \/ FailAgentRead(r) \/ FailAgentUndo(r)
=============================================================================
