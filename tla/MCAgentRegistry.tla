--------------------------- MODULE MCAgentRegistry ---------------------------
(* An instance of AgentRegistry for TLC: two agents with a version each, a *)
(* mailbox the first serves and one nobody does, and six mixes of calls.  *)
EXTENDS AgentRegistry, TLC

CONSTANTS a1, a2, v1, v2, d1, d2, m1, m2

Call(kind, on, at, as) == [kind |-> kind, on |-> on, at |-> at, as |-> as]

Owners == v1 :> a1 @@ v2 :> a2
Row1(a, v, s) == [agent |-> a, version |-> v, target |-> m1, status |-> s]
Deployments1 == d1 :> Row1(a1, v1, "active") @@ d2 :> Row1(a2, v2, "rolled_back")
Bindings == [b \in Agents \X Mailboxes |-> IF b = <<a1, m1>> THEN "primary" ELSE "none"]

Competing == {Call("rollout", {v1}, {m1}, "active"), Call("bind", {a2}, {m1}, "send_only"),
              Call("resolve", {None, a2}, {m1}, "receive")}
Returning == {Call("rollback", {d1, d2}, {}, "active"), Call("status", {d2}, {}, "active"),
              Call("status", {d1}, {}, "paused"), Call("resolve", {None, a1}, {m1}, "receive")}
Creating == {Call("version", {a1}, {}, ""), Call("rollout", Requests, {m1}, "active"),
             Call("deploy", Requests \union {v2}, {m1}, "active")}
Dropping == {Call("drop", {}, {m2}, ""), Call("deploy", {v1}, {m2}, "active"),
             Call("bind", {a1}, {m2}, "primary"), Call("bind", {a2}, {m2}, "send_only"),
             Call("rollout", {v2}, {m2}, "active"),
             Call("resolve", {None}, {m2}, "receive"), Call("access", {a2}, {m2}, "send"),
             Call("access", {a2}, {m2}, "any")}
Changing == {Call("agent", {}, {}, ""), Call("update", {a1}, {}, "config"),
             Call("update", {a1}, {}, "default"), Call("version", {a1}, {}, "")}

Undoing == {Call("version", {a1}, {}, ""), Call("deploy", Requests, {m2}, "active"),
            Call("rollout", Requests, {m2}, "active"), Call("drop", {}, {m2}, "")}

Calls == {Competing, Returning, Creating, Dropping, Changing, Undoing}
RequestSymmetry == Permutations(Requests)
=============================================================================
