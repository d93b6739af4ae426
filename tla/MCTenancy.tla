------------------------------ MODULE MCTenancy ------------------------------
(* An instance of Tenancy for TLC: payments that are submitted twice,      *)
(* confirmed and suspended, messages to be permitted meanwhile, signups,   *)
(* reissues and rotations, and aliases.                                    *)
EXTENDS Tenancy, TLC

CONSTANTS x1, x2, x3, u1, p1, p2, p3, l1, l2, c1

Paid(x, kind, credits, good, flaws) ==
    [print |-> x, kind |-> kind, credits |-> credits, good |-> good, flaws |-> flaws]
Payments == x1 :> Paid(x1, "topup", 3, TRUE, {}) @@ x2 :> Paid(x2, "topup", 5, TRUE, {})
              @@ x3 :> Paid(x3, "topup", 4, FALSE, {}) @@ u1 :> Paid(u1, "upgrade", 2, TRUE, {})

Submitted(x) == [call |-> About[x].kind, proof |-> x, credits |-> About[x].credits]
Cheap(x) == [Submitted(x) EXCEPT !.credits = 9]
Confirms(x) == [call |-> "confirm", print |-> x]
Decides(d) == [call |-> d]
Allowed == [call |-> "put", policy |-> [status |-> "external_enabled", external |-> TRUE,
                                        review |-> FALSE, allow |-> l2]]
Signs(a, inline, required, reachable) ==
    [call |-> "signup", address |-> a, inline |-> inline, required |-> required,
     reachable |-> reachable]
Reissues(ip) == [call |-> "reissue", ip |-> ip, reachable |-> TRUE]
Rotates(d, r) == [call |-> "rotate", delivery |-> d, reachable |-> r]
Saves(a) == [call |-> "save", alias |-> a]
Removes(a, auto) == [call |-> "remove", alias |-> a, auto |-> auto]
Mints(agent, scopes) == [call |-> "mint", agent |-> agent, scopes |-> scopes]
BootMints(agent, scopes) == [call |-> "bootmint", agent |-> agent, scopes |-> scopes]
Closes == [call |-> "close"]
Rebinds(r) == [call |-> "rebind", role |-> r]
Redeploys(on) == [call |-> "redeploy", on |-> on]
Bound(mix, b, d) == [mix EXCEPT !.access = [binding |-> b, deployed |-> d]]

Boots(over) == [call |-> "bootstrap", overwrite |-> over]
Maintain == [call |-> "maintain"]
Sends(to, others) == [call |-> "send", to |-> to, others |-> others]
Restricts(l) == [call |-> "restrict", list |-> l]

(* Whose domains are in a list: the service's own, a partner's, both.      *)
Own == {"hello", "security"}
Domains == l1 :> Own @@ l2 :> Own \union {"bob"} @@ c1 :> {"bob"}

Plain == [box |-> "hello" :> "none" @@ "security" :> "inactive",
          rule |-> "hello" :> "none" @@ "security" :> "other" @@ "sales" :> "worker"
                     @@ "support" :> "worker"]
Live == [box |-> "hello" :> "active" @@ "security" :> "active",
         rule |-> [l \in {"hello", "security", "sales", "support"} |-> "worker"]]

Mix(cs, n) == [calls |-> cs, spared |-> n, start |-> Plain, funds |-> [opening |-> 2, held |-> 1],
                  access |-> [binding |-> "send", deployed |-> TRUE]]
From(mix, start) == [mix EXCEPT !.start = start]
Poor(mix) == [mix EXCEPT !.funds = [opening |-> 0, held |-> 0]]

PayMixes == {Mix(p1 :> Submitted(x1) @@ p2 :> Confirms(x1), 0),
             Mix(p1 :> Submitted(x1) @@ p2 :> Submitted(x1), 1),
             Mix(p1 :> Submitted(x1) @@ p2 :> Submitted(x2) @@ p3 :> Submitted(x3), 2),
             Mix(p1 :> Cheap(x1) @@ p2 :> Submitted(x3), 1),
             Mix(p1 :> Submitted(u1) @@ p2 :> Confirms(u1) @@ p3 :> Decides("suspend"), 2),
             Mix(p1 :> Submitted(u1) @@ p2 :> Decides("suspend") @@ p3 :> Decides("approve"), 2),
             Mix(p1 :> Decides("reset") @@ p2 :> Allowed @@ p3 :> Decides("suspend"), 1)}
SignMixes == {Mix(p1 :> Signs("a", i, r, TRUE) @@ p2 :> Signs("a", ~i, r, TRUE), 1) :
                 i \in BOOLEAN, r \in {TRUE}}
               \union {Mix(p1 :> Signs("a", FALSE, FALSE, b), 0) : b \in BOOLEAN}
               \union {Mix(p1 :> Signs("hello", TRUE, FALSE, TRUE), 1)}
TokenMixes == {Mix(p1 :> Reissues("i") @@ p2 :> Reissues("i") @@ p3 :> Rotates("both", TRUE), 1),
               Mix(p1 :> Rotates("inline", TRUE), 1)}
               \union {Mix(p1 :> Reissues("i") @@ p2 :> Rotates("self", b) @@ p3 :> Closes, 0) :
                        b \in BOOLEAN}
               \union {Bound(Mix(p1 :> Mints(TRUE, "send") @@ p2 :> c @@ p3 :> Rotates("both", TRUE), 1), b, d) :
                        c \in {Rebinds("none"), Rebinds("other"), Redeploys(FALSE)},
                        b \in {"send", "other", "none"}, d \in BOOLEAN}
               \union {Bound(Mix(p1 :> BootMints(TRUE, m) @@ p2 :> Rebinds("send"), 1), b, TRUE) :
                        m \in {"read", "send"}, b \in {"other", "none"}}
               \union {Bound(Mix(p1 :> c @@ p2 :> Closes @@ p3 :> Rebinds("send"), 1), "other", TRUE) :
                        c \in {Rotates("inline", TRUE), Rotates("self", TRUE), Reissues("i")}}
               \union {Mix(p1 :> BootMints(FALSE, "read") @@ p2 :> Mints(FALSE, "send") @@ p3 :> Closes, 1)}
AliasMixes == {From(Mix(p1 :> Removes("hello", FALSE) @@ p2 :> Removes("hello", FALSE), 1), Live)}
               \union {From(m, s) : s \in {Plain, Live},
                 m \in {Mix(p1 :> Saves("hello") @@ p2 :> Removes("security", FALSE), 0),
                        Mix(p1 :> Boots(TRUE) @@ p2 :> Saves("security"), 0),
                        Mix(p1 :> Boots(FALSE) @@ p2 :> Removes("hello", FALSE), 0),
                        Mix(p1 :> Saves("hello") @@ p2 :> Removes("hello", FALSE)
                              @@ p3 :> Saves("hello"), 1),
                        Mix(p1 :> Maintain @@ p2 :> Removes("hello", TRUE), 0)}}
SendMixes == {Mix(p1 :> Sends({"bob"}, {"hello"}) @@ p2 :> Decides("suspend") @@ p3 :> Restricts(c1), 2),
              Mix(p1 :> Sends({"bob"}, {}) @@ p2 :> Allowed @@ p3 :> Decides("suspend"), 2),
              From(Mix(p1 :> Sends({"hello"}, {"security"}) @@ p2 :> Removes("security", FALSE)
                         @@ p3 :> Sends({"hello"}, {"bob"}), 1), Live),
              Poor(Mix(p1 :> Sends({"bob"}, {"eve"}) @@ p2 :> Submitted(x1) @@ p3 :> Restricts(l1), 2)),
              Poor(Mix(p1 :> Sends({"eve"}, {}) @@ p2 :> Decides("approve") @@ p3 :> Restricts(c1), 2)),
              Mix(p1 :> Sends({}, {}) @@ p2 :> Sends({"eve"}, {}) @@ p3 :> Restricts("open"), 1)}
Mixes == SendMixes \union PayMixes \union SignMixes \union TokenMixes \union AliasMixes

AliasOrder == <<"hello", "security">>
AllSteps == PaySteps \union PolicySteps \union SendSteps \union SignupSteps \union TokenSteps \union AliasSteps
              \union {"Facilitator", "Crash"}
=============================================================================
