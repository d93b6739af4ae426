------------------------------ MODULE MCInbound ------------------------------
(* An instance of Inbound for TLC: an email that two deliveries bring, two *)
(* replies to one outbound message, a local job with two recipients, and   *)
(* replays of a message that has arrived.                                  *)
EXTENDS Inbound, TLC

CONSTANTS e1, e2, e3, e4, e5, d1, d2, d3, d4, d5, l1, r1, r2, r3, o1, b1, b2, t1, t2

Mail(b, ref, key, answers, n) ==
    [box |-> b, id |-> key, ref |-> ref, key |-> key, answers |-> answers, atts |-> n]

Mails == e1 :> Mail(b1, None, "i1", {}, 1) @@ e2 :> Mail(b1, o1, "i2", {o1}, 0)
           @@ e3 :> Mail(b1, None, "i3", {o1}, 0) @@ e4 :> Mail(b2, None, "i3", {}, 0)
           @@ e5 :> Mail(b1, None, "i5", {}, 0)
SentFrom == o1 :> b1
Brings == d1 :> <<e1>> @@ d2 :> <<e1>> @@ d3 :> <<e2>> @@ d4 :> <<e3>> @@ d5 :> <<e5>>
            @@ l1 :> <<e3, e4>>

Delivered(ds) == {[who |-> d, call |-> "deliver", mode |-> "none"] : d \in ds}
Replayed(rs, mode) == {[who |-> r, call |-> "replay", mode |-> mode] : r \in rs}
Others == {[who |-> b1, call |-> "close", mode |-> "none"], [who |-> b1, call |-> "retarget", mode |-> "none"]}
Mix(calls, queues) == [calls |-> calls, down |-> queues, spared |-> 1]
Calm(mix) == [mix EXCEPT !.spared = 2]
Twice(mix) == [mix EXCEPT !.spared = 0]

Mixes == {Mix(Delivered({d1, d2}), {}), Calm(Mix(Delivered({d1, d2}), {"ingest"})),
          Mix(Delivered({d3, d4}), {}),
          Calm(Mix(Delivered({l1}), {})), Mix(Delivered({l1}), {"ingest"}),
          Twice(Mix(Delivered({d5}), {"ingest"})), Mix(Delivered({d5}) \union Others, {}),
          Mix(Delivered({d5}) \union Replayed({r3}, "normalize"), {}),
          Mix(Delivered({d5}) \union Replayed({r1, r2}, "rerun"), {}),
          Mix(Delivered({d5}) \union Replayed({r1, r2}, "rerun"), {"execute"})}

(* The email of the duplicates has capitals in its Message-ID.            *)
DuplicateMix == {Mix(Delivered({d1, d2}), {})}
Capitals == {"i1"}

AllSteps == Steps \union {"Crash"}
Symmetry == Permutations(IngestSlots) \union Permutations(ExecSlots)
              \union Permutations({r1, r2}) \union Permutations({d1, d2})
=============================================================================
