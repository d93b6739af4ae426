-------------------------- MODULE TenancyPayments --------------------------
(***************************************************************************)
(* What a tenant gets for its payments: an entry in the ledger and the     *)
(* right to send to others are earned.  And what it does not get: no       *)
(* payment that was settled before a suspension lifts it, and no request   *)
(* to send that began under it permits a message to others.  For any       *)
(* callers, proofs and failures, whatever else happens to the tenant.      *)
(***************************************************************************)
EXTENDS Tenancy, TLAPS

-----------------------------------------------------------------------------
(* The inductive invariant.                                                *)

Receipts == [status : Statuses, settle : {"none", "refused", "settled"}]

(* The states of the requests are functions with a field `pc`; what else   *)
(* a record holds depends on the request.                                  *)
Shape ==
    /\ DOMAIN proc = Callers
    /\ \A p \in Callers : "pc" \in DOMAIN proc[p]
    /\ \A p \in Callers : Sendable(calls[p])
    /\ receipt \in [Prints -> Receipts]

(* What is in the database is backed: a stored settlement by a charge, a   *)
(* settled receipt by its entry, an entry by a charge.                     *)
ReceiptsBacked == \A x \in Prints : receipt[x].settle = "settled" => x \in charged
RowsBacked == ReceiptsBacked /\ ReceiptsBooked /\ EntriesEarned /\ RightsEarned

(* Steps only taken after the charge, after the entry, for an upgrade.     *)
Claiming == {"WriteSettled", "Finalize", "Grant"}
Unlocking == {"Account", "Profile", "ReadPolicy", "Enable", "Relax", "Open"}
Booked == Unlocking \union {"Sum", "Credit", "Mark"}

(* So is what a payment read or decided earlier.                           *)
IsPayment(r) ==
    /\ {"pc", "print", "copy"} \subseteq DOMAIN r
    /\ r.print \in Prints
    /\ r.copy \in Receipts
Backed(r) ==
    /\ r.copy.settle = "settled" \/ r.pc \in Claiming => r.print \in charged
    /\ r.copy.status = "settled" \/ r.pc \in Booked => r.print \in ledger
    /\ r.pc \in Unlocking => About[r.print].kind = "upgrade"
PaymentBacked(p) == proc[p].pc \in PaySteps => IsPayment(proc[p]) /\ Backed(proc[p])
PaymentsBacked == \A p \in Callers : PaymentBacked(p)

(* An operator's decision opens lists only when it has allowed sending.    *)
Ruled(p) ==
    /\ proc[p].pc \in PolicySteps => calls[p].call \in Decisions \union {"put"}
    /\ proc[p].pc \in {"RelaxAgents", "WriteOpen"} => approved
    /\ At(p, "SetStanding") /\ Calls(p, "approve") => approved
    /\ proc[p].pc \in {"SyncAgents", "WriteList"} =>
         Calls(p, "put") /\ (Freed(calls[p].policy) => approved)
DecisionsBacked == \A p \in Callers : Ruled(p)

PaymentInv == Shape /\ RowsBacked /\ PaymentsBacked /\ DecisionsBacked

-----------------------------------------------------------------------------
(* How a step moves a request.                                             *)

(* Only p moves, and its record still has a step.                          *)
Moves(p) ==
    /\ DOMAIN proc' = Callers
    /\ \A q \in Callers : q # p => proc'[q] = proc[q]
    /\ "pc" \in DOMAIN proc'[p]

Lands(p, S) == Moves(p) /\ proc'[p].pc \in S

(* It is not, or no longer, a payment or a decision.                       *)
Aside(p) == Moves(p) /\ proc'[p].pc \notin PaySteps \union PolicySteps

LEMMA PutMoves ==
    ASSUME Shape, NEW p \in Callers, NEW r, Put(p, r), "pc" \in DOMAIN r
    PROVE  Moves(p) /\ proc'[p] = r
BY DEF Shape, Put, Moves

LEMMA PutAside ==
    ASSUME Shape, NEW p \in Callers, NEW r, Put(p, r), "pc" \in DOMAIN r,
           r.pc \notin PaySteps \union PolicySteps
    PROVE  Aside(p)
BY PutMoves DEF Aside

LEMMA GoMoves ==
    ASSUME Shape, NEW p \in Callers, NEW s, Go(p, s)
    PROVE  Moves(p) /\ proc'[p].pc = s /\ proc'[p] = [proc[p] EXCEPT !.pc = s]
<1>. DEFINE r == [proc[p] EXCEPT !.pc = s]
<1>1. "pc" \in DOMAIN r /\ r.pc = s
    BY DEF Shape
<1>2. Put(p, r)
    BY DEF Go
<1>. QED
    BY <1>1, <1>2, PutMoves

LEMMA GoAside ==
    ASSUME Shape, NEW p \in Callers, NEW s, Go(p, s), s \notin PaySteps \union PolicySteps
    PROVE  Aside(p)
BY GoMoves DEF Aside

LEMMA AnswerAside ==
    ASSUME Shape, NEW p \in Callers, NEW a \in Answers, Answer(p, a)
    PROVE  Aside(p)
<1>1. Put(p, [pc |-> a])
    BY DEF Answer
<1>2. a \notin PaySteps \union PolicySteps
    BY DEF Answers, PaySteps, PolicySteps
<1>. QED
    BY <1>1, <1>2, PutAside

(* Where it goes.                                                          *)
LEMMA PutLands ==
    ASSUME Shape, NEW p \in Callers, NEW r, NEW S, Put(p, r), "pc" \in DOMAIN r, r.pc \in S
    PROVE  Lands(p, S)
BY PutMoves DEF Lands

LEMMA GoLands ==
    ASSUME Shape, NEW p \in Callers, NEW s, NEW S, Go(p, s), s \in S
    PROVE  Lands(p, S)
BY GoMoves DEF Lands

LEMMA AnswerLands ==
    ASSUME Shape, NEW p \in Callers, NEW a, NEW S, Answer(p, a), a \in S
    PROVE  Lands(p, S)
<1>1. Put(p, [pc |-> a])
    BY DEF Answer
<1>. QED
    BY <1>1, PutLands

-----------------------------------------------------------------------------
(* Requests of other kinds: none becomes a payment or a decision.          *)

SignupEnds == SignupSteps \union Answers
SendEnds == SendSteps \union Answers
TokenEnds == TokenSteps \union Answers

LEMMA SignupLands ==
    ASSUME Shape, NEW p \in Callers, SignupStep(p)
    PROVE  Lands(p, SignupEnds)
<1>. USE DEF Answers, SignupSteps, SignupEnds
<1>1. CASE Start(p)
    BY <1>1, PutLands DEF Start
<1>2. CASE Check(p) \/ Routing(p)
    BY <1>2, GoLands, AnswerLands DEF Check, Routing
<1>3. CASE Provision(p)
    <2>. DEFINE r == [proc[p] EXCEPT !.n = proc[p].n + 1,
                                     !.pc = IF proc[p].n = Len(Plan) THEN "Allow" ELSE "Provision"]
    <2>1. "pc" \in DOMAIN r /\ r.pc \in {"Allow", "Provision"}
        BY DEF Shape
    <2>2. Go(p, "Keys") \/ Put(p, r)
        BY <1>3 DEF Provision
    <2>. HIDE DEF r
    <2>. QED
        BY <2>1, <2>2, GoLands, PutLands
<1>4. CASE Allow(p) \/ DropDraft(p)
    BY <1>4, GoLands, AnswerLands DEF Allow, DropDraft, Unsent
<1>5. CASE WriteDraft(p) \/ Enqueue(p) \/ Blobs(p)
    BY <1>5, GoLands, AnswerLands DEF WriteDraft, Enqueue, Blobs
<1>6. CASE Keys(p)
    <2>. DEFINE r == [proc[p] EXCEPT !.keys = {k \in blobs[p] : Findable(p, k[1])}, !.n = 1,
                                     !.pc = "Blobs"]
    <2>1. "pc" \in DOMAIN r /\ r.pc = "Blobs"
        BY DEF Shape
    <2>2. Put(p, r)
        BY <1>6 DEF Keys
    <2>. HIDE DEF r
    <2>. QED
        BY <2>1, <2>2, PutLands
<1>7. CASE Clean(p)
    <2>. DEFINE r == [proc[p] EXCEPT !.n = proc[p].n + 1]
    <2>1. "pc" \in DOMAIN r /\ r.pc = "Clean"
        BY <1>7 DEF Shape, Clean, At
    <2>2. Answer(p, "error") \/ Put(p, r)
        BY <1>7 DEF Clean
    <2>. HIDE DEF r
    <2>. QED
        BY <2>1, <2>2, AnswerLands, PutLands
<1>. QED
    BY <1>1, <1>2, <1>3, <1>4, <1>5, <1>6, <1>7 DEF SignupStep

LEMMA SendLands ==
    ASSUME Shape, NEW p \in Callers, SendStep(p)
    PROVE  Lands(p, SendEnds)
<1>. USE DEF Answers, SendSteps, SendEnds
<1>1. CASE SendBegins(p)
    BY <1>1, PutLands DEF SendBegins
<1>2. CASE Route(p)
    <2>. DEFINE r == [proc[p] EXCEPT !.ext = External(p), !.pc = "ReadStanding"]
    <2>1. "pc" \in DOMAIN r /\ r.pc = "ReadStanding"
        BY DEF Shape
    <2>2. Answer(p, "refused") \/ Go(p, "RouteAgain") \/ Put(p, r)
        BY <1>2 DEF Route
    <2>. HIDE DEF r
    <2>. QED
        BY <2>1, <2>2, AnswerLands, GoLands, PutLands
<1>3. CASE ReadStanding(p)
    <2>. DEFINE r == [proc[p] EXCEPT !.tenant = policy, !.pc = "Judge"]
    <2>1. "pc" \in DOMAIN r /\ r.pc = "Judge"
        BY DEF Shape
    <2>2. Put(p, r)
        BY <1>3 DEF ReadStanding
    <2>. HIDE DEF r
    <2>. QED
        BY <2>1, <2>2, PutLands
<1>4. CASE Judge(p)
    <2>. DEFINE r == [proc[p] EXCEPT !.credits = available + funds.held > 0, !.pc = "ReadAgent"]
    <2>1. "pc" \in DOMAIN r /\ r.pc = "ReadAgent"
        BY DEF Shape
    <2>2. Answer(p, "refused") \/ Put(p, r)
        BY <1>4 DEF Judge
    <2>. HIDE DEF r
    <2>. QED
        BY <2>1, <2>2, AnswerLands, PutLands
<1>5. CASE ReadAgent(p) \/ RouteAgain(p)
    BY <1>5, GoLands, AnswerLands DEF ReadAgent, RouteAgain
<1>6. CASE Balance(p)
    BY <1>6, AnswerLands DEF Balance
<1>. QED
    BY <1>1, <1>2, <1>3, <1>4, <1>5, <1>6 DEF SendStep

LEMMA TokenLands ==
    ASSUME Shape, NEW p \in Callers, TokenStep(p)
    PROVE  Lands(p, TokenEnds)
<1>. DEFINE Suits(s) == s \in TokenEnds
<1>a. ASSUME NEW s, Go(p, s) \/ Answer(p, s), Suits(s)
      PROVE  Lands(p, TokenEnds)
    BY <1>a, GoLands, AnswerLands
<1>. HIDE DEF Suits
<1>b. \A s \in TokenSteps \union Answers : Suits(s)
    BY DEF Suits, TokenEnds
<1>. USE <1>b DEF Answers, TokenSteps, TokenEnds
<1>1. ASSUME NEW s \in {"Recent", "Claims", "Binding"}, NEW need, NEW then, Begun(p, s, need, then)
      PROVE  Lands(p, TokenEnds)
    BY <1>1, PutLands DEF Begun
<1>2. CASE Reissue(p) \/ Rotate(p)
    BY <1>2, <1>1 DEF Reissue, Rotate
<1>3. CASE Mint(p)
    BY <1>3, <1>1, <1>a DEF Mint, Handed
<1>4. CASE Change(p) \/ Recent(p) \/ ByIp(p) \/ Target(p) \/ Operator(p)
    BY <1>4, <1>a DEF Change, Recent, ByIp, Target, Operator
<1>5. ASSUME Passed(p)
      PROVE  Lands(p, TokenEnds)
    BY <1>5, PutLands, <1>a DEF Passed
<1>6. CASE Binding(p) \/ AnyBinding(p) \/ Deployment(p)
    BY <1>6, <1>5, <1>a DEF Binding, AnyBinding, Deployment, Pass
<1>7. CASE Claims(p) \/ Deliver(p) \/ Sender(p)
    BY <1>7, <1>a DEF Claims, Deliver, Sender, Unmailed
<1>8. CASE MailDraft(p) \/ MailQueue(p) \/ MailUndo(p) \/ Log(p)
    BY <1>8, <1>a DEF MailDraft, MailQueue, MailUndo, Log, Unmailed
<1>. QED
    BY <1>2, <1>3, <1>4, <1>6, <1>7, <1>8 DEF TokenStep

LEMMA OthersAside ==
    ASSUME Shape, NEW p \in Callers, SignupStep(p) \/ SendStep(p) \/ TokenStep(p)
    PROVE  Aside(p)
<1>1. (SignupEnds \union SendEnds \union TokenEnds) \intersect (PaySteps \union PolicySteps) = {}
    BY DEF SignupEnds, SendEnds, TokenEnds, SignupSteps, SendSteps, TokenSteps, Answers, PaySteps, PolicySteps
<1>. QED
    BY <1>1, SignupLands, SendLands, TokenLands DEF Aside, Lands

(* What the loops over the aliases go on with.                             *)
OnAliases(r) == "pc" \in DOMAIN r /\ r.pc \notin PaySteps \union PolicySteps

LEMMA FollowingOnAliases ==
    ASSUME NEW p, NEW r, "pc" \in DOMAIN r, r.pc \in AliasSteps
    PROVE  OnAliases(Following(p, r)) /\ OnAliases(WithBox(p, r))
<1>. DEFINE q == [r EXCEPT !.todo = Tail(r.todo), !.created = FALSE, !.prior = "none"]
<1>1. "pc" \in DOMAIN q /\ q.pc = r.pc
    OBVIOUS
<1>. HIDE DEF q
<1>. DEFINE turn == [q EXCEPT !.pc = "List", !.todo = Aliases, !.phase = 2]
<1>2. OnAliases(turn)
    BY <1>1 DEF OnAliases, PaySteps, PolicySteps
<1>. HIDE DEF turn
<1>3. \A s \in {"Rule", "Box", "Redundant"} : OnAliases([q EXCEPT !.pc = s])
    BY <1>1 DEF OnAliases, PaySteps, PolicySteps
<1>4. OnAliases([pc |-> "done"]) /\ OnAliases([r EXCEPT !.pc = "Rule"])
    BY DEF OnAliases, PaySteps, PolicySteps
<1>5. Following(p, r) \in {[q EXCEPT !.pc = s] : s \in {"Rule", "Box", "Redundant"}}
                          \union {turn, [pc |-> "done"]}
    BY DEF Following, turn, q
<1>6. OnAliases(Following(p, r))
    BY <1>2, <1>3, <1>4, <1>5
<1>. QED
    BY <1>4, <1>6 DEF WithBox

LEMMA AliasAside ==
    ASSUME Shape, NEW p \in Callers, AliasStep(p)
    PROVE  Aside(p)
<1>. USE DEF Answers, PaySteps, PolicySteps
<1>1. "pc" \in DOMAIN proc[p]
    BY DEF Shape
<1>2. ASSUME NEW r, Put(p, r), OnAliases(r)
      PROVE  Aside(p)
    BY <1>2, PutAside DEF OnAliases
<1>3. CASE Begins(p)
    <2>1. \A s \in {"List", "Box"} : \A todo : OnAliases(Task(s, todo))
        BY DEF OnAliases, Task
    <2>. QED
        BY <1>2, <1>3, <2>1, AnswerAside DEF Begins
<1>4. CASE List(p)
    <2>. DEFINE s == CASE Calls(p, "remove") -> "OwnBox"
                       [] Maintains(p) -> "Rule"
                       [] OTHER -> "Box"
                r == [proc[p] EXCEPT !.rules = rule, !.pc = s]
    <2>1. s \in {"OwnBox", "Rule", "Box"}
        OBVIOUS
    <2>2. Put(p, r)
        BY <1>4 DEF List
    <2>. HIDE DEF s
    <2>3. OnAliases(r)
        BY <1>1, <2>1 DEF OnAliases
    <2>. QED
        BY <1>2, <2>2, <2>3
<1>5. CASE Box(p)
    <2>. DEFINE r == [proc[p] EXCEPT !.created = box[Part(p)] = "none",
                                     !.prior = IF box[Part(p)] = "none" THEN "active" ELSE box[Part(p)]]
    <2>1. "pc" \in DOMAIN r /\ r.pc = "Box"
        BY <1>1, <1>5 DEF Box, At
    <2>2. Put(p, IF r.prior = "active" THEN WithBox(p, r) ELSE [r EXCEPT !.pc = "Activate"])
        BY <1>5 DEF Box
    <2>. HIDE DEF r
    <2>3. OnAliases(WithBox(p, r)) /\ OnAliases([r EXCEPT !.pc = "Activate"])
        BY <2>1, FollowingOnAliases DEF OnAliases, AliasSteps
    <2>. QED
        BY <1>2, <2>2, <2>3
<1>6. CASE Activate(p)
    <2>1. OnAliases(WithBox(p, proc[p]))
        BY <1>1, <1>6, FollowingOnAliases DEF Activate, At, AliasSteps
    <2>. QED
        BY <1>2, <1>6, <2>1, AnswerAside DEF Activate
<1>7. CASE Rule(p)
    <2>1. OnAliases(Following(p, proc[p]))
        BY <1>1, <1>7, FollowingOnAliases DEF Rule, At, AliasSteps
    <2>. QED
        BY <1>2, <1>7, <2>1, GoAside, AnswerAside DEF Rule, NotFound
<1>8. CASE Undo(p) \/ Deactivate(p) \/ DeleteRule(p) \/ Restore(p)
    BY <1>8, GoAside, AnswerAside DEF Undo, Deactivate, DeleteRule, Restore
<1>9. CASE OwnBox(p)
    <2>. DEFINE s == IF box[Part(p)] = "active" THEN "Deactivate"
                     ELSE IF proc[p].rules[Part(p)] = "none" THEN "done" ELSE "DeleteRule"
                r == [proc[p] EXCEPT !.prior = box[Part(p)], !.pc = s]
    <2>1. s \in {"Deactivate", "done", "DeleteRule"}
        OBVIOUS
    <2>2. Put(p, r)
        BY <1>9 DEF OwnBox
    <2>. HIDE DEF s
    <2>3. OnAliases(r)
        BY <1>1, <2>1 DEF OnAliases
    <2>. QED
        BY <1>2, <2>2, <2>3
<1>10. CASE Redundant(p)
    <2>1. CASE Answer(p, "done")
        BY <2>1, AnswerAside
    <2>2. CASE UNCHANGED proc
        BY <1>1, <1>10, <2>2 DEF Redundant, At, Aside, Moves, Shape
    <2>. QED
        BY <1>10, <2>1, <2>2 DEF Redundant
<1>. QED
    BY <1>3, <1>4, <1>5, <1>6, <1>7, <1>8, <1>9, <1>10 DEF AliasStep

(* Failures of these requests, and evictions of any.                       *)
LEMMA FailureAside ==
    ASSUME Shape, NEW p \in Callers,
           FailSignup(p) \/ Arrive(p) \/ FailSend(p) \/ FailToken(p) \/ FailAlias(p) \/ Crash(p)
    PROVE  Aside(p)
<1>. USE DEF Answers, PaySteps, PolicySteps
<1>1. CASE FailSignup(p)
    BY <1>1, GoAside, AnswerAside DEF FailSignup, Unsent
<1>2. CASE Arrive(p)
    BY <1>2 DEF Arrive, Aside, Moves, Shape
<1>3. CASE FailSend(p) \/ Crash(p)
    BY <1>3, AnswerAside DEF FailSend, Crash
<1>4. CASE FailToken(p)
    BY <1>4, GoAside, AnswerAside DEF FailToken, Unmailed
<1>5. CASE FailAlias(p)
    BY <1>5, GoAside, AnswerAside DEF FailAlias, NotFound
<1>. QED
    BY <1>1, <1>2, <1>3, <1>4, <1>5

-----------------------------------------------------------------------------
(* What a step must show to preserve the invariant.                        *)

(* Charges, entries and an operator's permission are never taken back.     *)
Kept ==
    /\ charged \subseteq charged' /\ ledger \subseteq ledger'
    /\ approved => approved'
    /\ UNCHANGED calls
    /\ receipt' \in [Prints -> Receipts]

LEMMA MovePreserves ==
    ASSUME PaymentInv, NEW p \in Callers, Moves(p), Kept, RowsBacked',
           PaymentBacked(p)', Ruled(p)'
    PROVE  PaymentInv'
<1>1. Shape'
    <2>1. \A q \in Callers : "pc" \in DOMAIN proc'[q]
        BY DEF PaymentInv, Shape, Moves
    <2>. QED
        BY <2>1 DEF PaymentInv, Shape, Moves, Kept
<1>2. ASSUME NEW q \in Callers, q # p
      PROVE  PaymentBacked(q)' /\ Ruled(q)'
    <2>1. proc'[q] = proc[q]
        BY <1>2 DEF Moves
    <2>2. PaymentBacked(q)'
        BY <2>1 DEF PaymentInv, PaymentsBacked, PaymentBacked, IsPayment, Backed, Kept
    <2>3. Ruled(q)'
        BY <2>1 DEF PaymentInv, DecisionsBacked, Ruled, Kept, At, Calls
    <2>. QED
        BY <2>2, <2>3
<1>3. PaymentsBacked' /\ DecisionsBacked'
    BY <1>2 DEF PaymentsBacked, DecisionsBacked
<1>. QED
    BY <1>1, <1>3 DEF PaymentInv

LEMMA AsideBacked ==
    ASSUME NEW p, Aside(p)
    PROVE  Moves(p) /\ PaymentBacked(p)' /\ Ruled(p)'
BY DEF Aside, PaymentBacked, Ruled, At, PolicySteps

(* Rows that a step does not touch.                                        *)
Untouched == UNCHANGED <<calls, receipt, ledger, charged, policy, recipients, approved>>

LEMMA UntouchedKept ==
    ASSUME PaymentInv, Untouched
    PROVE  Kept /\ RowsBacked'
BY DEF PaymentInv, Shape, Untouched, Kept, RowsBacked, ReceiptsBacked, ReceiptsBooked,
       EntriesEarned, RightsEarned, Privileged, OpenedItself, Calls

LEMMA AsidePreserves ==
    ASSUME PaymentInv, NEW p \in Callers, Aside(p), Untouched
    PROVE  PaymentInv'
BY AsideBacked, UntouchedKept, MovePreserves

(* A payment that gets a new record, or goes on with another step.         *)
LEMMA PaymentPut ==
    ASSUME PaymentInv, NEW p \in Callers, NEW r, Put(p, r), Kept,
           r.pc \in PaySteps, IsPayment(r),
           r.copy.settle = "settled" \/ r.pc \in Claiming => r.print \in charged',
           r.copy.status = "settled" \/ r.pc \in Booked => r.print \in ledger',
           r.pc \in Unlocking => About[r.print].kind = "upgrade"
    PROVE  Moves(p) /\ PaymentBacked(p)' /\ Ruled(p)'
<1>1. Moves(p) /\ proc'[p] = r
    BY PutMoves DEF PaymentInv, IsPayment
<1>2. PaymentBacked(p)'
    BY <1>1 DEF PaymentBacked, IsPayment, Backed
<1>3. Ruled(p)'
    BY <1>1 DEF Ruled, At, PaySteps, PolicySteps
<1>. QED
    BY <1>1, <1>2, <1>3

LEMMA PaymentGo ==
    ASSUME PaymentInv, NEW p \in Callers, NEW s \in PaySteps, Go(p, s), Kept,
           proc[p].pc \in PaySteps,
           s \in Claiming => Mine(p) \in charged',
           s \in Booked => Mine(p) \in ledger',
           s \in Unlocking => Upgrade(p)
    PROVE  Moves(p) /\ PaymentBacked(p)' /\ Ruled(p)'
<1>. DEFINE r == [proc[p] EXCEPT !.pc = s]
<1>1. IsPayment(proc[p]) /\ Backed(proc[p])
    BY DEF PaymentInv, PaymentsBacked, PaymentBacked
<1>2. r.pc = s /\ r.print = Mine(p) /\ r.copy = Copy(p) /\ DOMAIN r = DOMAIN proc[p]
    BY <1>1 DEF IsPayment, Mine, Copy
<1>3. Put(p, r)
    BY DEF Go
<1>4. IsPayment(r)
    BY <1>1, <1>2 DEF IsPayment, Mine, Copy
<1>5. /\ Copy(p).settle = "settled" => Mine(p) \in charged'
      /\ Copy(p).status = "settled" => Mine(p) \in ledger'
    BY <1>1 DEF Backed, Mine, Copy, Kept
<1>. HIDE DEF r
<1>. QED
    BY <1>2, <1>3, <1>4, <1>5, PaymentPut DEF Upgrade

(* A receipt that is written: what it then says is backed.                 *)
LEMMA WriteBacked ==
    ASSUME PaymentInv, NEW p \in Callers, NEW status \in Statuses,
           NEW settle \in {"none", "refused", "settled"},
           WriteReceipt(p, status, settle), Mine(p) \in Prints,
           UNCHANGED <<calls, ledger, charged, policy, recipients, approved>>,
           settle = "settled" => Mine(p) \in charged,
           status = "settled" => Mine(p) \in ledger
    PROVE  Kept /\ RowsBacked'
<1>. DEFINE x == Mine(p)
            r == [status |-> status, settle |-> settle]
<1>1. receipt' = [receipt EXCEPT ![x] = r] /\ r \in Receipts
    BY DEF WriteReceipt, Receipts
<1>. HIDE DEF r
<1>2. Kept
    BY <1>1 DEF Kept, PaymentInv, Shape
<1>3. \A y \in Prints : receipt'[y] = IF y = x THEN r ELSE receipt[y]
    BY <1>1 DEF PaymentInv, Shape
<1>4. r.status = status /\ r.settle = settle
    BY DEF r
<1>5. ReceiptsBacked' /\ ReceiptsBooked'
    BY <1>3, <1>4 DEF PaymentInv, RowsBacked, ReceiptsBacked, ReceiptsBooked
<1>6. EntriesEarned' /\ RightsEarned'
    BY DEF PaymentInv, RowsBacked, EntriesEarned, RightsEarned, Privileged, OpenedItself, Calls
<1>. QED
    BY <1>2, <1>5, <1>6 DEF RowsBacked

-----------------------------------------------------------------------------
(* The steps of a payment.                                                 *)

LEMMA NextStepClaims ==
    ASSUME NEW p, NEW r
    PROVE  /\ NextStep(p, r) \in {"Verify", "Finalize", "Settle"}
           /\ NextStep(p, r) = "Finalize" => r.settle = "settled" \/ r.status = "settled"
BY DEF NextStep

(* A payment at one of its steps has a receipt, and what it has claimed.   *)
LEMMA AtPayment ==
    ASSUME PaymentInv, NEW p \in Callers, proc[p].pc \in PaySteps
    PROVE  /\ IsPayment(proc[p]) /\ Mine(p) \in Prints /\ Copy(p) \in Receipts
           /\ Copy(p).settle = "settled" \/ proc[p].pc \in Claiming => Mine(p) \in charged
           /\ Copy(p).status = "settled" \/ proc[p].pc \in Booked => Mine(p) \in ledger
           /\ proc[p].pc \in Unlocking => Upgrade(p)
           /\ Mine(p) \in ledger => Mine(p) \in charged
BY DEF PaymentInv, PaymentsBacked, PaymentBacked, IsPayment, Backed, Mine, Copy, Upgrade,
       RowsBacked, EntriesEarned

(* A request that takes up a receipt, new or as it was read.               *)
LEMMA TakeBacked ==
    ASSUME PaymentInv, NEW p \in Callers, NEW q, Put(p, q), IsPayment(q), Untouched,
           q.pc \in {"Lookup", "Begin", "Verify", "Settle", "Finalize"},
           q.copy.settle = "settled" \/ q.pc = "Finalize" => q.print \in charged,
           q.copy.status = "settled" => q.print \in ledger
    PROVE  PaymentInv'
<1>1. q.pc \in PaySteps /\ q.pc \notin Booked /\ q.pc \notin Unlocking
    BY DEF PaySteps, Booked, Unlocking
<1>2. q.pc \in Claiming => q.pc = "Finalize"
    BY DEF Claiming
<1>3. Kept /\ RowsBacked'
    BY UntouchedKept
<1>4. Moves(p) /\ PaymentBacked(p)' /\ Ruled(p)'
    BY <1>1, <1>2, <1>3, PaymentPut DEF Kept
<1>. QED
    BY <1>3, <1>4, MovePreserves

LEMMA NoReceiptTyped == NoReceipt \in Receipts /\ Pending \in Receipts
BY DEF NoReceipt, Pending, Receipts, Statuses

LEMMA SubmitPreserves ==
    ASSUME PaymentInv, NEW p \in Callers, Topup(p) \/ UpgradeIntent(p), UNCHANGED calls
    PROVE  PaymentInv'
<1>. DEFINE x == calls[p].proof
<1>1. Untouched
    BY DEF Topup, UpgradeIntent, Submit, Untouched, payVars, moneyVars, sendVars
<1>2. x \in Proofs \union {None}
    BY DEF PaymentInv, Shape, Sendable, Topup, UpgradeIntent, Calls
<1>3. CASE Answer(p, "refused")
    BY <1>1, <1>3, AnswerAside, AsidePreserves DEF Answers, PaymentInv
<1>4. CASE x # None /\ Put(p, Request(ReceiptOf(x)))
    <2>1. ReceiptOf(x) \in Prints
        BY <1>2, <1>4 DEF ReceiptOf, Prints
    <2>. DEFINE q == Request(ReceiptOf(x))
    <2>2. /\ q.print = ReceiptOf(x) /\ q.copy = NoReceipt /\ q.pc = "Lookup"
          /\ {"pc", "print", "copy"} \subseteq DOMAIN q
        BY DEF Request
    <2>3. NoReceipt.settle # "settled" /\ NoReceipt.status # "settled"
        BY DEF NoReceipt
    <2>. HIDE DEF q
    <2>4. IsPayment(q)
        BY <2>1, <2>2, NoReceiptTyped DEF IsPayment
    <2>. QED
        BY <1>1, <1>4, <2>2, <2>3, <2>4, TakeBacked DEF q
<1>. QED
    BY <1>3, <1>4 DEF Topup, UpgradeIntent, Submit

(* A receipt as it is in the database is backed.                           *)
LEMMA ReceiptBacked ==
    ASSUME PaymentInv, NEW x \in Prints
    PROVE  /\ receipt[x] \in Receipts
           /\ receipt[x].settle = "settled" => x \in charged
           /\ receipt[x].status = "settled" => x \in ledger /\ x \in charged
BY DEF PaymentInv, Shape, RowsBacked, ReceiptsBacked, ReceiptsBooked, EntriesEarned

LEMMA LookUpPreserves ==
    ASSUME PaymentInv, NEW p \in Callers, LookUp(p, "Lookup") \/ LookUp(p, "Relook"), UNCHANGED calls
    PROVE  PaymentInv'
<1>1. Untouched
    BY DEF LookUp, Untouched, sendVars
<1>2. proc[p].pc \in PaySteps
    BY DEF LookUp, At, PaySteps
<1>3. CASE Answer(p, "error") \/ Replay(p)
    BY <1>1, <1>3, AnswerAside, AsidePreserves DEF Replay, Answers, PaymentInv
<1>4. CASE Go(p, "Create")
    BY <1>1, <1>2, <1>4, UntouchedKept, PaymentGo, MovePreserves
       DEF PaySteps, Claiming, Booked, Unlocking
<1>5. CASE Take(p, receipt[Mine(p)], proc[p])
    <2>. DEFINE r == receipt[Mine(p)]
                q == [proc[p] EXCEPT !.copy = r, !.pc = "Begin"]
    <2>1. Mine(p) \in Prints /\ IsPayment(proc[p])
        BY <1>2, AtPayment
    <2>2. DOMAIN q = DOMAIN proc[p] /\ q.print = Mine(p) /\ q.copy = r /\ q.pc = "Begin"
        BY <2>1 DEF IsPayment, Mine
    <2>3. Put(p, q)
        BY <1>5 DEF Take
    <2>. HIDE DEF q
    <2>4. IsPayment(q)
        BY <2>1, <2>2, ReceiptBacked DEF IsPayment
    <2>. QED
        BY <1>1, <2>1, <2>2, <2>3, <2>4, ReceiptBacked, TakeBacked
<1>. QED
    BY <1>3, <1>4, <1>5 DEF LookUp

LEMMA CreatePreserves ==
    ASSUME PaymentInv, NEW p \in Callers, Create(p), UNCHANGED calls
    PROVE  PaymentInv'
<1>1. proc[p].pc \in PaySteps /\ UNCHANGED <<ledger, charged, policy, recipients, approved>>
    BY DEF Create, At, PaySteps, sendVars
<1>2. CASE Go(p, "Relook") /\ UNCHANGED receipt
    <2>1. Untouched
        BY <1>1, <1>2 DEF Untouched
    <2>. QED
        BY <1>1, <1>2, <2>1, UntouchedKept, PaymentGo, MovePreserves
           DEF PaySteps, Claiming, Booked, Unlocking
<1>3. CASE receipt' = [receipt EXCEPT ![Mine(p)] = Pending] /\ Take(p, Pending, proc[p])
    <2>. DEFINE q == [proc[p] EXCEPT !.copy = Pending, !.pc = "Begin"]
    <2>1. Mine(p) \in Prints /\ IsPayment(proc[p])
        BY <1>1, AtPayment
    <2>2. DOMAIN q = DOMAIN proc[p] /\ q.print = Mine(p) /\ q.copy = Pending /\ q.pc = "Begin"
        BY <2>1 DEF IsPayment, Mine
    <2>3. Put(p, q)
        BY <1>3 DEF Take
    <2>. HIDE DEF q
    <2>4. IsPayment(q)
        BY <2>1, <2>2, NoReceiptTyped DEF IsPayment
    <2>5. Pending.settle # "settled" /\ Pending.status # "settled"
        BY DEF Pending
    <2>6. Kept
        BY <1>1, <1>3, <2>1, NoReceiptTyped DEF Kept, PaymentInv, Shape
    <2>7. \A y \in Prints : receipt'[y] = IF y = Mine(p) THEN Pending ELSE receipt[y]
        BY <1>3 DEF PaymentInv, Shape
    <2>8. RowsBacked'
        BY <1>1, <2>5, <2>7
           DEF PaymentInv, RowsBacked, ReceiptsBacked, ReceiptsBooked, EntriesEarned,
                RightsEarned, Privileged, OpenedItself, Calls
    <2>9. Moves(p) /\ PaymentBacked(p)' /\ Ruled(p)'
        BY <2>2, <2>3, <2>4, <2>5, <2>6, PaymentPut DEF PaySteps, Claiming, Booked, Unlocking
    <2>. QED
        BY <2>6, <2>8, <2>9, MovePreserves
<1>. QED
    BY <1>2, <1>3 DEF Create

LEMMA ConfirmPreserves ==
    ASSUME PaymentInv, NEW p \in Callers, Confirm(p), UNCHANGED calls
    PROVE  PaymentInv'
<1>. DEFINE x == calls[p].print
            r == receipt[x]
            q == [Request(x) EXCEPT !.copy = r, !.pc = "Begin"]
<1>1. Untouched
    BY DEF Confirm, Untouched, sendVars
<1>2. x \in Prints
    BY DEF PaymentInv, Shape, Sendable, Confirm, Calls
<1>3. CASE Answer(p, "refused")
    BY <1>1, <1>3, AnswerAside, AsidePreserves DEF Answers, PaymentInv
<1>4. CASE Take(p, r, Request(x))
    <2>1. q.print = x /\ q.copy = r /\ q.pc = "Begin" /\ {"pc", "print", "copy"} \subseteq DOMAIN q
        BY DEF Request
    <2>2. Put(p, q)
        BY <1>4 DEF Take
    <2>. HIDE DEF q
    <2>3. IsPayment(q)
        BY <1>2, <2>1, ReceiptBacked DEF IsPayment
    <2>. QED
        BY <1>1, <1>2, <2>1, <2>2, <2>3, ReceiptBacked, TakeBacked
<1>. QED
    BY <1>3, <1>4 DEF Confirm

LEMMA RepeatPreserves ==
    ASSUME PaymentInv, NEW p \in Callers, Repeat(p), UNCHANGED calls
    PROVE  PaymentInv'
<1>1. Untouched /\ Put(p, Free)
    BY DEF Repeat, Untouched, payVars, moneyVars, sendVars
<1>2. "pc" \in DOMAIN Free /\ Free.pc \notin PaySteps \union PolicySteps
    BY DEF Free, PaySteps, PolicySteps
<1>3. Aside(p)
    BY <1>1, <1>2, PutAside DEF PaymentInv
<1>. QED
    BY <1>1, <1>3, AsidePreserves

LEMMA BeginPreserves ==
    ASSUME PaymentInv, NEW p \in Callers, Begin(p), UNCHANGED calls
    PROVE  PaymentInv'
<1>. DEFINE b == Mine(p) \in ledger
            s == NextStep(p, Copy(p))
            q == [proc[p] EXCEPT !.had = b, !.pc = s]
<1>1. Untouched /\ proc[p].pc \in PaySteps
    BY DEF Begin, Untouched, payVars, moneyVars, sendVars, At, PaySteps
<1>2. CASE Answer(p, "refused")
    BY <1>1, <1>2, AnswerAside, AsidePreserves DEF Answers, PaymentInv
<1>3. CASE Put(p, q)
    <2>1. IsPayment(proc[p])
        BY <1>1, AtPayment
    <2>. HIDE DEF b, s
    <2>2. DOMAIN q = DOMAIN proc[p] /\ q.print = Mine(p) /\ q.copy = Copy(p) /\ q.pc = s
        BY <2>1 DEF IsPayment, Mine, Copy
    <2>. HIDE DEF q
    <2>3. IsPayment(q)
        BY <2>1, <2>2 DEF IsPayment, Mine, Copy
    <2>4. s \in {"Verify", "Finalize", "Settle"}
        BY NextStepClaims DEF s
    <2>5. s = "Finalize" => Copy(p).settle = "settled" \/ Copy(p).status = "settled"
        BY NextStepClaims DEF s
    <2>. QED
        BY <1>1, <1>3, <2>2, <2>3, <2>4, <2>5, AtPayment, TakeBacked
<1>. QED
    BY <1>2, <1>3 DEF Begin

LEMMA GoesOn ==
    ASSUME PaymentInv, NEW p \in Callers, NEW s \in PaySteps, Go(p, s), Untouched,
           proc[p].pc \in PaySteps,
           s \in Claiming => Mine(p) \in charged,
           s \in Booked => Mine(p) \in ledger,
           s \in Unlocking => Upgrade(p)
    PROVE  PaymentInv'
BY UntouchedKept, PaymentGo, MovePreserves DEF Kept

(* The charge of a payer.                                                  *)
LEMMA ChargeBacked ==
    ASSUME PaymentInv, NEW x \in Prints, Charge(x),
           UNCHANGED <<calls, receipt, ledger, policy, recipients, approved>>
    PROVE  Kept /\ RowsBacked' /\ x \in charged'
BY DEF PaymentInv, Shape, Charge, Kept, RowsBacked, ReceiptsBacked, ReceiptsBooked, EntriesEarned,
       RightsEarned, Privileged, OpenedItself, Calls

LEMMA VerifyPreserves ==
    ASSUME PaymentInv, NEW p \in Callers, Verify(p), UNCHANGED calls
    PROVE  PaymentInv'
<1>1. Untouched /\ proc[p].pc \in PaySteps
    BY DEF Verify, Untouched, payVars, moneyVars, sendVars, At, PaySteps
<1>2. Go(p, "WriteVerified") \/ Go(p, "WriteFailed")
    BY DEF Verify
<1>. QED
    BY <1>1, <1>2, GoesOn DEF PaySteps, Claiming, Booked, Unlocking

LEMMA WriteVerifiedPreserves ==
    ASSUME PaymentInv, NEW p \in Callers, WriteVerified(p), UNCHANGED calls
    PROVE  PaymentInv'
<1>. DEFINE q == [proc[p] EXCEPT !.copy.status = "verified", !.pc = "Settle"]
            copy == [Copy(p) EXCEPT !.status = "verified"]
<1>1. proc[p].pc \in PaySteps /\ UNCHANGED <<ledger, charged, policy, recipients, approved>>
    BY DEF WriteVerified, At, PaySteps, sendVars
<1>2. IsPayment(proc[p]) /\ Copy(p) \in Receipts
    BY <1>1, AtPayment
<1>3. DOMAIN q = DOMAIN proc[p] /\ q.print = Mine(p) /\ q.pc = "Settle" /\ q.copy = copy
    BY <1>2 DEF IsPayment, Mine, Copy
<1>4. copy \in Receipts /\ copy.settle = Copy(p).settle /\ copy.status = "verified"
    BY <1>2 DEF Receipts, Statuses
<1>5. Put(p, q)
    BY DEF WriteVerified
<1>. HIDE DEF q, copy
<1>6. IsPayment(q)
    BY <1>2, <1>3, <1>4 DEF IsPayment, Mine
<1>7. Copy(p).settle \in {"none", "refused", "settled"} /\ "verified" \in Statuses
    BY <1>2 DEF Receipts, Statuses
<1>8. Kept /\ RowsBacked'
    BY <1>1, <1>7, AtPayment, WriteBacked DEF WriteVerified
<1>9. Moves(p) /\ PaymentBacked(p)' /\ Ruled(p)'
    BY <1>1, <1>3, <1>4, <1>5, <1>6, <1>8, AtPayment, PaymentPut
       DEF PaySteps, Claiming, Booked, Unlocking
<1>. QED
    BY <1>8, <1>9, MovePreserves

LEMMA WriteFailedPreserves ==
    ASSUME PaymentInv, NEW p \in Callers, WriteFailed(p) \/ WriteRefused(p), UNCHANGED calls
    PROVE  PaymentInv'
<1>1. /\ proc[p].pc \in PaySteps
      /\ UNCHANGED <<ledger, charged, policy, recipients, approved>>
      /\ Answer(p, "refused")
    BY DEF WriteFailed, WriteRefused, At, PaySteps, sendVars
<1>2. Mine(p) \in Prints /\ Copy(p) \in Receipts
    BY <1>1, AtPayment
<1>3. Copy(p).settle \in {"none", "refused", "settled"} /\ {"failed", "verified"} \subseteq Statuses
    BY <1>2 DEF Receipts, Statuses
<1>4. Kept /\ RowsBacked'
    BY <1>1, <1>2, <1>3, AtPayment, WriteBacked DEF WriteFailed, WriteRefused
<1>5. Moves(p) /\ PaymentBacked(p)' /\ Ruled(p)'
    BY <1>1, AnswerAside, AsideBacked DEF Answers, PaymentInv
<1>. QED
    BY <1>4, <1>5, MovePreserves

LEMMA SettlePreserves ==
    ASSUME PaymentInv, NEW p \in Callers, Settle(p), UNCHANGED calls
    PROVE  PaymentInv'
<1>1. /\ proc[p].pc \in PaySteps
      /\ UNCHANGED <<receipt, ledger, policy, recipients, approved>>
    BY DEF Settle, At, PaySteps, sendVars
<1>2. Mine(p) \in Prints
    BY <1>1, AtPayment
<1>3. CASE Charge(Mine(p)) /\ Go(p, "WriteSettled")
    <2>1. Kept /\ RowsBacked' /\ Mine(p) \in charged'
        BY <1>1, <1>2, <1>3, ChargeBacked
    <2>2. Moves(p) /\ PaymentBacked(p)' /\ Ruled(p)'
        BY <1>1, <1>3, <2>1, PaymentGo DEF PaySteps, Claiming, Booked, Unlocking
    <2>. QED
        BY <2>1, <2>2, MovePreserves
<1>4. CASE Go(p, "WriteRefused") /\ UNCHANGED charged
    BY <1>1, <1>4, GoesOn DEF Untouched, PaySteps, Claiming, Booked, Unlocking
<1>. QED
    BY <1>3, <1>4 DEF Settle

LEMMA WriteSettledPreserves ==
    ASSUME PaymentInv, NEW p \in Callers, WriteSettled(p), UNCHANGED calls
    PROVE  PaymentInv'
<1>. DEFINE copy == [status |-> "verified", settle |-> "settled"]
            q == [proc[p] EXCEPT !.copy = copy, !.pc = "Finalize"]
<1>1. /\ proc[p].pc \in PaySteps /\ proc[p].pc \in Claiming
      /\ UNCHANGED <<ledger, charged, policy, recipients, approved>>
    BY DEF WriteSettled, At, PaySteps, Claiming, sendVars
<1>2. IsPayment(proc[p]) /\ Mine(p) \in Prints /\ Mine(p) \in charged
    BY <1>1, AtPayment
<1>3. DOMAIN q = DOMAIN proc[p] /\ q.print = Mine(p) /\ q.pc = "Finalize" /\ q.copy = copy
    BY <1>2 DEF IsPayment, Mine
<1>4. copy \in Receipts /\ copy.status # "settled" /\ "verified" \in Statuses
    BY DEF Receipts, Statuses
<1>5. Put(p, q)
    BY DEF WriteSettled
<1>. HIDE DEF q, copy
<1>6. IsPayment(q)
    BY <1>2, <1>3, <1>4 DEF IsPayment, Mine
<1>7. Kept /\ RowsBacked'
    BY <1>1, <1>2, <1>4, WriteBacked DEF WriteSettled
<1>8. Moves(p) /\ PaymentBacked(p)' /\ Ruled(p)'
    BY <1>1, <1>2, <1>3, <1>4, <1>5, <1>6, <1>7, PaymentPut DEF PaySteps, Booked, Unlocking
<1>. QED
    BY <1>7, <1>8, MovePreserves

LEMMA FinalizePreserves ==
    ASSUME PaymentInv, NEW p \in Callers, Finalize(p), UNCHANGED calls
    PROVE  PaymentInv'
<1>1. Untouched /\ proc[p].pc \in PaySteps /\ proc[p].pc \in Claiming
    BY DEF Finalize, Untouched, payVars, moneyVars, sendVars, At, PaySteps, Claiming
<1>2. Mine(p) \in charged
    BY <1>1, AtPayment
<1>3. \/ Go(p, "Refresh") \/ Go(p, "Grant")
      \/ Go(p, "Account") /\ Mine(p) \in ledger /\ Upgrade(p)
      \/ Go(p, "Sum") /\ Mine(p) \in ledger
    BY DEF Finalize, UpgradeStep, TopupStep
<1>. QED
    BY <1>1, <1>2, <1>3, GoesOn DEF PaySteps, Claiming, Booked, Unlocking

LEMMA GrantPreserves ==
    ASSUME PaymentInv, NEW p \in Callers, proc[p].pc = "Grant", ledger' = ledger \union {Mine(p)},
           UNCHANGED <<calls, receipt, charged, policy, recipients, approved>>,
           NEW s \in {"Account", "Sum"}, Go(p, s), s = "Account" => Upgrade(p)
    PROVE  PaymentInv'
<1>1. proc[p].pc \in PaySteps /\ proc[p].pc \in Claiming
    BY DEF PaySteps, Claiming
<1>2. Mine(p) \in charged /\ Mine(p) \in ledger'
    BY <1>1, AtPayment
<1>3. Kept /\ RowsBacked'
    BY <1>2 DEF PaymentInv, Shape, Kept, RowsBacked, ReceiptsBacked, ReceiptsBooked, EntriesEarned,
                RightsEarned, Privileged, OpenedItself, Calls
<1>4. Moves(p) /\ PaymentBacked(p)' /\ Ruled(p)'
    BY <1>1, <1>2, <1>3, PaymentGo DEF PaySteps, Claiming, Booked, Unlocking
<1>. QED
    BY <1>3, <1>4, MovePreserves

(* A payment that notes something else than a receipt and goes on.         *)
LEMMA NotesBacked ==
    ASSUME PaymentInv, NEW p \in Callers, proc[p].pc \in PaySteps, Untouched,
           NEW q, Put(p, q), DOMAIN q = DOMAIN proc[p], q.print = Mine(p), q.copy = Copy(p),
           q.pc \in PaySteps, q.pc \notin Claiming,
           q.pc \in Booked => Mine(p) \in ledger, q.pc \in Unlocking => Upgrade(p)
    PROVE  PaymentInv'
<1>1. IsPayment(q)
    BY AtPayment DEF IsPayment, Mine, Copy
<1>2. Kept /\ RowsBacked'
    BY UntouchedKept
<1>3. Moves(p) /\ PaymentBacked(p)' /\ Ruled(p)'
    BY <1>1, <1>2, AtPayment, PaymentPut DEF Kept, Upgrade
<1>. QED
    BY <1>2, <1>3, MovePreserves

LEMMA NotesPreserves ==
    ASSUME PaymentInv, NEW p \in Callers, Account(p) \/ ReadPolicy(p) \/ Sum(p), UNCHANGED calls
    PROVE  PaymentInv'
<1>1. /\ Untouched /\ proc[p].pc \in PaySteps /\ proc[p].pc \in Booked
      /\ ~Sum(p) => proc[p].pc \in Unlocking
    BY DEF Account, ReadPolicy, Sum, Untouched, payVars, moneyVars, sendVars, At, PaySteps, Booked,
           Unlocking
<1>2. IsPayment(proc[p]) /\ Mine(p) \in ledger /\ (~Sum(p) => Upgrade(p))
    BY <1>1, AtPayment
<1>3. CASE Account(p)
    <2>. DEFINE q == [proc[p] EXCEPT !.was = standing, !.pc = "Profile"]
    <2>1. DOMAIN q = DOMAIN proc[p] /\ q.print = Mine(p) /\ q.copy = Copy(p) /\ q.pc = "Profile"
        BY <1>2 DEF IsPayment, Mine, Copy
    <2>2. Put(p, q) /\ (Sum(p) => FALSE)
        BY <1>3 DEF Account, Sum, At
    <2>. HIDE DEF q
    <2>. QED
        BY <1>1, <1>2, <2>1, <2>2, NotesBacked DEF PaySteps, Claiming
<1>4. CASE ReadPolicy(p)
    <2>. DEFINE q == [proc[p] EXCEPT !.list = policy.allow, !.pc = "Enable"]
    <2>1. DOMAIN q = DOMAIN proc[p] /\ q.print = Mine(p) /\ q.copy = Copy(p) /\ q.pc = "Enable"
        BY <1>2 DEF IsPayment, Mine, Copy
    <2>2. Put(p, q) /\ (Sum(p) => FALSE)
        BY <1>4 DEF ReadPolicy, Sum, At
    <2>. HIDE DEF q
    <2>. QED
        BY <1>1, <1>2, <2>1, <2>2, NotesBacked DEF PaySteps, Claiming
<1>5. CASE Sum(p)
    <2>. DEFINE total == Total
                q == [proc[p] EXCEPT !.sum = total, !.pc = "Credit"]
    <2>1. Put(p, q)
        BY <1>5 DEF Sum
    <2>. HIDE DEF total
    <2>2. DOMAIN q = DOMAIN proc[p] /\ q.print = Mine(p) /\ q.copy = Copy(p) /\ q.pc = "Credit"
        BY <1>2 DEF IsPayment, Mine, Copy
    <2>. HIDE DEF q
    <2>. QED
        BY <1>1, <1>2, <2>1, <2>2, NotesBacked DEF PaySteps, Claiming, Unlocking
<1>. QED
    BY <1>3, <1>4, <1>5

LEMMA ProfilePreserves ==
    ASSUME PaymentInv, NEW p \in Callers, Profile(p) \/ RelaxUpgraded(p), UNCHANGED calls
    PROVE  PaymentInv'
<1>1. Untouched /\ proc[p].pc \in PaySteps /\ proc[p].pc \in Booked /\ proc[p].pc \in Unlocking
    BY DEF Profile, RelaxUpgraded, Untouched, payVars, moneyVars, sendVars, At, PaySteps, Booked,
           Unlocking
<1>2. Mine(p) \in ledger /\ Upgrade(p)
    BY <1>1, AtPayment
<1>3. Go(p, "ReadPolicy") \/ Go(p, "Open") \/ Go(p, "Sum")
    BY DEF Profile, RelaxUpgraded
<1>. QED
    BY <1>1, <1>2, <1>3, GoesOn DEF PaySteps, Claiming

(* A paid upgrade enables external sending and opens the agent's list.     *)
LEMMA UnlockPreserves ==
    ASSUME PaymentInv, NEW p \in Callers, Enable(p) \/ Open(p), UNCHANGED calls
    PROVE  PaymentInv'
<1>1. /\ proc[p].pc \in PaySteps /\ proc[p].pc \in Booked /\ proc[p].pc \in Unlocking
      /\ UNCHANGED <<receipt, ledger, charged, approved>>
    BY DEF Enable, Open, moneyVars, At, PaySteps, Booked, Unlocking
<1>2. Mine(p) \in ledger /\ Upgrade(p) /\ Mine(p) \in charged
    BY <1>1, AtPayment
<1>3. Kept
    BY <1>1 DEF Kept, PaymentInv, Shape
<1>4. RightsEarned'
    BY <1>1, <1>2 DEF RightsEarned, Privileged, OpenedItself, Calls, Upgrade
<1>5. RowsBacked'
    BY <1>1, <1>4 DEF PaymentInv, RowsBacked, ReceiptsBacked, ReceiptsBooked, EntriesEarned
<1>6. Go(p, "Relax") \/ Go(p, "Sum")
    BY DEF Enable, Open
<1>7. Moves(p) /\ PaymentBacked(p)' /\ Ruled(p)'
    BY <1>1, <1>2, <1>3, <1>6, PaymentGo DEF PaySteps, Claiming
<1>. QED
    BY <1>3, <1>5, <1>7, MovePreserves

LEMMA CreditPreserves ==
    ASSUME PaymentInv, NEW p \in Callers, Credit(p), UNCHANGED calls
    PROVE  PaymentInv'
<1>1. Untouched /\ proc[p].pc \in PaySteps /\ proc[p].pc \in Booked
    BY DEF Credit, Untouched, sendVars, At, PaySteps, Booked
<1>2. Mine(p) \in ledger
    BY <1>1, AtPayment
<1>3. CASE Answer(p, "done")
    BY <1>1, <1>3, AnswerAside, AsidePreserves DEF Answers, PaymentInv
<1>4. CASE Go(p, "Mark")
    BY <1>1, <1>2, <1>4, GoesOn DEF PaySteps, Claiming, Unlocking
<1>. QED
    BY <1>3, <1>4 DEF Credit

LEMMA MarkPreserves ==
    ASSUME PaymentInv, NEW p \in Callers, Mark(p), UNCHANGED calls
    PROVE  PaymentInv'
<1>1. /\ proc[p].pc \in PaySteps /\ proc[p].pc \in Booked
      /\ UNCHANGED <<ledger, charged, policy, recipients, approved>>
      /\ Answer(p, "done")
    BY DEF Mark, At, PaySteps, Booked, sendVars
<1>2. Mine(p) \in Prints /\ Copy(p) \in Receipts /\ Mine(p) \in ledger
    BY <1>1, AtPayment
<1>3. Copy(p).settle \in {"none", "refused", "settled"} /\ "settled" \in Statuses
    BY <1>2 DEF Receipts, Statuses
<1>4. Kept /\ RowsBacked'
    BY <1>1, <1>2, <1>3, AtPayment, WriteBacked DEF Mark
<1>5. Moves(p) /\ PaymentBacked(p)' /\ Ruled(p)'
    BY <1>1, AnswerAside, AsideBacked DEF Answers, PaymentInv
<1>. QED
    BY <1>4, <1>5, MovePreserves

LEMMA RefreshPreserves ==
    ASSUME PaymentInv, NEW p \in Callers, Refresh(p), UNCHANGED calls
    PROVE  PaymentInv'
<1>. DEFINE r == receipt[Mine(p)]
            s == NextStep(p, r)
            q == [proc[p] EXCEPT !.copy = r, !.again = TRUE, !.pc = s]
<1>1. Untouched /\ proc[p].pc \in PaySteps
    BY DEF Refresh, Untouched, sendVars, At, PaySteps
<1>2. CASE Answer(p, "error") \/ Answer(p, "refused")
    BY <1>1, <1>2, AnswerAside, AsidePreserves DEF Answers, PaymentInv
<1>3. CASE Put(p, q)
    <2>1. IsPayment(proc[p]) /\ Mine(p) \in Prints
        BY <1>1, AtPayment
    <2>2. s \in {"Verify", "Finalize", "Settle"}
        BY NextStepClaims DEF s
    <2>3. s = "Finalize" => r.settle = "settled" \/ r.status = "settled"
        BY NextStepClaims DEF s
    <2>. HIDE DEF s
    <2>4. DOMAIN q = DOMAIN proc[p] /\ q.print = Mine(p) /\ q.copy = r /\ q.pc = s
        BY <2>1 DEF IsPayment, Mine
    <2>. HIDE DEF q
    <2>5. IsPayment(q)
        BY <2>1, <2>4, ReceiptBacked DEF IsPayment
    <2>. QED
        BY <1>1, <1>3, <2>1, <2>2, <2>3, <2>4, <2>5, ReceiptBacked, TakeBacked
<1>. QED
    BY <1>2, <1>3 DEF Refresh

(* A payment that is interrupted: whatever was written is backed, and the  *)
(* request has given up or reads the receipt again.                        *)
LEMMA InterruptedMove ==
    ASSUME PaymentInv, NEW p \in Callers, proc[p].pc \in PaySteps, Kept, RowsBacked',
           \/ Go(p, "Refresh") \/ Go(p, "Relook") \/ Answer(p, "error")
           \/ Go(p, "WriteFailed") \/ Go(p, "WriteRefused")
    PROVE  PaymentInv'
<1>1. CASE Answer(p, "error")
    BY <1>1, AnswerAside, AsideBacked, MovePreserves DEF Answers, PaymentInv
<1>2. ASSUME NEW s \in {"Refresh", "Relook", "WriteFailed", "WriteRefused"}, Go(p, s)
      PROVE  PaymentInv'
    BY <1>2, PaymentGo, MovePreserves DEF PaySteps, Claiming, Booked, Unlocking
<1>. QED
    BY <1>1, <1>2

LEMMA FailPaymentPreserves ==
    ASSUME PaymentInv, NEW p \in Callers, FailPayment(p), UNCHANGED calls
    PROVE  PaymentInv'
<1>1. proc[p].pc \in PaySteps /\ (Go(p, "Refresh") \/ Go(p, "Relook") \/ Answer(p, "error"))
    BY DEF FailPayment, Guarded, At, PaySteps
<1>2. Mine(p) \in Prints /\ Copy(p) \in Receipts
    BY <1>1, AtPayment
<1>3. Copy(p).settle \in {"none", "refused", "settled"} /\ {"verified", "settled"} \subseteq Statuses
    BY <1>2 DEF Receipts, Statuses
<1>4. CASE UNCHANGED payVars
    <2>1. Untouched
        BY <1>4 DEF Untouched, payVars, moneyVars, sendVars
    <2>. QED
        BY <1>1, <2>1, UntouchedKept, InterruptedMove
<1>5. CASE Charge(Mine(p)) /\ UNCHANGED <<sendVars, receipt, ledger>>
    BY <1>1, <1>2, <1>5, ChargeBacked, InterruptedMove DEF sendVars
<1>6. CASE /\ receipt' = [receipt EXCEPT ![Mine(p)] = Pending]
           /\ UNCHANGED <<sendVars, ledger, charged>>
    <2>1. Pending.settle # "settled" /\ Pending.status # "settled"
        BY DEF Pending
    <2>2. Kept
        BY <1>2, <1>6, NoReceiptTyped DEF Kept, PaymentInv, Shape, sendVars
    <2>3. \A y \in Prints : receipt'[y] = IF y = Mine(p) THEN Pending ELSE receipt[y]
        BY <1>6 DEF PaymentInv, Shape
    <2>4. RowsBacked'
        BY <1>6, <2>1, <2>3 DEF PaymentInv, RowsBacked, ReceiptsBacked, ReceiptsBooked, EntriesEarned,
                                RightsEarned, Privileged, OpenedItself, Calls, sendVars
    <2>. QED
        BY <1>1, <2>2, <2>4, InterruptedMove
<1>7. CASE /\ At(p, "Grant") /\ ledger' = ledger \union {Mine(p)}
           /\ UNCHANGED <<sendVars, receipt, charged>>
    <2>1. Mine(p) \in charged
        BY <1>1, <1>7, AtPayment DEF At, Claiming
    <2>2. Kept /\ RowsBacked'
        BY <1>7, <2>1 DEF PaymentInv, Shape, Kept, RowsBacked, ReceiptsBacked, ReceiptsBooked,
                          EntriesEarned, RightsEarned, Privileged, OpenedItself, Calls, sendVars
    <2>. QED
        BY <1>1, <2>2, InterruptedMove
<1>8. CASE /\ \/ WriteReceipt(p, "verified", Copy(p).settle)
              \/ At(p, "WriteSettled") /\ WriteReceipt(p, "verified", "settled")
              \/ At(p, "Mark") /\ WriteReceipt(p, "settled", Copy(p).settle)
           /\ UNCHANGED <<sendVars, ledger, charged>>
    <2>1. /\ Copy(p).settle = "settled" \/ At(p, "WriteSettled") => Mine(p) \in charged
          /\ At(p, "Mark") => Mine(p) \in ledger
        BY <1>1, AtPayment DEF At, Claiming, Booked
    <2>2. UNCHANGED <<calls, ledger, charged, policy, recipients, approved>>
        BY <1>8 DEF sendVars
    <2>3. Kept /\ RowsBacked'
        BY <1>2, <1>3, <1>8, <2>1, <2>2, WriteBacked
    <2>. QED
        BY <1>1, <2>3, InterruptedMove
<1>. QED
    BY <1>4, <1>5, <1>6, <1>7, <1>8 DEF FailPayment

LEMMA NoVerdictPreserves ==
    ASSUME PaymentInv, NEW p \in Callers, NoVerdict(p), UNCHANGED calls
    PROVE  PaymentInv'
<1>1. /\ proc[p].pc \in PaySteps /\ (Go(p, "WriteFailed") \/ Go(p, "WriteRefused"))
      /\ UNCHANGED <<receipt, ledger, policy, recipients, approved>>
    BY DEF NoVerdict, At, PaySteps, sendVars
<1>2. Mine(p) \in Prints
    BY <1>1, AtPayment
<1>3. CASE UNCHANGED charged
    BY <1>1, <1>3, UntouchedKept, InterruptedMove DEF Untouched
<1>4. CASE Charge(Mine(p))
    BY <1>1, <1>2, <1>4, ChargeBacked, InterruptedMove
<1>. QED
    BY <1>3, <1>4 DEF NoVerdict

LEMMA PayStepPreserves ==
    ASSUME PaymentInv, NEW p \in Callers, PayStep(p), UNCHANGED calls
    PROVE  PaymentInv'
<1>1. CASE Topup(p) \/ UpgradeIntent(p) \/ Confirm(p) \/ Repeat(p)
    BY <1>1, SubmitPreserves, ConfirmPreserves, RepeatPreserves
<1>2. CASE LookUp(p, "Lookup") \/ LookUp(p, "Relook") \/ Create(p) \/ Begin(p)
    BY <1>2, LookUpPreserves, CreatePreserves, BeginPreserves
<1>3. CASE Verify(p) \/ WriteVerified(p) \/ WriteFailed(p)
    BY <1>3, VerifyPreserves, WriteVerifiedPreserves, WriteFailedPreserves
<1>4. CASE Settle(p) \/ WriteSettled(p) \/ WriteRefused(p)
    BY <1>4, SettlePreserves, WriteSettledPreserves, WriteFailedPreserves
<1>5. CASE Grant(p)
    <2>1. /\ proc[p].pc = "Grant" /\ ledger' = ledger \union {Mine(p)}
          /\ UNCHANGED <<calls, receipt, charged, policy, recipients, approved>>
          /\ (Upgrade(p) /\ Go(p, "Account")) \/ Go(p, "Sum")
        BY <1>5 DEF Grant, At, sendVars
    <2>. QED
        BY <2>1, GrantPreserves
<1>6. CASE Finalize(p) \/ Account(p) \/ Profile(p) \/ ReadPolicy(p) \/ RelaxUpgraded(p) \/ Sum(p)
    BY <1>6, FinalizePreserves, NotesPreserves, ProfilePreserves
<1>7. CASE Enable(p) \/ Open(p) \/ Credit(p) \/ Mark(p) \/ Refresh(p)
    BY <1>7, UnlockPreserves, CreditPreserves, MarkPreserves, RefreshPreserves
<1>. QED
    BY <1>1, <1>2, <1>3, <1>4, <1>5, <1>6, <1>7 DEF PayStep

-----------------------------------------------------------------------------
(* The steps of an operator's decision.                                    *)

LEMMA Decides ==
    ASSUME PaymentInv, NEW p \in Callers, proc[p].pc \in PolicySteps
    PROVE  calls[p].call \in Decisions \union {"put"}
BY DEF PaymentInv, DecisionsBacked, Ruled

LEMMA DecisionPut ==
    ASSUME PaymentInv, NEW p \in Callers, Moves(p), proc'[p].pc \in PolicySteps
    PROVE  PaymentBacked(p)'
BY DEF PaymentBacked, PaySteps, PolicySteps

(* What is decided goes on to the agents only if sending is allowed.       *)
LEMMA SyncedRuled ==
    ASSUME PaymentInv, NEW p \in Callers, Synced(p), Freed(Decision(p)) => approved',
           proc[p].pc \in PolicySteps, UNCHANGED calls
    PROVE  Moves(p) /\ PaymentBacked(p)' /\ Ruled(p)'
<1>1. CASE Answer(p, "done")
    BY <1>1, AnswerAside, AsideBacked DEF Answers, PaymentInv
<1>2. CASE Go(p, "RelaxAgents") /\ approved'
    <2>1. Moves(p) /\ proc'[p].pc = "RelaxAgents"
        BY <1>2, GoMoves DEF PaymentInv
    <2>. QED
        BY <1>2, <2>1, Decides, DecisionPut DEF Ruled, At, PolicySteps
<1>. QED
    BY <1>1, <1>2 DEF Synced

LEMMA AskPreserves ==
    ASSUME PaymentInv, NEW p \in Callers, Ask(p), UNCHANGED calls
    PROVE  PaymentInv'
<1>1. Untouched /\ Put(p, Reads)
    BY DEF Ask, Untouched, payVars, moneyVars, sendVars
<1>2. "pc" \in DOMAIN Reads /\ Reads.pc = "Decide"
    BY DEF Reads
<1>3. Moves(p) /\ proc'[p].pc = "Decide"
    BY <1>1, <1>2, PutMoves DEF PaymentInv
<1>4. calls[p].call \in Decisions \union {"put"} /\ UNCHANGED calls
    BY DEF Ask
<1>5. PaymentBacked(p)' /\ Ruled(p)'
    BY <1>3, <1>4, DecisionPut DEF Ruled, At, PolicySteps
<1>. QED
    BY <1>1, <1>3, <1>5, UntouchedKept, MovePreserves

LEMMA DecidePreserves ==
    ASSUME PaymentInv, NEW p \in Callers, Decide(p), UNCHANGED calls
    PROVE  PaymentInv'
<1>. DEFINE new == Decision(p)
<1>1. /\ policy' = new /\ approved' = (approved \/ new.external)
      /\ UNCHANGED <<calls, receipt, ledger, charged, recipients>>
    BY DEF Decide, moneyVars
<1>2. Calls(p, "put") => calls[p].policy.external \in BOOLEAN
    BY DEF PaymentInv, Shape, Sendable, Calls
<1>3. Calls(p, "approve") => new.external = TRUE
    BY DEF Decision, Enabled, Calls
<1>4. Calls(p, "put") => new = calls[p].policy
    BY DEF Decision, Calls
<1>. HIDE DEF new
<1>5. new.external => approved'
    BY <1>1
<1>6. approved => approved'
    BY <1>1
<1>7. Kept
    BY <1>1, <1>6 DEF Kept, PaymentInv, Shape
<1>8. RightsEarned'
    BY <1>1, <1>5, <1>6 DEF PaymentInv, RowsBacked, RightsEarned, Privileged, OpenedItself, Calls
<1>9. RowsBacked'
    BY <1>1, <1>8 DEF PaymentInv, RowsBacked, ReceiptsBacked, ReceiptsBooked, EntriesEarned
<1>10. Freed(new) => approved'
    BY <1>5 DEF Freed
<1>11. proc[p].pc \in PolicySteps
    BY DEF Decide, At, PolicySteps
<1>12. CASE ~Calls(p, "put") /\ Go(p, "SetStanding")
    <2>1. Moves(p) /\ proc'[p].pc = "SetStanding"
        BY <1>12, GoMoves DEF PaymentInv
    <2>2. Calls(p, "approve") => approved'
        BY <1>3, <1>5
    <2>3. Ruled(p)'
        BY <1>1, <1>11, <2>1, <2>2, Decides DEF Ruled, At, Calls
    <2>. QED
        BY <1>7, <1>9, <2>1, <2>3, DecisionPut, MovePreserves DEF PolicySteps
<1>13. CASE Calls(p, "put") /\ Go(p, "SyncAgents")
    <2>1. Moves(p) /\ proc'[p].pc = "SyncAgents"
        BY <1>13, GoMoves DEF PaymentInv
    <2>2. Ruled(p)'
        BY <1>1, <1>4, <1>10, <1>13, <2>1 DEF Ruled, At, Calls
    <2>. QED
        BY <1>7, <1>9, <2>1, <2>2, DecisionPut, MovePreserves DEF PolicySteps
<1>14. CASE Synced(p)
    BY <1>1, <1>7, <1>9, <1>10, <1>14, <1>11, SyncedRuled, MovePreserves DEF new
<1>. QED
    BY <1>12, <1>13, <1>14 DEF Decide

LEMMA SetStandingPreserves ==
    ASSUME PaymentInv, NEW p \in Callers, SetStanding(p) \/ RelaxAgents(p), UNCHANGED calls
    PROVE  PaymentInv'
<1>1. Untouched
    BY DEF SetStanding, RelaxAgents, Untouched, payVars, moneyVars, sendVars
<1>2. CASE Answer(p, "done")
    BY <1>1, <1>2, AnswerAside, AsidePreserves DEF Answers, PaymentInv
<1>3. proc[p].pc \in PolicySteps
    BY DEF SetStanding, RelaxAgents, At, PolicySteps
<1>4. ASSUME approved, NEW s \in {"RelaxAgents", "WriteOpen"}, Go(p, s)
      PROVE  PaymentInv'
    <2>1. Moves(p) /\ proc'[p].pc = s
        BY <1>4, GoMoves DEF PaymentInv
    <2>2. Ruled(p)'
        BY <1>1, <1>4, <1>3, <2>1, Decides DEF Ruled, At, Untouched
    <2>. QED
        BY <1>1, <2>1, <2>2, DecisionPut, UntouchedKept, MovePreserves DEF PolicySteps
<1>5. CASE SetStanding(p) /\ Calls(p, "approve") /\ Go(p, "RelaxAgents")
    BY <1>4, <1>5 DEF PaymentInv, DecisionsBacked, Ruled, SetStanding
<1>6. CASE RelaxAgents(p) /\ Go(p, "WriteOpen")
    BY <1>4, <1>6 DEF PaymentInv, DecisionsBacked, Ruled, RelaxAgents, At
<1>. QED
    BY <1>2, <1>5, <1>6 DEF SetStanding, RelaxAgents

LEMMA SyncAgentsPreserves ==
    ASSUME PaymentInv, NEW p \in Callers, SyncAgents(p), UNCHANGED calls
    PROVE  PaymentInv'
<1>1. Untouched /\ At(p, "SyncAgents")
    BY DEF SyncAgents, Untouched, payVars, moneyVars, sendVars
<1>2. Calls(p, "put") /\ (Freed(calls[p].policy) => approved)
    BY <1>1 DEF PaymentInv, DecisionsBacked, Ruled, At
<1>3. Decision(p) = calls[p].policy
    BY <1>2 DEF Decision, Calls
<1>4. CASE Go(p, "WriteList")
    <2>1. Moves(p) /\ proc'[p].pc = "WriteList"
        BY <1>4, GoMoves DEF PaymentInv
    <2>2. Ruled(p)'
        BY <1>1, <1>2, <2>1 DEF Ruled, At, Calls, Untouched
    <2>. QED
        BY <1>1, <2>1, <2>2, DecisionPut, UntouchedKept, MovePreserves DEF PolicySteps
<1>5. CASE Synced(p)
    BY <1>1, <1>2, <1>3, <1>5, SyncedRuled, UntouchedKept, MovePreserves
       DEF Untouched, At, PolicySteps
<1>. QED
    BY <1>4, <1>5 DEF SyncAgents

(* The agent's list is written: opened only where sending is allowed.      *)
LEMMA ListBacked ==
    ASSUME PaymentInv, NEW list, UpsertAgentPolicy(list), list = "open" => Privileged \/ OpenedItself,
           UNCHANGED <<calls, receipt, ledger, charged, policy, approved>>
    PROVE  Kept /\ RowsBacked'
BY DEF PaymentInv, Shape, Kept, RowsBacked, ReceiptsBacked, ReceiptsBooked, EntriesEarned,
       RightsEarned, Privileged, OpenedItself, Calls, UpsertAgentPolicy

LEMMA WriteListPreserves ==
    ASSUME PaymentInv, NEW p \in Callers, WriteList(p) \/ WriteOpen(p), UNCHANGED calls
    PROVE  PaymentInv'
<1>1. UNCHANGED <<calls, receipt, ledger, charged, policy, approved>>
    BY DEF WriteList, WriteOpen, moneyVars
<1>2. CASE WriteList(p)
    <2>1. Calls(p, "put") /\ (Freed(calls[p].policy) => approved)
        BY <1>2 DEF PaymentInv, DecisionsBacked, Ruled, At, WriteList
    <2>2. Decision(p) = calls[p].policy
        BY <2>1 DEF Decision, Calls
    <2>3. calls[p].policy.allow # "open"
        BY <2>1, PaymentAssumption DEF PaymentInv, Shape, Sendable, Calls
    <2>4. Kept /\ RowsBacked'
        BY <1>1, <1>2, <2>2, <2>3, ListBacked DEF WriteList
    <2>5. Synced(p) /\ (Freed(Decision(p)) => approved')
        BY <1>1, <1>2, <2>1, <2>2 DEF WriteList
    <2>. QED
        BY <1>2, <2>4, <2>5, SyncedRuled, MovePreserves DEF WriteList, At, PolicySteps
<1>3. CASE WriteOpen(p)
    <2>1. approved /\ Answer(p, "done")
        BY <1>3 DEF PaymentInv, DecisionsBacked, Ruled, At, WriteOpen
    <2>2. Kept /\ RowsBacked'
        BY <1>1, <1>3, <2>1, ListBacked DEF WriteOpen, Privileged
    <2>3. Moves(p) /\ PaymentBacked(p)' /\ Ruled(p)'
        BY <2>1, AnswerAside, AsideBacked DEF Answers, PaymentInv
    <2>. QED
        BY <2>2, <2>3, MovePreserves
<1>. QED
    BY <1>2, <1>3

LEMMA PutAgentPolicyPreserves ==
    ASSUME PaymentInv, NEW p \in Callers, PutAgentPolicy(p), UNCHANGED calls
    PROVE  PaymentInv'
<1>1. UNCHANGED <<calls, receipt, ledger, charged, policy, approved>>
    BY DEF PutAgentPolicy, moneyVars
<1>2. calls[p].list = "open" => OpenedItself
    BY DEF OpenedItself, PutAgentPolicy
<1>3. Kept /\ RowsBacked'
    BY <1>1, <1>2, ListBacked DEF PutAgentPolicy
<1>4. Moves(p) /\ PaymentBacked(p)' /\ Ruled(p)'
    BY AnswerAside, AsideBacked DEF PutAgentPolicy, Answers, PaymentInv
<1>. QED
    BY <1>3, <1>4, MovePreserves

-----------------------------------------------------------------------------
(* The theorem.                                                            *)

LEMMA InitBacked == Init => PaymentInv
<1>. SUFFICES ASSUME NEW w \in Workloads,
                     calls = [p \in Callers |-> IF p \in DOMAIN w.calls THEN w.calls[p] ELSE NoCall],
                     proc = [p \in Callers |-> Free], InitPayments(w.funds)
              PROVE  PaymentInv
    BY DEF Init
<1>1. Sendable(NoCall)
    BY DEF Sendable, NoCall
<1>2. \A p \in Callers : Sendable(calls[p])
    BY <1>1, CallAssumption
<1>3. \A p \in Callers : proc[p] = Free /\ Free.pc = "free" /\ "pc" \in DOMAIN Free
    BY DEF Free
<1>4. \A x \in Prints : receipt[x] = NoReceipt /\ NoReceipt.settle = "none" /\ NoReceipt.status = "none"
    BY DEF InitPayments, NoReceipt
<1>5. Shape
    BY <1>2, <1>3, NoReceiptTyped DEF Shape, InitPayments
<1>6. RightsEarned
    <2>1. recipients \in Allowlists /\ policy.external = FALSE
        BY PaymentAssumption DEF InitPayments
    <2>. QED
        BY <2>1, PaymentAssumption DEF RightsEarned, Privileged, OpenedItself, Calls
<1>7. RowsBacked
    BY <1>4, <1>6 DEF InitPayments, RowsBacked, ReceiptsBacked, ReceiptsBooked, EntriesEarned
<1>8. \A p \in Callers : PaymentBacked(p) /\ Ruled(p)
    BY <1>3 DEF PaymentBacked, Ruled, At, PaySteps, PolicySteps
<1>. QED
    BY <1>5, <1>7, <1>8 DEF PaymentInv, PaymentsBacked, DecisionsBacked

LEMMA PayVarsUntouched ==
    ASSUME UNCHANGED calls, UNCHANGED payVars
    PROVE  Untouched
BY DEF Untouched, payVars, moneyVars, sendVars

LEMMA WorkPreserves ==
    ASSUME PaymentInv, NEW p \in Callers, Work(p), UNCHANGED calls
    PROVE  PaymentInv'
<1>1. CASE PayStep(p)
    BY <1>1, PayStepPreserves
<1>2. CASE PolicyStep(p)
    BY <1>2, AskPreserves, DecidePreserves, SetStandingPreserves, SyncAgentsPreserves,
       WriteListPreserves DEF PolicyStep
<1>3. CASE PutAgentPolicy(p)
    BY <1>3, PutAgentPolicyPreserves
<1>4. CASE (SendStep(p) \/ SignupStep(p) \/ TokenStep(p) \/ AliasStep(p)) /\ UNCHANGED payVars
    <2>1. Aside(p)
        BY <1>4, OthersAside, AliasAside DEF PaymentInv
    <2>. QED
        BY <1>4, <2>1, PayVarsUntouched, AsidePreserves
<1>. QED
    BY <1>1, <1>2, <1>3, <1>4 DEF Work

LEMMA FailurePreserves ==
    ASSUME PaymentInv, NEW p \in Callers, Failure(p), UNCHANGED calls
    PROVE  PaymentInv'
<1>1. CASE FailPayment(p) \/ NoVerdict(p)
    BY <1>1, FailPaymentPreserves, NoVerdictPreserves
<1>2. CASE FailDecision(p)
    <2>1. Answer(p, "error") /\ UNCHANGED payVars
        BY <1>2 DEF FailDecision
    <2>. QED
        BY <2>1, PayVarsUntouched, AnswerAside, AsidePreserves DEF Answers, PaymentInv
<1>3. CASE /\ FailSignup(p) \/ Arrive(p) \/ FailSend(p) \/ FailToken(p) \/ FailAlias(p) \/ Crash(p)
           /\ UNCHANGED payVars
    BY <1>3, PayVarsUntouched, FailureAside, AsidePreserves DEF PaymentInv
<1>. QED
    BY <1>1, <1>2, <1>3 DEF Failure, Crash

LEMMA NextBacked == PaymentInv /\ [Next]_vars => PaymentInv'
<1>. SUFFICES ASSUME PaymentInv, [Next]_vars
              PROVE  PaymentInv'
    OBVIOUS
<1>1. CASE Next
    <2>1. PICK p \in Callers : Work(p) \/ Failure(p)
        BY <1>1 DEF Next
    <2>. QED
        BY <1>1, <2>1, WorkPreserves, FailurePreserves DEF Next
<1>2. CASE UNCHANGED vars
    BY <1>2 DEF vars, payVars, moneyVars, sendVars, PaymentInv, Shape, RowsBacked, ReceiptsBacked,
                ReceiptsBooked, EntriesEarned,
                RightsEarned, Privileged, OpenedItself, Calls, PaymentsBacked, PaymentBacked, Backed,
                DecisionsBacked, Ruled, At, Calls
<1>. QED
    BY <1>1, <1>2

(* Every entry of a tenant's credit ledger has a payer who was charged,    *)
(* and a receipt that is settled has its entry, however many requests      *)
(* confirm it, fail in between or die.                                     *)
(* (confirmPaymentReceiptWithFacilitator, finalizePaymentReceiptSettlement)*)
THEOREM CreditsAreEarned == Spec => [](EntriesEarned /\ ReceiptsBooked)
<1>1. PaymentInv => EntriesEarned /\ ReceiptsBooked
    BY DEF PaymentInv, RowsBacked
<1>. QED
    BY <1>1, InitBacked, NextBacked, PTL DEF Spec

(* A tenant may send to others, and its agent to any domain unless its     *)
(* customer emptied the list, only if an operator allowed that or an       *)
(* upgrade was charged.                                                    *)
(* (finalizePaymentReceiptSettlement, applyTenantReviewDecision, PUT       *)
(* /v1/tenants/:tenantId/send-policy)                                      *)
THEOREM SendingIsEarned == Spec => []RightsEarned
<1>1. PaymentInv => RightsEarned
    BY DEF PaymentInv, RowsBacked
<1>. QED
    BY <1>1, InitBacked, NextBacked, PTL DEF Spec

-----------------------------------------------------------------------------
(* Suspensions: the inductive invariant.                                   *)

(* What a request still does with a receipt that is settled and booked: it *)
(* shows it again, and may restore the balance on the way.                 *)
Showing == {"Begin", "Finalize", "Sum", "Credit", "Refresh"}
ShowsAgain(p) ==
    \/ At(p, "Lookup")
    \/ proc[p].pc \in Showing /\ Copy(p).status = "settled" /\ Calls(p, "confirm")

PaymentClosed(p) == proc[p].pc \in PaySteps /\ Mine(p) \in closed => ShowsAgain(p)
ReceiptsClosed == closed \subseteq Prints /\ \A x \in closed : receipt[x].status = "settled"
PaymentsClosed == \A p \in Callers : PaymentClosed(p)

(* A request to send is at one of its steps; one that has found the tenant *)
(* suspended throughout has read that, or needs no permission.             *)
SendPlaces == SendSteps \union Answers \union {"free"}
SendBarred(p) ==
    Calls(p, "send") =>
      /\ proc[p].pc \in SendPlaces
      /\ proc[p].pc \in {"Route", "ReadStanding", "Judge"} => "tenant" \in DOMAIN proc[p]
      /\ p \in barred =>
           /\ ~At(p, "ReadAgent")
           /\ At(p, "Judge") => proc[p].tenant.status = "suspended"
           /\ proc[p].pc \in {"RouteAgain", "Balance"} => Outside(p) = {}
SendsBarred == barred \subseteq Callers /\ \A p \in Callers : SendBarred(p)

SuspensionInv == PaymentInv /\ ReceiptsClosed /\ PaymentsClosed /\ SendsBarred

-----------------------------------------------------------------------------
(* Requests to send.                                                       *)

(* No other step is one of a request to send.                              *)
LEMMA OnlySends ==
    ASSUME NEW p \in Callers, Calls(p, "send"), proc[p].pc \in SendPlaces, Work(p) \/ Failure(p)
    PROVE  SendStep(p) \/ FailSend(p) \/ Crash(p)
<1>. USE DEF SendPlaces, SendSteps, Answers, At, Calls
<1>1. ~PayStep(p)
    <2>1. ~Topup(p) /\ ~UpgradeIntent(p) /\ ~Confirm(p) /\ ~Repeat(p)
        BY DEF Topup, UpgradeIntent, Confirm, Repeat
    <2>2. ~LookUp(p, "Lookup") /\ ~LookUp(p, "Relook") /\ ~Create(p) /\ ~Begin(p)
        BY DEF LookUp, Create, Begin
    <2>3. ~Verify(p) /\ ~WriteVerified(p) /\ ~WriteFailed(p) /\ ~Settle(p) /\ ~WriteSettled(p)
        BY DEF Verify, WriteVerified, WriteFailed, Settle, WriteSettled
    <2>4. ~WriteRefused(p) /\ ~Finalize(p) /\ ~Grant(p) /\ ~Account(p) /\ ~Profile(p)
        BY DEF WriteRefused, Finalize, Grant, Account, Profile
    <2>5. ~ReadPolicy(p) /\ ~Enable(p) /\ ~RelaxUpgraded(p) /\ ~Open(p)
        BY DEF ReadPolicy, Enable, RelaxUpgraded, Open
    <2>6. ~Sum(p) /\ ~Credit(p) /\ ~Mark(p) /\ ~Refresh(p)
        BY DEF Sum, Credit, Mark, Refresh
    <2>. QED
        BY <2>1, <2>2, <2>3, <2>4, <2>5, <2>6 DEF PayStep
<1>2. ~PolicyStep(p) /\ ~PutAgentPolicy(p)
    BY DEF PolicyStep, PutAgentPolicy, Ask, Decide, SetStanding, SyncAgents, WriteList, RelaxAgents,
           WriteOpen, Decisions
<1>3. ~SignupStep(p)
    <2>1. ~Start(p) /\ ~Check(p) /\ ~Routing(p) /\ ~Provision(p) /\ ~Allow(p)
        BY DEF Start, Check, Routing, Provision, Allow
    <2>2. ~WriteDraft(p) /\ ~Enqueue(p) /\ ~DropDraft(p) /\ ~Keys(p) /\ ~Blobs(p) /\ ~Clean(p)
        BY DEF WriteDraft, Enqueue, DropDraft, Keys, Blobs, Clean
    <2>. QED
        BY <2>1, <2>2 DEF SignupStep
<1>4. ~TokenStep(p)
    <2>1. ~Reissue(p) /\ ~Rotate(p) /\ ~Mint(p) /\ ~Change(p)
        BY DEF Reissue, Rotate, Rotating, Mint, Minting, Change, Changing
    <2>2. ~Recent(p) /\ ~ByIp(p) /\ ~Target(p) /\ ~Operator(p)
        BY DEF Recent, ByIp, Target, Operator
    <2>3. ~Binding(p) /\ ~AnyBinding(p) /\ ~Deployment(p) /\ ~Claims(p)
        BY DEF Binding, AnyBinding, Deployment, Claims
    <2>4. ~Deliver(p) /\ ~Sender(p) /\ ~MailDraft(p) /\ ~MailQueue(p) /\ ~MailUndo(p) /\ ~Log(p)
        BY DEF Deliver, Sender, MailDraft, MailQueue, MailUndo, Log
    <2>. QED
        BY <2>1, <2>2, <2>3, <2>4 DEF TokenStep
<1>5. ~AliasStep(p)
    <2>1. ~Begins(p) /\ ~List(p) /\ ~Box(p) /\ ~Activate(p) /\ ~Rule(p)
        BY DEF Begins, Maintains, List, Box, Activate, Rule
    <2>2. ~Undo(p) /\ ~OwnBox(p) /\ ~Deactivate(p) /\ ~DeleteRule(p) /\ ~Restore(p) /\ ~Redundant(p)
        BY DEF Undo, OwnBox, Deactivate, DeleteRule, Restore, Redundant
    <2>. QED
        BY <2>1, <2>2 DEF AliasStep
<1>6. ~FailPayment(p) /\ ~NoVerdict(p) /\ ~FailDecision(p)
    BY DEF FailPayment, Guarded, PaySteps, NoVerdict, FailDecision, PolicySteps
<1>7. ~FailSignup(p) /\ ~Arrive(p) /\ ~FailToken(p) /\ ~FailAlias(p)
    BY DEF FailSignup, SignupSteps, Arrive, FailToken, TokenSteps, FailAlias, AliasSteps
<1>. QED
    BY <1>1, <1>2, <1>3, <1>4, <1>5, <1>6, <1>7 DEF Work, Failure

LEMMA BarredBefore ==
    ASSUME NEW p \in Callers, Bar, p \in barred'
    PROVE  Forbidden(p) /\ (p \in barred \/ At(p, "free"))
BY DEF Bar

(* A request to send reads the suspension it is barred by.                 *)
LEMMA SendStepBarred ==
    ASSUME PaymentInv, NEW p \in Callers, SendBarred(p), SendStep(p), Calls(p, "send"), Bar,
           UNCHANGED calls
    PROVE  SendBarred(p)'
<1>. USE DEF At, Calls
<1>1. Shape /\ "pc" \in DOMAIN proc[p] /\ calls' = calls
    BY DEF PaymentInv, Shape
<1>2. Outside(p)' = Outside(p)
    BY <1>1 DEF Outside, Recipients
<1>3. proc[p].pc # "free" /\ p \in barred' => p \in barred
    BY BarredBefore
<1>4. ASSUME NEW s \in SendPlaces \ {"Judge", "ReadAgent"}, proc'[p].pc = s,
             s \in {"Route", "ReadStanding"} => "tenant" \in DOMAIN proc'[p],
             s \in {"RouteAgain", "Balance"} /\ p \in barred' => Outside(p) = {}
      PROVE  SendBarred(p)'
    BY <1>2, <1>4 DEF SendBarred
<1>5. ASSUME NEW a \in Answers, Answer(p, a)
      PROVE  SendBarred(p)'
    <2>1. proc'[p].pc = a
        BY <1>1, <1>5, PutMoves DEF Answer
    <2>. QED
        BY <1>4, <2>1 DEF SendPlaces, Answers
<1>6. CASE SendBegins(p)
    <2>. DEFINE r == [pc |-> "Route", ext |-> {}, tenant |-> policy, credits |-> FALSE]
    <2>1. {"pc", "tenant"} \subseteq DOMAIN r /\ r.pc = "Route" /\ Put(p, r)
        BY <1>6 DEF SendBegins
    <2>2. proc'[p].pc = "Route" /\ "tenant" \in DOMAIN proc'[p]
        BY <1>1, <2>1, PutMoves
    <2>. QED
        BY <1>4, <2>2 DEF SendPlaces, SendSteps
<1>7. CASE Route(p)
    <2>1. CASE Answer(p, "refused")
        BY <1>5, <2>1 DEF Answers
    <2>2. CASE External(p) = {} /\ Go(p, "RouteAgain")
        <3>1. Outside(p) = {}
            BY <2>2 DEF External, Outside
        <3>2. proc'[p].pc = "RouteAgain"
            BY <1>1, <2>2, GoMoves
        <3>. QED
            BY <1>4, <3>1, <3>2 DEF SendPlaces, SendSteps
    <2>3. CASE Put(p, [proc[p] EXCEPT !.ext = External(p), !.pc = "ReadStanding"])
        <3>. DEFINE r == [proc[p] EXCEPT !.ext = External(p), !.pc = "ReadStanding"]
        <3>1. {"pc", "tenant"} \subseteq DOMAIN r /\ r.pc = "ReadStanding"
            BY <1>1, <1>7 DEF SendBarred, Route
        <3>2. proc'[p].pc = "ReadStanding" /\ "tenant" \in DOMAIN proc'[p]
            BY <1>1, <2>3, <3>1, PutMoves
        <3>. QED
            BY <1>4, <3>2 DEF SendPlaces, SendSteps
    <2>. QED
        BY <1>7, <2>1, <2>2, <2>3 DEF Route
<1>8. CASE ReadStanding(p)
    <2>. DEFINE r == [proc[p] EXCEPT !.tenant = policy, !.pc = "Judge"]
    <2>1. {"pc", "tenant"} \subseteq DOMAIN proc[p]
        BY <1>1, <1>8 DEF SendBarred, ReadStanding
    <2>2. DOMAIN r = DOMAIN proc[p] /\ r.pc = "Judge" /\ r.tenant = policy
        BY <2>1
    <2>3. proc'[p] = r
        BY <1>1, <1>8, <2>1, <2>2, PutMoves DEF ReadStanding
    <2>4. p \in barred' => policy.status = "suspended"
        BY BarredBefore DEF Forbidden, Minting
    <2>. HIDE DEF r
    <2>. QED
        BY <1>2, <2>1, <2>2, <2>3, <2>4 DEF SendBarred, SendPlaces, SendSteps
<1>9. CASE Judge(p)
    <2>1. CASE Answer(p, "refused")
        BY <1>5, <2>1 DEF Answers
    <2>2. CASE ~Answer(p, "refused")
        <3>. DEFINE c == available + funds.held > 0
                    r == [proc[p] EXCEPT !.credits = c, !.pc = "ReadAgent"]
        <3>1. Put(p, r) /\ Unlocked(proc[p].tenant, c)
            BY <1>9, <2>2 DEF Judge
        <3>. HIDE DEF c
        <3>2. "pc" \in DOMAIN r /\ r.pc = "ReadAgent"
            BY <1>1
        <3>. HIDE DEF r
        <3>3. proc'[p].pc = "ReadAgent"
            BY <1>1, <3>1, <3>2, PutMoves
        <3>4. p \notin barred'
            BY <1>3, <1>9, <3>1 DEF Judge, Unlocked, SendBarred
        <3>. QED
            BY <3>3, <3>4 DEF SendBarred, SendPlaces, SendSteps
    <2>. QED
        BY <2>1, <2>2
<1>10. CASE ReadAgent(p)
    <2>1. p \notin barred'
        BY <1>3, <1>10 DEF ReadAgent, SendBarred
    <2>2. CASE Go(p, "RouteAgain")
        <3>1. proc'[p].pc = "RouteAgain"
            BY <1>1, <2>2, GoMoves
        <3>. QED
            BY <1>4, <2>1, <3>1 DEF SendPlaces, SendSteps
    <2>. QED
        BY <1>5, <1>10, <2>2 DEF ReadAgent, Answers
<1>11. CASE RouteAgain(p)
    <2>1. CASE Go(p, "Balance")
        <3>1. proc'[p].pc = "Balance"
            BY <1>1, <2>1, GoMoves
        <3>2. p \in barred' => Outside(p) = {}
            BY <1>3, <1>11 DEF RouteAgain, SendBarred
        <3>. QED
            BY <1>4, <3>1, <3>2 DEF SendPlaces, SendSteps
    <2>. QED
        BY <1>5, <1>11, <2>1 DEF RouteAgain, Answers
<1>12. CASE Balance(p)
    BY <1>5, <1>12 DEF Balance, Answers
<1>. QED
    BY <1>6, <1>7, <1>8, <1>9, <1>10, <1>11, <1>12 DEF SendStep

LEMMA SendsPreserved ==
    ASSUME PaymentInv, SendsBarred, NEW p \in Callers, Work(p) \/ Failure(p), Bar, UNCHANGED calls,
           Moves(p)
    PROVE  SendsBarred'
<1>1. ASSUME NEW q \in Callers, q # p
      PROVE  SendBarred(q)'
    <2>1. proc'[q] = proc[q] /\ calls' = calls
        BY <1>1 DEF Moves
    <2>2. q \in barred' => q \in barred \/ At(q, "free")
        BY BarredBefore
    <2>. QED
        BY <2>1, <2>2 DEF SendsBarred, SendBarred, At, Calls, Outside, Recipients
<1>2. ASSUME Calls(p, "send")
      PROVE  SendBarred(p)'
    <2>1. SendBarred(p)
        BY DEF SendsBarred
    <2>2. SendStep(p) \/ FailSend(p) \/ Crash(p)
        BY <1>2, <2>1, OnlySends DEF SendBarred
    <2>3. ASSUME NEW a \in {"error", "crashed"}, Answer(p, a)
          PROVE  SendBarred(p)'
        <3>1. proc'[p].pc = a
            BY <2>3, PutMoves DEF Answer, PaymentInv
        <3>. QED
            BY <3>1 DEF SendBarred, SendPlaces, Answers, At
    <2>. QED
        BY <1>2, <2>1, <2>2, <2>3, SendStepBarred DEF FailSend, Crash
<1>3. SendBarred(p)'
    <2>1. CASE Calls(p, "send")
        BY <1>2, <2>1
    <2>2. CASE ~Calls(p, "send")
        BY <2>2 DEF SendBarred, Calls
    <2>. QED
        BY <2>1, <2>2
<1>. QED
    BY <1>1, <1>3 DEF SendsBarred, Bar

(* A message to others is not permitted by a request that was barred.      *)
LEMMA BarredSendsRefused ==
    ASSUME PaymentInv, SendsBarred, NEW p \in Callers, Work(p) \/ Failure(p), Moves(p),
           NEW q \in barred, q \in Callers, Calls(q, "send"), ~At(q, "done"), At(q, "done")'
    PROVE  Outside(q) = {}
<1>1. q = p
    BY DEF Moves, At
<1>2. SendBarred(p)
    BY DEF SendsBarred
<1>3. SendStep(p) \/ FailSend(p) \/ Crash(p)
    BY <1>1, <1>2, OnlySends DEF SendBarred
<1>4. Shape /\ proc'[p].pc = "done"
    BY <1>1 DEF PaymentInv, At
<1>5. ~FailSend(p) /\ ~Crash(p)
    <2>1. ASSUME NEW a \in {"error", "crashed"}, Answer(p, a)
          PROVE  FALSE
        BY <1>4, <2>1, PutMoves DEF Answer
    <2>. QED
        BY <2>1 DEF FailSend, Crash
<1>6. ~SendBegins(p) /\ ~Route(p) /\ ~ReadStanding(p)
    <2>1. ASSUME NEW r, Put(p, r), "pc" \in DOMAIN r, r.pc # "done"
          PROVE  FALSE
        BY <1>4, <2>1, PutMoves
    <2>2. ~Answer(p, "refused") /\ ~Go(p, "RouteAgain")
        <3>1. ~Answer(p, "refused")
            BY <2>1 DEF Answer
        <3>2. ASSUME Go(p, "RouteAgain")
              PROVE  FALSE
            <4>1. proc'[p].pc = "RouteAgain"
                BY <1>4, <3>2, GoMoves
            <4>. QED
                BY <1>4, <4>1
        <3>. QED
            BY <3>1, <3>2
    <2>3. ~SendBegins(p)
        BY <2>1 DEF SendBegins
    <2>4. ~Route(p)
        <3>. DEFINE r == [proc[p] EXCEPT !.ext = External(p), !.pc = "ReadStanding"]
        <3>1. "pc" \in DOMAIN r /\ r.pc = "ReadStanding"
            BY <1>4 DEF Shape
        <3>2. ~Put(p, r)
            BY <2>1, <3>1
        <3>. QED
            BY <2>2, <3>2 DEF Route
    <2>5. ~ReadStanding(p)
        <3>. DEFINE r == [proc[p] EXCEPT !.tenant = policy, !.pc = "Judge"]
        <3>1. "pc" \in DOMAIN r /\ r.pc = "Judge"
            BY <1>4 DEF Shape
        <3>2. ~Put(p, r)
            BY <2>1, <3>1
        <3>. QED
            BY <3>2 DEF ReadStanding
    <2>. QED
        BY <2>3, <2>4, <2>5
<1>7. ~Judge(p) /\ ~ReadAgent(p)
    <2>1. ~ReadAgent(p)
        BY <1>1, <1>2 DEF ReadAgent, SendBarred
    <2>2. ~Judge(p)
        <3>1. At(p, "Judge") => ~Unlocked(proc[p].tenant, available + funds.held > 0)
            BY <1>1, <1>2 DEF SendBarred, Unlocked
        <3>2. ~Answer(p, "refused")
            BY <1>4, PutMoves DEF Answer
        <3>. QED
            BY <3>1, <3>2 DEF Judge
    <2>. QED
        BY <2>1, <2>2
<1>8. CASE RouteAgain(p) \/ Balance(p)
    BY <1>1, <1>2, <1>8 DEF RouteAgain, Balance, At, SendBarred
<1>. QED
    BY <1>3, <1>5, <1>6, <1>7, <1>8 DEF SendStep

-----------------------------------------------------------------------------
(* Payments.                                                               *)

ClosedInv == PaymentInv /\ ReceiptsClosed /\ PaymentsClosed

(* A step of p that is not, or no longer, one of a payment.                *)
LEMMA OthersClosed ==
    ASSUME ClosedInv, NEW p \in Callers, Moves(p), proc'[p].pc \notin PaySteps,
           UNCHANGED <<calls, receipt, closed>>
    PROVE  ReceiptsClosed' /\ PaymentsClosed'
<1>1. ASSUME NEW q \in Callers
      PROVE  PaymentClosed(q)'
    <2>1. CASE q = p
        BY <2>1 DEF PaymentClosed
    <2>2. CASE q # p
        <3>1. proc'[q] = proc[q]
            BY <2>2 DEF Moves
        <3>. QED
            BY <3>1 DEF ClosedInv, PaymentsClosed, PaymentClosed, ShowsAgain, Mine, Copy, At, Calls
    <2>. QED
        BY <2>1, <2>2
<1>. QED
    BY <1>1 DEF ClosedInv, ReceiptsClosed, PaymentsClosed

(* A step of a payment on another receipt than the closed ones.            *)
OwnReceipt(p) ==
    /\ Moves(p)
    /\ proc'[p].pc \in PaySteps => Mine(p)' = Mine(p)
    /\ \A x \in Prints : x # Mine(p) => receipt'[x] = receipt[x]

LEMMA OpenPaymentClosed ==
    ASSUME ClosedInv, NEW p \in Callers, Mine(p) \notin closed, OwnReceipt(p),
           UNCHANGED <<calls, closed>>
    PROVE  ReceiptsClosed' /\ PaymentsClosed'
<1>1. ASSUME NEW q \in Callers
      PROVE  PaymentClosed(q)'
    <2>1. CASE q = p
        BY <2>1 DEF PaymentClosed, OwnReceipt
    <2>2. CASE q # p
        <3>1. proc'[q] = proc[q]
            BY <2>2 DEF Moves, OwnReceipt
        <3>. QED
            BY <3>1 DEF ClosedInv, PaymentsClosed, PaymentClosed, ShowsAgain, Mine, Copy, At, Calls
    <2>. QED
        BY <2>1, <2>2
<1>2. \A x \in closed : receipt'[x] = receipt[x]
    BY DEF ClosedInv, ReceiptsClosed, OwnReceipt
<1>. QED
    BY <1>1, <1>2 DEF ClosedInv, ReceiptsClosed, PaymentsClosed

LEMMA GoOwn ==
    ASSUME PaymentInv, NEW p \in Callers, proc[p].pc \in PaySteps, NEW s, Go(p, s)
    PROVE  Moves(p) /\ Mine(p)' = Mine(p) /\ Copy(p)' = Copy(p) /\ proc'[p].pc = s
<1>. DEFINE r == [proc[p] EXCEPT !.pc = s]
<1>1. {"pc", "print", "copy"} \subseteq DOMAIN proc[p] /\ Shape
    BY AtPayment DEF IsPayment, PaymentInv
<1>2. "pc" \in DOMAIN r /\ r.pc = s /\ r.print = proc[p].print /\ r.copy = proc[p].copy
    BY <1>1
<1>3. Put(p, r)
    BY DEF Go
<1>. HIDE DEF r
<1>4. Moves(p) /\ proc'[p] = r
    BY <1>1, <1>2, <1>3, PutMoves
<1>. QED
    BY <1>2, <1>4 DEF Mine, Copy

LEMMA AnswerMoves ==
    ASSUME PaymentInv, NEW p \in Callers, NEW a \in Answers, Answer(p, a)
    PROVE  Moves(p) /\ proc'[p].pc = a /\ proc'[p].pc \notin PaySteps
BY AnswerAside, PutMoves DEF Answer, Aside, PaymentInv

(* A new record of a payment that is for the same receipt.                 *)
LEMMA PutOwn ==
    ASSUME PaymentInv, NEW p \in Callers, NEW q, Put(p, q), "pc" \in DOMAIN q, q.print = Mine(p)
    PROVE  Moves(p) /\ Mine(p)' = Mine(p)
BY PutMoves DEF Mine, PaymentInv

LEMMA WriteOwn ==
    ASSUME PaymentInv, NEW p \in Callers, NEW status, NEW settle, WriteReceipt(p, status, settle)
    PROVE  \A x \in Prints : x # Mine(p) => receipt'[x] = receipt[x]
BY DEF WriteReceipt, PaymentInv, Shape

(* The steps of a payment that has begun.                                  *)
PayOn(p) ==
    \/ LookUp(p, "Lookup") \/ LookUp(p, "Relook") \/ Create(p) \/ Begin(p)
    \/ Verify(p) \/ WriteVerified(p) \/ WriteFailed(p)
    \/ Settle(p) \/ WriteSettled(p) \/ WriteRefused(p)
    \/ Finalize(p) \/ Grant(p) \/ Account(p) \/ Profile(p)
    \/ ReadPolicy(p) \/ Enable(p) \/ RelaxUpgraded(p) \/ Open(p)
    \/ Sum(p) \/ Credit(p) \/ Mark(p) \/ Refresh(p)
    \/ FailPayment(p) \/ NoVerdict(p)

LEMMA PayOnOwn ==
    ASSUME PaymentInv, NEW p \in Callers, PayOn(p)
    PROVE  OwnReceipt(p) /\ proc[p].pc \in PaySteps /\ UNCHANGED closed
<1>1. proc[p].pc \in PaySteps
    BY DEF PayOn, LookUp, Create, Begin, Verify, WriteVerified, WriteFailed, Settle, WriteSettled,
           WriteRefused, Finalize, Grant, Account, Profile, ReadPolicy, Enable, RelaxUpgraded, Open,
           Sum, Credit, Mark, Refresh, FailPayment, Guarded, NoVerdict, At, PaySteps
<1>2. IsPayment(proc[p]) /\ {"pc", "print", "copy"} \subseteq DOMAIN proc[p] /\ Mine(p) = proc[p].print
    BY <1>1, AtPayment DEF IsPayment, Mine
<1>3. ASSUME NEW s, Go(p, s)
      PROVE  Moves(p) /\ Mine(p)' = Mine(p)
    BY <1>1, <1>3, GoOwn
<1>4. ASSUME NEW a \in {"done", "refused", "error"}, Answer(p, a)
      PROVE  Moves(p) /\ proc'[p].pc \notin PaySteps
    BY <1>4, AnswerMoves DEF Answers
<1>5. CASE LookUp(p, "Lookup") \/ LookUp(p, "Relook")
    <2>. DEFINE q == [proc[p] EXCEPT !.copy = receipt[Mine(p)], !.pc = "Begin"]
    <2>1. "pc" \in DOMAIN q /\ q.print = Mine(p)
        BY <1>2
    <2>2. Put(p, q) => Moves(p) /\ Mine(p)' = Mine(p)
        BY <2>1, PutOwn
    <2>3. UNCHANGED <<receipt, closed>>
        BY <1>5 DEF LookUp, sendVars
    <2>4. \/ Put(p, q) \/ Go(p, "Create") \/ Answer(p, "done") \/ Answer(p, "error")
        BY <1>5 DEF LookUp, Take, Replay
    <2>. HIDE DEF q
    <2>. QED
        BY <1>1, <1>3, <1>4, <2>2, <2>3, <2>4 DEF OwnReceipt
<1>6. CASE Create(p)
    <2>. DEFINE q == [proc[p] EXCEPT !.copy = Pending, !.pc = "Begin"]
    <2>1. "pc" \in DOMAIN q /\ q.print = Mine(p)
        BY <1>2
    <2>2. Put(p, q) => Moves(p) /\ Mine(p)' = Mine(p)
        BY <2>1, PutOwn
    <2>3. closed' = closed /\ \A x \in Prints : x # Mine(p) => receipt'[x] = receipt[x]
        BY <1>6 DEF Create, sendVars, PaymentInv, Shape
    <2>4. \/ Put(p, q) \/ Go(p, "Relook")
        BY <1>6 DEF Create, Take
    <2>. HIDE DEF q
    <2>. QED
        BY <1>1, <1>3, <2>2, <2>3, <2>4 DEF OwnReceipt
<1>7. CASE Begin(p)
    <2>. DEFINE b == Mine(p) \in ledger
                s == NextStep(p, Copy(p))
                q == [proc[p] EXCEPT !.had = b, !.pc = s]
    <2>1. Answer(p, "refused") \/ Put(p, q)
        BY <1>7 DEF Begin
    <2>. HIDE DEF b, s
    <2>2. "pc" \in DOMAIN q /\ q.print = Mine(p)
        BY <1>2
    <2>3. Put(p, q) => Moves(p) /\ Mine(p)' = Mine(p)
        BY <2>2, PutOwn
    <2>4. UNCHANGED <<receipt, closed>>
        BY <1>7 DEF Begin, payVars, moneyVars, sendVars
    <2>. HIDE DEF q
    <2>. QED
        BY <1>1, <1>4, <2>1, <2>3, <2>4 DEF OwnReceipt
<1>8. CASE WriteVerified(p)
    <2>. DEFINE q == [proc[p] EXCEPT !.copy.status = "verified", !.pc = "Settle"]
    <2>1. "pc" \in DOMAIN q /\ q.print = Mine(p) /\ Put(p, q)
        BY <1>2, <1>8 DEF WriteVerified
    <2>2. closed' = closed /\ \A x \in Prints : x # Mine(p) => receipt'[x] = receipt[x]
        BY <1>8, WriteOwn DEF WriteVerified, sendVars
    <2>. HIDE DEF q
    <2>. QED
        BY <1>1, <2>1, <2>2, PutOwn DEF OwnReceipt
<1>9. CASE WriteSettled(p)
    <2>. DEFINE q == [proc[p] EXCEPT !.copy = [status |-> "verified", settle |-> "settled"],
                                     !.pc = "Finalize"]
    <2>1. "pc" \in DOMAIN q /\ q.print = Mine(p) /\ Put(p, q)
        BY <1>2, <1>9 DEF WriteSettled
    <2>2. closed' = closed /\ \A x \in Prints : x # Mine(p) => receipt'[x] = receipt[x]
        BY <1>9, WriteOwn DEF WriteSettled, sendVars
    <2>. HIDE DEF q
    <2>. QED
        BY <1>1, <2>1, <2>2, PutOwn DEF OwnReceipt
<1>10. CASE WriteFailed(p) \/ WriteRefused(p) \/ Mark(p)
    <2>1. closed' = closed /\ \A x \in Prints : x # Mine(p) => receipt'[x] = receipt[x]
        BY <1>10, WriteOwn DEF WriteFailed, WriteRefused, Mark, sendVars
    <2>2. Answer(p, "refused") \/ Answer(p, "done")
        BY <1>10 DEF WriteFailed, WriteRefused, Mark
    <2>. QED
        BY <1>1, <1>4, <2>1, <2>2 DEF OwnReceipt
<1>11. CASE Verify(p) \/ Settle(p) \/ Finalize(p) \/ Grant(p)
    <2>1. UNCHANGED <<receipt, closed>>
        BY <1>11 DEF Verify, Settle, Finalize, Grant, payVars, moneyVars, sendVars
    <2>2. \E s : Go(p, s)
        BY <1>11 DEF Verify, Settle, Finalize, Grant
    <2>. QED
        BY <1>1, <1>3, <2>1, <2>2 DEF OwnReceipt
<1>12. CASE Profile(p) \/ Enable(p) \/ RelaxUpgraded(p) \/ Open(p) \/ Credit(p)
    <2>1. UNCHANGED <<receipt, closed>>
        BY <1>12 DEF Profile, Enable, RelaxUpgraded, Open, Credit, payVars, moneyVars, sendVars
    <2>2. Answer(p, "done") \/ \E s : Go(p, s)
        BY <1>12 DEF Profile, Enable, RelaxUpgraded, Open, Credit
    <2>. QED
        BY <1>1, <1>3, <1>4, <2>1, <2>2 DEF OwnReceipt
<1>13. CASE Account(p) \/ ReadPolicy(p) \/ Sum(p)
    <2>. DEFINE total == Total
                q == [proc[p] EXCEPT !.was = standing, !.pc = "Profile"]
                r == [proc[p] EXCEPT !.list = policy.allow, !.pc = "Enable"]
                t == [proc[p] EXCEPT !.sum = total, !.pc = "Credit"]
    <2>1. Put(p, q) \/ Put(p, r) \/ Put(p, t)
        BY <1>13 DEF Account, ReadPolicy, Sum
    <2>. HIDE DEF total
    <2>2. /\ "pc" \in DOMAIN q /\ q.print = Mine(p)
          /\ "pc" \in DOMAIN r /\ r.print = Mine(p)
          /\ "pc" \in DOMAIN t /\ t.print = Mine(p)
        BY <1>2
    <2>3. UNCHANGED <<receipt, closed>>
        BY <1>13 DEF Account, ReadPolicy, Sum, payVars, moneyVars, sendVars
    <2>. HIDE DEF q, r, t
    <2>. QED
        BY <1>1, <2>1, <2>2, <2>3, PutOwn DEF OwnReceipt
<1>14. CASE Refresh(p)
    <2>. DEFINE r == receipt[Mine(p)]
                s == NextStep(p, r)
                q == [proc[p] EXCEPT !.copy = r, !.again = TRUE, !.pc = s]
    <2>1. Answer(p, "error") \/ Answer(p, "refused") \/ Put(p, q)
        BY <1>14 DEF Refresh
    <2>. HIDE DEF r, s
    <2>2. "pc" \in DOMAIN q /\ q.print = Mine(p)
        BY <1>2
    <2>3. Put(p, q) => Moves(p) /\ Mine(p)' = Mine(p)
        BY <2>2, PutOwn
    <2>4. UNCHANGED <<receipt, closed>>
        BY <1>14 DEF Refresh, sendVars
    <2>. HIDE DEF q
    <2>. QED
        BY <1>1, <1>4, <2>1, <2>3, <2>4 DEF OwnReceipt
<1>15. CASE FailPayment(p)
    <2>1. Go(p, "Refresh") \/ Go(p, "Relook") \/ Answer(p, "error")
        BY <1>15 DEF FailPayment
    <2>2. UNCHANGED closed
        BY <1>15 DEF FailPayment, payVars, sendVars
    <2>3. \/ UNCHANGED receipt
          \/ receipt' = [receipt EXCEPT ![Mine(p)] = Pending]
          \/ \E status, settle : WriteReceipt(p, status, settle)
        BY <1>15 DEF FailPayment, payVars, moneyVars
    <2>4. \A x \in Prints : x # Mine(p) => receipt'[x] = receipt[x]
        BY <2>3, WriteOwn DEF PaymentInv, Shape
    <2>. QED
        BY <1>1, <1>3, <1>4, <2>1, <2>2, <2>4 DEF OwnReceipt
<1>16. CASE NoVerdict(p)
    <2>1. UNCHANGED <<receipt, closed>> /\ (Go(p, "WriteFailed") \/ Go(p, "WriteRefused"))
        BY <1>16 DEF NoVerdict, sendVars
    <2>. QED
        BY <1>1, <1>3, <2>1 DEF OwnReceipt
<1>. QED
    BY <1>5, <1>6, <1>7, <1>8, <1>9, <1>10, <1>11, <1>12, <1>13, <1>14, <1>15, <1>16 DEF PayOn

(* A step of a payment whose receipt is closed: it changes no receipt, and *)
(* the payment still shows the receipt again or is over.                   *)
LEMMA ShownPaymentClosed ==
    ASSUME ClosedInv, NEW p \in Callers, Moves(p), UNCHANGED <<calls, receipt, closed>>,
           proc'[p].pc \in PaySteps => ShowsAgain(p)'
    PROVE  ReceiptsClosed' /\ PaymentsClosed'
<1>1. ASSUME NEW q \in Callers
      PROVE  PaymentClosed(q)'
    <2>1. CASE q = p
        BY <2>1 DEF PaymentClosed
    <2>2. CASE q # p
        <3>1. proc'[q] = proc[q]
            BY <2>2 DEF Moves
        <3>. QED
            BY <3>1 DEF ClosedInv, PaymentsClosed, PaymentClosed, ShowsAgain, Mine, Copy, At, Calls
    <2>. QED
        BY <2>1, <2>2
<1>. QED
    BY <1>1 DEF ClosedInv, ReceiptsClosed, PaymentsClosed

LEMMA ConfirmedStep ==
    ASSUME NEW p, NEW r, r.status = "settled", Calls(p, "confirm")
    PROVE  NextStep(p, r) = "Finalize"
BY DEF NextStep

LEMMA PayOnClosed ==
    ASSUME ClosedInv, NEW p \in Callers, PayOn(p), Mine(p) \in closed, UNCHANGED calls
    PROVE  ReceiptsClosed' /\ PaymentsClosed' /\ proc[p].pc \notin Unlocking
<1>1. PaymentInv /\ Moves(p) /\ proc[p].pc \in PaySteps /\ UNCHANGED closed
    BY PayOnOwn DEF ClosedInv, OwnReceipt
<1>2. ShowsAgain(p) /\ Mine(p) \in Prints /\ receipt[Mine(p)].status = "settled"
    BY <1>1 DEF ClosedInv, PaymentsClosed, PaymentClosed, ReceiptsClosed
<1>3. Mine(p) \in ledger /\ {"pc", "print", "copy"} \subseteq DOMAIN proc[p]
    BY <1>1, <1>2, ReceiptBacked, AtPayment DEF IsPayment
<1>4. proc[p].pc \in {"Lookup", "Begin", "Finalize", "Sum", "Credit", "Refresh"}
    BY <1>2 DEF ShowsAgain, Showing, At
<1>5. proc[p].pc \notin Unlocking
    BY <1>4 DEF Unlocking
<1>6. \/ LookUp(p, "Lookup") \/ Begin(p) \/ Finalize(p) \/ Sum(p) \/ Credit(p) \/ Refresh(p)
      \/ FailPayment(p)
    BY <1>4 DEF PayOn, LookUp, Create, Verify, WriteVerified, WriteFailed, Settle, WriteSettled,
                WriteRefused, Grant, Account, Profile, ReadPolicy, Enable, RelaxUpgraded, Open, Mark,
                NoVerdict, At
<1>7. ASSUME NEW s \in {"Sum", "Refresh"}, Go(p, s), ~At(p, "Lookup")
      PROVE  ShowsAgain(p)'
    <2>1. proc'[p].pc = s /\ Copy(p)' = Copy(p)
        BY <1>1, <1>7, GoOwn
    <2>. QED
        BY <1>2, <1>7, <2>1 DEF ShowsAgain, Showing, At, Calls
<1>8. ASSUME NEW a \in {"done", "refused", "error"}, Answer(p, a)
      PROVE  proc'[p].pc \notin PaySteps
    BY <1>1, <1>8, AnswerMoves DEF Answers
<1>9. CASE LookUp(p, "Lookup")
    <2>1. Answer(p, "done") /\ UNCHANGED receipt
        BY <1>2, <1>9 DEF LookUp, Unsettled, Replay
    <2>. QED
        BY <1>1, <1>5, <1>8, <2>1, ShownPaymentClosed
<1>10. CASE Begin(p)
    <2>. DEFINE b == Mine(p) \in ledger
                s == NextStep(p, Copy(p))
                q == [proc[p] EXCEPT !.had = b, !.pc = s]
    <2>1. Copy(p).status = "settled" /\ Calls(p, "confirm")
        BY <1>2, <1>10 DEF Begin, At, ShowsAgain
    <2>2. s = "Finalize"
        BY <2>1, ConfirmedStep
    <2>3. Put(p, q) /\ UNCHANGED receipt
        BY <1>10, <2>1 DEF Begin, payVars, moneyVars
    <2>. HIDE DEF b, s
    <2>4. "pc" \in DOMAIN q /\ q.pc = s /\ q.copy = Copy(p)
        BY <1>3 DEF Copy
    <2>. HIDE DEF q
    <2>5. proc'[p] = q
        BY <1>1, <2>3, <2>4, PutMoves DEF PaymentInv
    <2>6. ShowsAgain(p)'
        BY <2>1, <2>2, <2>4, <2>5 DEF ShowsAgain, Showing, Copy, Calls
    <2>. QED
        BY <1>1, <1>5, <2>3, <2>6, ShownPaymentClosed
<1>11. CASE Finalize(p)
    <2>1. Copy(p).status = "settled" /\ ~At(p, "Lookup")
        BY <1>2, <1>11 DEF Finalize, At, ShowsAgain
    <2>2. Go(p, "Sum") /\ UNCHANGED receipt
        BY <1>3, <1>11, <2>1 DEF Finalize, UpgradeStep, TopupStep, payVars, moneyVars
    <2>3. ShowsAgain(p)'
        BY <1>7, <2>1, <2>2
    <2>. QED
        BY <1>1, <1>5, <2>2, <2>3, ShownPaymentClosed
<1>12. CASE Sum(p)
    <2>. DEFINE total == Total
                q == [proc[p] EXCEPT !.sum = total, !.pc = "Credit"]
    <2>1. Copy(p).status = "settled" /\ Calls(p, "confirm")
        BY <1>2, <1>12 DEF Sum, At, ShowsAgain
    <2>2. Put(p, q) /\ UNCHANGED receipt
        BY <1>12 DEF Sum, payVars, moneyVars
    <2>. HIDE DEF total
    <2>3. "pc" \in DOMAIN q /\ q.pc = "Credit" /\ q.copy = Copy(p)
        BY <1>3 DEF Copy
    <2>. HIDE DEF q
    <2>4. proc'[p] = q
        BY <1>1, <2>2, <2>3, PutMoves DEF PaymentInv
    <2>5. ShowsAgain(p)'
        BY <2>1, <2>3, <2>4 DEF ShowsAgain, Showing, Copy, Calls
    <2>. QED
        BY <1>1, <1>5, <2>2, <2>5, ShownPaymentClosed
<1>13. CASE Credit(p)
    <2>1. Copy(p).status = "settled"
        BY <1>2, <1>13 DEF Credit, At, ShowsAgain
    <2>2. Answer(p, "done") /\ UNCHANGED receipt
        BY <1>13, <2>1 DEF Credit
    <2>. QED
        BY <1>1, <1>5, <1>8, <2>2, ShownPaymentClosed
<1>14. CASE Refresh(p)
    <2>. DEFINE r == receipt[Mine(p)]
                s == NextStep(p, r)
                q == [proc[p] EXCEPT !.copy = r, !.again = TRUE, !.pc = s]
    <2>1. Calls(p, "confirm") /\ r.status = "settled" /\ UNCHANGED receipt
        BY <1>2, <1>14 DEF Refresh, At, ShowsAgain
    <2>2. s = "Finalize"
        BY <2>1, ConfirmedStep
    <2>3. Answer(p, "error") \/ Put(p, q)
        BY <1>14, <2>1 DEF Refresh
    <2>4. CASE Answer(p, "error")
        BY <1>1, <1>5, <1>8, <2>1, <2>4, ShownPaymentClosed
    <2>5. CASE Put(p, q)
        <3>. HIDE DEF s, r
        <3>1. "pc" \in DOMAIN q /\ q.pc = s /\ q.copy = r
            BY <1>3
        <3>. HIDE DEF q
        <3>2. proc'[p] = q
            BY <1>1, <2>5, <3>1, PutMoves DEF PaymentInv
        <3>3. ShowsAgain(p)'
            BY <2>1, <2>2, <3>1, <3>2 DEF ShowsAgain, Showing, Copy, Calls
        <3>. QED
            BY <1>1, <1>5, <2>1, <3>3, ShownPaymentClosed
    <2>. QED
        BY <2>3, <2>4, <2>5
<1>15. CASE FailPayment(p)
    <2>1. UNCHANGED receipt
        BY <1>4, <1>15 DEF FailPayment, payVars, moneyVars, At
    <2>2. \/ Answer(p, "error")
          \/ ~At(p, "Lookup") /\ Go(p, "Refresh")
        BY <1>4, <1>15 DEF FailPayment, Guarded, At
    <2>3. proc'[p].pc \in PaySteps => ShowsAgain(p)'
        BY <1>7, <1>8, <2>2
    <2>. QED
        BY <1>1, <1>5, <2>1, <2>3, ShownPaymentClosed
<1>. QED
    BY <1>6, <1>9, <1>10, <1>11, <1>12, <1>13, <1>14, <1>15

LEMMA StartClosed ==
    ASSUME ClosedInv, NEW p \in Callers, Topup(p) \/ UpgradeIntent(p) \/ Confirm(p) \/ Repeat(p),
           UNCHANGED calls
    PROVE  ReceiptsClosed' /\ PaymentsClosed'
<1>1. PaymentInv /\ UNCHANGED <<receipt, closed>>
    BY DEF ClosedInv, Topup, UpgradeIntent, Submit, Confirm, Repeat, payVars, moneyVars, sendVars
<1>2. ASSUME NEW q, Put(p, q), "pc" \in DOMAIN q, q.pc \notin PaySteps
      PROVE  ReceiptsClosed' /\ PaymentsClosed'
    BY <1>1, <1>2, PutMoves, OthersClosed DEF PaymentInv
<1>3. CASE Topup(p) \/ UpgradeIntent(p)
    <2>. DEFINE q == Request(ReceiptOf(calls[p].proof))
    <2>1. CASE Answer(p, "refused")
        BY <1>1, <2>1, AnswerMoves, OthersClosed DEF Answers
    <2>2. CASE Put(p, q)
        <3>1. "pc" \in DOMAIN q /\ q.pc = "Lookup"
            BY DEF Request
        <3>. HIDE DEF q
        <3>2. Moves(p) /\ At(p, "Lookup")'
            BY <1>1, <2>2, <3>1, PutMoves DEF PaymentInv, At
        <3>. QED
            BY <1>1, <3>2, ShownPaymentClosed DEF ShowsAgain
    <2>. QED
        BY <1>3, <2>1, <2>2 DEF Topup, UpgradeIntent, Submit
<1>4. CASE Confirm(p)
    <2>. DEFINE x == calls[p].print
                r == receipt[x]
                q == [Request(x) EXCEPT !.copy = r, !.pc = "Begin"]
    <2>1. CASE Answer(p, "refused")
        BY <1>1, <2>1, AnswerMoves, OthersClosed DEF Answers
    <2>2. CASE Put(p, q)
        <3>1. "pc" \in DOMAIN q /\ q.pc = "Begin" /\ q.copy = r /\ q.print = x
            BY DEF Request
        <3>. HIDE DEF q
        <3>2. Moves(p) /\ proc'[p] = q
            BY <1>1, <2>2, <3>1, PutMoves DEF PaymentInv
        <3>3. Mine(p)' = x /\ Copy(p)' = r /\ proc'[p].pc = "Begin"
            BY <3>1, <3>2 DEF Mine, Copy
        <3>4. CASE x \in closed
            <4>1. ShowsAgain(p)'
                BY <1>4, <3>3, <3>4 DEF ClosedInv, ReceiptsClosed, Confirm, ShowsAgain, Showing, Calls
            <4>. QED
                BY <1>1, <3>2, <4>1, ShownPaymentClosed
        <3>5. CASE x \notin closed
            <4>1. ASSUME NEW c \in Callers
                  PROVE  PaymentClosed(c)'
                <5>1. CASE c = p
                    BY <1>1, <3>3, <3>5, <5>1 DEF PaymentClosed
                <5>2. CASE c # p
                    <6>1. proc'[c] = proc[c]
                        BY <3>2, <5>2 DEF Moves
                    <6>. QED
                        BY <1>1, <6>1 DEF ClosedInv, PaymentsClosed, PaymentClosed, ShowsAgain, Mine,
                                          Copy, At, Calls
                <5>. QED
                    BY <5>1, <5>2
            <4>. QED
                BY <1>1, <4>1 DEF ClosedInv, ReceiptsClosed, PaymentsClosed
        <3>. QED
            BY <3>4, <3>5
    <2>. QED
        BY <1>4, <2>1, <2>2 DEF Confirm, Take
<1>5. CASE Repeat(p)
    <2>1. Put(p, Free) /\ "pc" \in DOMAIN Free /\ Free.pc \notin PaySteps
        BY <1>5 DEF Repeat, Free, PaySteps
    <2>. QED
        BY <1>2, <2>1
<1>. QED
    BY <1>3, <1>4, <1>5

(* What is closed by a suspension: settled receipts that nobody works on.  *)
LEMMA OverClosed ==
    ASSUME ClosedInv, NEW p \in Callers, Moves(p), proc'[p].pc \notin PaySteps,
           UNCHANGED <<calls, receipt>>, closed' = Over
    PROVE  ReceiptsClosed' /\ PaymentsClosed'
<1>1. ReceiptsClosed'
    BY DEF ReceiptsClosed, Over
<1>2. ASSUME NEW q \in Callers
      PROVE  PaymentClosed(q)'
    <2>1. CASE q = p
        BY <2>1 DEF PaymentClosed
    <2>2. CASE q # p
        <3>1. proc'[q] = proc[q]
            BY <2>2 DEF Moves
        <3>2. ASSUME proc[q].pc \in PaySteps
              PROVE  Mine(q) \notin Over
            <4>1. IsPayment(proc[q])
                BY <3>2, AtPayment DEF ClosedInv
            <4>2. Paying(q)
                BY <3>2, <4>1 DEF Paying, Running, Answers, PaySteps, IsPayment
            <4>. QED
                BY <4>2 DEF Over
        <3>. QED
            BY <3>1, <3>2 DEF PaymentClosed, Mine
    <2>. QED
        BY <2>1, <2>2
<1>. QED
    BY <1>1, <1>2 DEF PaymentsClosed

LEMMA PolicyStepMoves ==
    ASSUME PaymentInv, NEW p \in Callers, PolicyStep(p) \/ PutAgentPolicy(p)
    PROVE  Moves(p) /\ proc'[p].pc \notin PaySteps
<1>1. ASSUME NEW s \in PolicySteps, Go(p, s)
      PROVE  Moves(p) /\ proc'[p].pc \notin PaySteps
    BY <1>1, GoMoves DEF PaymentInv, PolicySteps, PaySteps
<1>2. ASSUME Answer(p, "done")
      PROVE  Moves(p) /\ proc'[p].pc \notin PaySteps
    BY <1>2, AnswerMoves DEF Answers
<1>3. ASSUME Synced(p)
      PROVE  Moves(p) /\ proc'[p].pc \notin PaySteps
    BY <1>1, <1>2, <1>3 DEF Synced, PolicySteps
<1>4. CASE Ask(p)
    <2>1. Put(p, Reads) /\ "pc" \in DOMAIN Reads /\ Reads.pc \notin PaySteps
        BY <1>4 DEF Ask, Reads, PaySteps
    <2>. QED
        BY <2>1, PutMoves DEF PaymentInv
<1>5. CASE Decide(p)
    BY <1>1, <1>3, <1>5 DEF Decide, PolicySteps
<1>6. CASE SetStanding(p) \/ RelaxAgents(p)
    BY <1>1, <1>2, <1>6 DEF SetStanding, RelaxAgents, PolicySteps
<1>7. CASE SyncAgents(p) \/ WriteList(p)
    BY <1>1, <1>3, <1>7 DEF SyncAgents, WriteList, PolicySteps
<1>8. CASE WriteOpen(p) \/ PutAgentPolicy(p)
    BY <1>2, <1>8 DEF WriteOpen, PutAgentPolicy
<1>. QED
    BY <1>4, <1>5, <1>6, <1>7, <1>8 DEF PolicyStep

LEMMA DecisionsClosed ==
    ASSUME ClosedInv, NEW p \in Callers, PolicyStep(p) \/ PutAgentPolicy(p), UNCHANGED calls
    PROVE  ReceiptsClosed' /\ PaymentsClosed'
<1>1. Moves(p) /\ proc'[p].pc \notin PaySteps
    BY PolicyStepMoves DEF ClosedInv
<1>2. CASE Decide(p)
    <2>1. UNCHANGED receipt /\ (closed' = Over \/ closed' = closed)
        BY <1>2 DEF Decide, moneyVars
    <2>. QED
        BY <1>1, <2>1, OthersClosed, OverClosed
<1>3. CASE ~Decide(p)
    <2>1. UNCHANGED <<receipt, closed>>
        BY <1>3 DEF PolicyStep, Ask, SetStanding, SyncAgents, WriteList, RelaxAgents, WriteOpen,
                    PutAgentPolicy, payVars, moneyVars, sendVars
    <2>. QED
        BY <1>1, <2>1, OthersClosed
<1>. QED
    BY <1>2, <1>3

-----------------------------------------------------------------------------
(* Any step.                                                               *)

(* Steps of other requests leave payments and decisions alone.             *)
OtherStep(p) ==
    /\ \/ SendStep(p) \/ SignupStep(p) \/ TokenStep(p) \/ AliasStep(p)
       \/ FailSignup(p) \/ Arrive(p) \/ FailSend(p) \/ FailToken(p) \/ FailAlias(p) \/ Crash(p)
       \/ FailDecision(p)
    /\ UNCHANGED payVars

LEMMA StepKinds ==
    ASSUME NEW p, Work(p) \/ Failure(p)
    PROVE  \/ Topup(p) \/ UpgradeIntent(p) \/ Confirm(p) \/ Repeat(p)
           \/ PayOn(p)
           \/ PolicyStep(p) \/ PutAgentPolicy(p)
           \/ OtherStep(p)
<1>1. CASE Work(p)
    BY <1>1 DEF Work, PayStep, PayOn, OtherStep
<1>2. CASE Failure(p)
    <2>1. CASE FailPayment(p) \/ NoVerdict(p)
        BY <2>1 DEF PayOn
    <2>2. CASE FailDecision(p) \/ Crash(p)
        BY <2>2 DEF OtherStep, FailDecision, Crash
    <2>3. CASE (FailSignup(p) \/ Arrive(p) \/ FailSend(p) \/ FailToken(p) \/ FailAlias(p)) /\ UNCHANGED payVars
        BY <2>3 DEF OtherStep
    <2>. QED
        BY <1>2, <2>1, <2>2, <2>3 DEF Failure
<1>. QED
    BY <1>1, <1>2

LEMMA OtherAside ==
    ASSUME PaymentInv, NEW p \in Callers, OtherStep(p)
    PROVE  Aside(p)
<1>1. CASE FailDecision(p)
    BY <1>1, AnswerAside DEF FailDecision, Answers, PaymentInv
<1>2. CASE ~FailDecision(p)
    BY <1>2, OthersAside, AliasAside, FailureAside DEF OtherStep, PaymentInv
<1>. QED
    BY <1>1, <1>2

LEMMA StepMoves ==
    ASSUME PaymentInv, NEW p \in Callers, Work(p) \/ Failure(p)
    PROVE  Moves(p)
<1>1. CASE PayOn(p)
    BY <1>1, PayOnOwn DEF OwnReceipt
<1>2. CASE PolicyStep(p) \/ PutAgentPolicy(p)
    BY <1>2, PolicyStepMoves
<1>3. CASE OtherStep(p)
    BY <1>3, OtherAside DEF Aside
<1>4. CASE Topup(p) \/ UpgradeIntent(p) \/ Confirm(p) \/ Repeat(p)
    <2>1. ASSUME NEW q, Put(p, q), "pc" \in DOMAIN q
          PROVE  Moves(p)
        BY <2>1, PutMoves DEF PaymentInv
    <2>2. Answer(p, "refused") => Moves(p)
        BY AnswerMoves DEF Answers
    <2>3. \A x : "pc" \in DOMAIN Request(x)
        BY DEF Request
    <2>4. \A x : "pc" \in DOMAIN [Request(x) EXCEPT !.copy = receipt[x], !.pc = "Begin"]
        BY <2>3
    <2>5. "pc" \in DOMAIN Free
        BY DEF Free
    <2>. QED
        BY <1>4, <2>1, <2>2, <2>3, <2>4, <2>5 DEF Topup, UpgradeIntent, Submit, Confirm, Take, Repeat
<1>. QED
    BY <1>1, <1>2, <1>3, <1>4, StepKinds

LEMMA StepClosed ==
    ASSUME ClosedInv, NEW p \in Callers, Work(p) \/ Failure(p), UNCHANGED calls
    PROVE  ReceiptsClosed' /\ PaymentsClosed'
<1>1. CASE PayOn(p)
    <2>1. CASE Mine(p) \in closed
        BY <1>1, <2>1, PayOnClosed
    <2>2. CASE Mine(p) \notin closed
        BY <1>1, <2>2, PayOnOwn, OpenPaymentClosed DEF ClosedInv
    <2>. QED
        BY <2>1, <2>2
<1>2. CASE OtherStep(p)
    <2>1. Moves(p) /\ proc'[p].pc \notin PaySteps /\ UNCHANGED <<receipt, closed>>
        BY <1>2, OtherAside DEF ClosedInv, Aside, OtherStep, payVars, moneyVars, sendVars
    <2>. QED
        BY <2>1, OthersClosed
<1>. QED
    BY <1>1, <1>2, StepKinds, StartClosed, DecisionsClosed

(* Only a decision and a paid upgrade write the tenant's policy.           *)
LEMMA PolicyWriters ==
    ASSUME NEW p \in Callers, Work(p) \/ Failure(p), policy' # policy
    PROVE  Decide(p) \/ (Enable(p) /\ PayOn(p))
<1>1. CASE Topup(p) \/ UpgradeIntent(p) \/ Confirm(p) \/ Repeat(p)
    BY <1>1 DEF Topup, UpgradeIntent, Submit, Confirm, Repeat, payVars, sendVars
<1>2. CASE PayOn(p)
    BY <1>2 DEF PayOn, LookUp, Create, Begin, Verify, WriteVerified, WriteFailed, Settle, WriteSettled,
                WriteRefused, Finalize, Grant, Account, Profile, ReadPolicy, RelaxUpgraded, Open, Sum,
                Credit, Mark, Refresh, FailPayment, NoVerdict, payVars, sendVars
<1>3. CASE PolicyStep(p) \/ PutAgentPolicy(p)
    BY <1>3 DEF PolicyStep, PutAgentPolicy, Ask, SetStanding, SyncAgents, WriteList, RelaxAgents,
                WriteOpen, payVars, sendVars
<1>4. CASE OtherStep(p)
    BY <1>4 DEF OtherStep, payVars, sendVars
<1>. QED
    BY <1>1, <1>2, <1>3, <1>4, StepKinds

LEMMA LiftedBy ==
    ASSUME ClosedInv, NEW p \in Callers, Work(p) \/ Failure(p), Lifted, UNCHANGED calls
    PROVE  Lifts(p)
<1>1. Decide(p) \/ (Enable(p) /\ PayOn(p))
    BY PolicyWriters DEF Lifted
<1>2. CASE Decide(p)
    <2>1. calls[p].call \in {"approve", "reset", "suspend", "put"}
        BY <1>2, Decides DEF ClosedInv, Decide, At, PolicySteps, Decisions
    <2>2. calls[p].call # "suspend"
        BY <1>2 DEF Decide, Decision, Calls, Lifted
    <2>. QED
        BY <1>2, <2>1, <2>2 DEF Lifts
<1>3. CASE Enable(p) /\ PayOn(p)
    <2>1. proc[p].pc \in Unlocking
        BY <1>3 DEF Enable, At, Unlocking
    <2>2. Mine(p) \notin closed
        BY <1>3, <2>1, PayOnClosed
    <2>. QED
        BY <1>3, <2>2 DEF Lifts
<1>. QED
    BY <1>1, <1>2, <1>3

LEMMA InitSuspension == Init => SuspensionInv
<1>. SUFFICES ASSUME Init
              PROVE  SuspensionInv
    OBVIOUS
<1>1. PaymentInv
    BY InitBacked
<1>2. proc = [p \in Callers |-> Free] /\ barred = {} /\ closed = {}
    BY DEF Init, InitPayments
<1>3. \A p \in Callers : proc[p].pc = "free"
    BY <1>2 DEF Free
<1>4. ReceiptsClosed
    BY <1>2 DEF ReceiptsClosed
<1>5. \A p \in Callers : PaymentClosed(p) /\ SendBarred(p)
    BY <1>2, <1>3 DEF PaymentClosed, SendBarred, SendPlaces, PaySteps
<1>. QED
    BY <1>1, <1>2, <1>4, <1>5 DEF SuspensionInv, PaymentsClosed, SendsBarred

LEMMA NextSuspension == SuspensionInv /\ [Next]_vars => SuspensionInv'
<1>. SUFFICES ASSUME SuspensionInv, [Next]_vars
              PROVE  SuspensionInv'
    OBVIOUS
<1>1. CASE Next
    <2>1. PICK p \in Callers : Work(p) \/ Failure(p)
        BY <1>1 DEF Next
    <2>2. Bar /\ UNCHANGED calls
        BY <1>1 DEF Next
    <2>3. PaymentInv /\ PaymentInv' /\ ClosedInv
        BY NextBacked DEF SuspensionInv, ClosedInv
    <2>4. ReceiptsClosed' /\ PaymentsClosed'
        BY <2>1, <2>2, <2>3, StepClosed
    <2>5. SendsBarred'
        BY <2>1, <2>2, <2>3, StepMoves, SendsPreserved DEF SuspensionInv
    <2>. QED
        BY <2>3, <2>4, <2>5 DEF SuspensionInv
<1>2. CASE UNCHANGED vars
    <2>1. PaymentInv'
        BY NextBacked DEF SuspensionInv
    <2>2. ReceiptsClosed' /\ PaymentsClosed'
        BY <1>2 DEF SuspensionInv, ReceiptsClosed, PaymentsClosed, PaymentClosed, ShowsAgain, Mine, Copy,
                    At, Calls, vars, payVars, moneyVars, sendVars
    <2>3. SendsBarred'
        BY <1>2 DEF SuspensionInv, SendsBarred, SendBarred, Outside, Recipients, At, Calls, vars
    <2>. QED
        BY <2>1, <2>2, <2>3 DEF SuspensionInv
<1>. QED
    BY <1>1, <1>2

(* A suspension is lifted only by an operator or by an upgrade that was    *)
(* not settled and answered when it was imposed; and a request to send     *)
(* that found it in force at its every step permits nothing to others.     *)
(* (finalizePaymentReceiptSettlement, evaluateOutboundPolicy)              *)
THEOREM SuspensionHolds == Spec => SuspensionStands
<1>1. ASSUME SuspensionInv, [Next]_vars, vars' # vars
      PROVE  /\ Lifted => \E p \in Callers : Lifts(p)
             /\ \A p \in barred : Permitted(p) => Outside(p) = {}
    <2>1. Next
        BY <1>1
    <2>2. PICK p \in Callers : Work(p) \/ Failure(p)
        BY <2>1 DEF Next
    <2>3. PaymentInv /\ ClosedInv /\ SendsBarred /\ Moves(p) /\ UNCHANGED calls
        BY <1>1, <2>1, <2>2, StepMoves DEF SuspensionInv, ClosedInv, Next
    <2>4. Lifted => Lifts(p)
        BY <2>2, <2>3, LiftedBy
    <2>5. ASSUME NEW q \in barred, Permitted(q)
          PROVE  Outside(q) = {}
        BY <2>2, <2>3, <2>5, BarredSendsRefused DEF Permitted, SendsBarred
    <2>. QED
        BY <2>4, <2>5
<1>2. SuspensionInv /\ [Next]_vars => [/\ Lifted => \E p \in Callers : Lifts(p)
                                       /\ \A p \in barred : Permitted(p) => Outside(p) = {}]_vars
    BY <1>1
<1>. QED
    BY <1>2, InitSuspension, NextSuspension, PTL DEF Spec, SuspensionStands
=============================================================================
