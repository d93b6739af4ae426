----------------------------- MODULE TenantCalls -----------------------------
(***************************************************************************)
(* Requests of customers and operators about a tenant: who makes which     *)
(* call, how far each has got, and how calls to the database, the object   *)
(* store and other services fail.  A call to one of them is one step; a    *)
(* request keeps what it read in its process record.                       *)
(***************************************************************************)
EXTENDS Integers, FiniteSets, Sequences

CONSTANTS
    Callers,    \* requests
    None,       \* null
    Workloads,  \* [calls, spared, start, funds, access]; a behaviour makes the
                \* calls of one with `spared` failures fewer than MaxFaults
    Failing,    \* the steps whose call may fail, "Crash" for a crash
    MaxFaults   \* how many failures a run allows

ASSUME TenantAssumption ==
    /\ MaxFaults \in Nat
    /\ \A w \in Workloads : /\ DOMAIN w.calls \subseteq Callers /\ w.spared \in 0..MaxFaults
                          /\ w.funds.opening \in Nat /\ w.funds.held \in 0..w.funds.opening

VARIABLES
    calls,      \* the call each caller makes: a record with a field `call`
    faults,     \* how many failures have happened
    barred,     \* history: requests whose every step so far found that they
                \* may not have what they ask for
    overlapped, \* history: a request of an operator, or for a token, began
                \* while another ran
    proc        \* the requests: a record with a field `pc`


NoCall == [call |-> "none"]
Free == [pc |-> "free"]
Answers == {"done", "refused", "error", "crashed"}

At(p, s) == proc[p].pc = s
Calls(p, name) == calls[p].call = name
Running(p) == proc[p].pc \notin Answers \union {"free"}
Answered(p) == proc[p].pc \in Answers
AtRest == \A p \in Callers : ~Running(p)

Put(p, r) == proc' = [proc EXCEPT ![p] = r]
Go(p, s) == Put(p, [proc[p] EXCEPT !.pc = s])
Answer(p, a) == Put(p, [pc |-> a])

Overlap(p) == overlapped' = (overlapped \/ (At(p, "free") /\ ~AtRest))
NoFault == UNCHANGED faults
Fault(step) ==
    /\ step \in Failing /\ faults < MaxFaults
    /\ faults' = faults + 1
=============================================================================
