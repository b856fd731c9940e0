------------------------------ MODULE HumanGate ------------------------------
(***************************************************************************)
(* What the approval flow promises, without tasks, rows or transactions:   *)
(* a dangerous call runs at most once and only after an operator approved  *)
(* it, an operator's answer is final, and so is the way the run ends.      *)
(* README.md of the repository: "safety-critical operations suspend and    *)
(* require per-run manual approval".                                       *)
(***************************************************************************)
EXTENDS Naturals

CONSTANT Calls

VARIABLES
  dangerous,  \* the calls that need approval
  outcome,    \* "open", or how the run ended
  decision,   \* what became of the request for each call
  ran         \* how often each call reached its executor

gateState == <<dangerous, outcome, decision, ran>>

GateInit ==
  /\ dangerous \in SUBSET Calls
  /\ outcome = "open"
  /\ decision = [c \in Calls |-> "absent"]
  /\ ran = [c \in Calls |-> 0]

Ask(c) ==
  /\ c \in dangerous /\ decision[c] = "absent"
  /\ decision' = [decision EXCEPT ![c] = "pending"]
  /\ UNCHANGED <<dangerous, outcome, ran>>

Decide(c) ==
  /\ decision[c] = "pending"
  /\ \E answer \in {"approved", "rejected"} :
       decision' = [decision EXCEPT ![c] = answer]
  /\ UNCHANGED <<dangerous, outcome, ran>>

\* Requests expire together; one that a cancel has just closed may still be
\* recorded as expired, one that an operator answered may not.
Expire ==
  /\ \E lapsed \in SUBSET {c \in Calls : decision[c] \in {"pending", "cancelled"}} :
       decision' = [c \in Calls |-> IF c \in lapsed THEN "expired" ELSE decision[c]]
  /\ UNCHANGED <<dangerous, outcome, ran>>

RunCall(c) ==
  /\ ran[c] = 0
  /\ c \in dangerous => decision[c] = "approved"
  /\ ran' = [ran EXCEPT ![c] = 1]
  /\ UNCHANGED <<dangerous, outcome, decision>>

\* A run that is cancelled or times out takes pending requests with it.
EndRun ==
  /\ outcome = "open"
  /\ outcome' \in {"completed", "failed", "cancelled", "timed_out"}
  /\ \E closed \in SUBSET {c \in Calls : decision[c] = "pending"} :
       /\ decision' = [c \in Calls |-> IF c \in closed THEN "cancelled" ELSE decision[c]]
       /\ outcome' \in {"completed", "failed"} => closed = {}
  /\ UNCHANGED <<dangerous, ran>>

GateNext == Expire \/ EndRun \/ \E c \in Calls : Ask(c) \/ Decide(c) \/ RunCall(c)

GateSpec == GateInit /\ [][GateNext]_gateState
-----------------------------------------------------------------------------
Decision == {"absent", "pending", "approved", "rejected", "expired", "cancelled"}

\* What the gate is for: a dangerous call that ran was approved, still is, and
\* ran once.
ApprovedAndOnce ==
  \A c \in Calls : /\ ran[c] <= 1
                   /\ c \in dangerous /\ ran[c] = 1 => decision[c] = "approved"

\* An answer is final, and so is the end of the run.
AnswersAreFinal ==
  [][/\ \A c \in Calls : decision[c] \in {"approved", "rejected"} => decision'[c] = decision[c]
     /\ outcome # "open" => outcome' = outcome]_gateState
=============================================================================
