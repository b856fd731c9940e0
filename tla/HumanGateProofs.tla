-------------------------- MODULE HumanGateProofs --------------------------
(***************************************************************************)
(* What follows from the abstract gate for any set of calls.  Everything   *)
(* that implements the gate inherits these theorems.                       *)
(***************************************************************************)
EXTENDS HumanGate, TLAPS

GateTypeOK ==
  /\ decision \in [Calls -> Decision]
  /\ ran \in [Calls -> Nat]

GateInv == GateTypeOK /\ ApprovedAndOnce

\* The inductive step: an answer that a run call relied on cannot change, since
\* Decide, Expire and EndRun touch requests without an answer only.
LEMMA GateStep == GateInv /\ [GateNext]_gateState => GateInv'
<1> SUFFICES ASSUME GateInv, [GateNext]_gateState PROVE GateInv'
  OBVIOUS
<1> USE DEF GateInv, GateTypeOK, ApprovedAndOnce, Decision
<1>1. CASE Expire
  BY <1>1 DEF Expire
<1>2. CASE EndRun
  <2>1. PICK closed \in SUBSET {c \in Calls : decision[c] = "pending"} :
          decision' = [c \in Calls |-> IF c \in closed THEN "cancelled" ELSE decision[c]]
    BY <1>2 DEF EndRun
  <2>2. UNCHANGED <<dangerous, ran>>
    BY <1>2 DEF EndRun
  <2> QED
    BY <2>1, <2>2
<1>3. ASSUME NEW c \in Calls, Ask(c) PROVE GateInv'
  BY <1>3 DEF Ask
<1>4. ASSUME NEW c \in Calls, Decide(c) PROVE GateInv'
  BY <1>4 DEF Decide
<1>5. ASSUME NEW c \in Calls, RunCall(c) PROVE GateInv'
  BY <1>5 DEF RunCall
<1>6. CASE UNCHANGED gateState
  BY <1>6 DEF gateState
<1> QED
  BY <1>1, <1>2, <1>3, <1>4, <1>5, <1>6 DEF GateNext

LEMMA GateStart == GateInit => GateInv
BY DEF GateInit, GateInv, GateTypeOK, ApprovedAndOnce, Decision

\* A dangerous call runs once at most and only if an operator approved it
\* (README.md of the repository: "require per-run manual approval").
THEOREM OnlyApprovedCallsRun == GateSpec => []ApprovedAndOnce
<1>1. GateInv => ApprovedAndOnce
  BY DEF GateInv
<1> QED
  BY <1>1, GateStart, GateStep, PTL DEF GateSpec

\* No later answer, expiry or cancel revises an answer, and a run ends once.
THEOREM AnswersStayFinal == GateSpec => AnswersAreFinal
<1>1. GateInv => GateTypeOK
  BY DEF GateInv
<1>2. GateTypeOK /\ [GateNext]_gateState =>
        [/\ \A c \in Calls :
              decision[c] \in {"approved", "rejected"} => decision'[c] = decision[c]
         /\ outcome # "open" => outcome' = outcome]_gateState
  <2> SUFFICES ASSUME GateTypeOK, GateNext
               PROVE /\ \A c \in Calls :
                          decision[c] \in {"approved", "rejected"} => decision'[c] = decision[c]
                     /\ outcome # "open" => outcome' = outcome
    OBVIOUS
  <2> USE DEF GateTypeOK, Decision
  <2>1. CASE Expire
    BY <2>1 DEF Expire
  <2>2. CASE EndRun
    BY <2>2 DEF EndRun
  <2>3. ASSUME NEW c \in Calls, Ask(c) \/ Decide(c) \/ RunCall(c)
        PROVE /\ \A d \in Calls :
                   decision[d] \in {"approved", "rejected"} => decision'[d] = decision[d]
              /\ outcome # "open" => outcome' = outcome
    BY <2>3 DEF Ask, Decide, RunCall
  <2> QED
    BY <2>1, <2>2, <2>3 DEF GateNext
<1> QED
  BY <1>1, <1>2, GateStart, GateStep, PTL DEF GateSpec, AnswersAreFinal
=============================================================================
