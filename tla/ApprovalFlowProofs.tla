------------------------- MODULE ApprovalFlowProofs -------------------------
(***************************************************************************)
(* The safety properties of the approval flow, for every batch, every set  *)
(* of resolvers and with or without a crash, and the proof that the flow   *)
(* implements the abstract gate of HumanGate.                              *)
(*                                                                         *)
(* One inductive invariant carries all of them.  Its idea: the right to    *)
(* execute a call has one owner.  An automatic call belongs to the driver, *)
(* because a resumed graph finds a row for every call of the batch; a      *)
(* dangerous call belongs to the resolver whose compare-and-set found its  *)
(* request pending, because a request is never pending again.              *)
(***************************************************************************)
EXTENDS ApprovalFlow, FiniteSetTheorems, TLAPS

\* Where only a resolver can be.
ResolverOnly == {"idle", "resolve", "rejStep", "rejCall", "appStep", "appAppend",
                 "expire", "pending", "getState", "rerun"}

\* The driver passes the batch once, with the loop in its hand while it creates
\* the rows of a dangerous call.
DriverInv ==
  /\ at[Driver] \notin ResolverOnly /\ ~resumed[Driver]
  /\ at[Driver] = "llm" => /\ \A c \in Calls : req[c] = "absent"
                           /\ \A w \in Resolvers : at[w] = "idle"
  /\ at[Driver] = "exec" => item[Driver] # 0 /\ kind[job[Driver]] = "auto"
  /\ at[Driver] \in {"buildCall", "buildReq"} =>
       kind[Item(Driver)] = "approve" /\ req[Item(Driver)] = "absent"
  /\ at[Driver] = "buildReq" => call[Item(Driver)] # "absent"

\* A resolver that resumed the graph finds nothing left to create.
ResumedInv ==
  \A w \in Resolvers :
    /\ at[w] \notin {"buildCall", "buildReq"}
    /\ at[w] \in {"rerun", "llm", "build"} => resumed[w]
    /\ at[w] = "build" => \A c \in Calls : call[c] # "absent"
    /\ at[w] = "rerun" /\ ckpt = "batch" => \A c \in Calls : call[c] # "absent"

\* Where a resolver owns the call it approved.
Owning == {"appStep", "appAppend", "exec"}

\* What a resolver knows of the request it resolves.
AnswerInv ==
  \A w \in Resolvers :
    /\ at[w] \in {"idle", "resolve", "rejStep", "rejCall"} \cup Owning => item[w] = 0
    /\ at[w] \in {"resolve", "rejStep", "rejCall"} \cup Owning =>
         target[w] \in Calls /\ req[target[w]] # "absent"
    /\ at[w] = "resolve" => act[w] # None
    /\ at[w] \in {"rejStep", "rejCall"} => req[target[w]] = "rejected"
    /\ at[w] \in Owning => req[target[w]] = "approved"
    /\ at[w] \in {"appStep", "appAppend"} => invoked[target[w]] = {}
    /\ at[w] = "exec" => job[w] = target[w]

\* No two resolvers own one call.
OneOwner ==
  \A v, w \in Resolvers :
    v # w /\ at[v] \in Owning /\ at[w] \in Owning => target[v] # target[w]

\* How the rows of a call, its request and its executor hang together.
RequestInv ==
  \A c \in Calls :
    /\ req[c] # "absent" => kind[c] = "approve" /\ call[c] # "absent"
    /\ c \in lapsed => req[c] \in {"pending", "expired", "cancelled"}
    /\ call[c] = "rejected" => req[c] = "rejected"
    /\ ReqLocked(c) => req[c] = "pending"

InvokedInv ==
  \A c \in Calls :
    /\ invoked[c] # {} => /\ call[c] # "absent"
                          /\ kind[c] = "approve" => req[c] = "approved"
    /\ \A v, w \in invoked[c] : v = w

Before == {"step", "gate", "obtain", "claim", "recheck", "gate2", "invoke"}

\* What a task knows of the call it is executing.
ExecInv ==
  \A w \in Workers :
    /\ verdict[w] # "rejected"
    /\ at[w] = "exec" =>
         /\ job[w] \in Calls /\ pc[w] # "idle"
         /\ pc[w] \in Before => invoked[job[w]] = {}
         /\ pc[w] \in {"claim", "recheck", "gate2", "invoke"} => call[job[w]] # "absent"
         /\ pc[w] \in {"save", "skipSave", "finish", "skipStep"} => verdict[w] # None

ItemInv ==
  \A w \in Workers :
    /\ at[w] = "build" => item[w] # 0
    /\ at[w] \in {"buildCall", "buildReq", "exec"} => item[w] <= Len(Batch)
    /\ at[w] \in {"buildCall", "buildReq"} => item[w] # 0

\* A transaction that closes the run finds it open.
CloseInv == closing.phase # "idle" => closing.status \in RunClosed /\ run \notin RunTerminal

Ended == {"completed", "failed"}

ReportInv ==
  \A w \in Workers : /\ at[w] = "reply" \/ event[w] = "completed" => run \in Ended
                     /\ at[w] # "done" => event[w] = "none"

Completed == {w \in Workers : event[w] = "completed"}

CountInv == replies = Cardinality(Completed)

\* Somebody answers for a run that is not over.
Waits       == \E c \in Calls : req[c] \in {"pending", "expired"}
InCharge(w) == at[w] \notin {"idle", "resolve", "done", "dead"}

HeldInv ==
  \A w \in Workers : at[w] = "suspend" => loop = w /\ (run \in RunTerminal \/ Waits)

ChargeInv ==
  ~crashed => \/ run \in RunTerminal
              \/ \E w \in Workers : InCharge(w)
              \/ run = "waiting_approval" /\ Waits

\* FlowTypeOK in groups, as the steps change them together.
RowTypes ==
  /\ run \in RunStatus /\ call \in [Calls -> ToolStatus] /\ step \in [Calls -> StepStatus]
  /\ result \in [Calls -> Result] /\ started \in [Calls -> BOOLEAN]
  /\ invoked \in [Calls -> SUBSET Workers] /\ told \in SUBSET Calls

CloseTypes ==
  /\ closing \in [phase : ClosePhase, status : RunClosed \cup {None},
                  steps : SUBSET Calls, calls : SUBSET Calls]
  /\ lockA \in SUBSET Calls /\ lockR \in (SUBSET Calls) \cup {None}

WorkTypes ==
  /\ pc \in [Workers -> PC] /\ job \in [Workers -> Calls \cup {None}]
  /\ view \in [Workers -> ToolStatus \cup {None}]
  /\ verdict \in [Workers -> ToolTerminal \cup {None}]

GateTypes ==
  /\ kind \in [Calls -> {"auto", "approve"}] /\ talk \in BOOLEAN
  /\ req \in [Calls -> RequestStatus] /\ lapsed \in SUBSET Calls
  /\ aStep \in [Calls -> StepStatus]

PlaceTypes ==
  /\ at \in [Workers -> At] /\ item \in [Workers -> 0 .. Len(Batch) + 1]
  /\ loop \in Workers \cup {None} /\ crashed \in BOOLEAN

Event == {"none", "error", "suspended", "failed", "completed"}

AnswerTypes ==
  /\ target \in [Workers -> Calls \cup {None}]
  /\ act \in [Workers -> {"approved", "rejected", None}]
  /\ event \in [Workers -> Event]

ThreadTypes ==
  /\ ckpt \in {"none", "batch", "answer", "error"}
  /\ resumed \in [Workers -> BOOLEAN]
  /\ fed \in [Workers -> [Calls -> ToolStatus] \cup {None}]

AInv ==
  /\ RowTypes /\ CloseTypes /\ WorkTypes /\ GateTypes /\ PlaceTypes /\ AnswerTypes
  /\ ThreadTypes
  /\ DriverInv /\ ResumedInv /\ AnswerInv /\ OneOwner
  /\ RequestInv /\ InvokedInv /\ ExecInv /\ ItemInv
  /\ CloseInv /\ ReportInv /\ CountInv /\ HeldInv /\ ChargeInv
-----------------------------------------------------------------------------
\* The status sets are enumerations: every proof below may open them.
USE NoneAssumption, WorkersAssumption, BatchAssumption
    DEF RunTerminal, RunActive, RunStatus, RunClosed, ToolStartable, ToolOpen,
        ToolTerminal, ToolStatus, StepOpen, StepTerminal, StepStatus, RequestStatus,
        ClosePhase, PC, Result, At, Resolvers, ResolverOnly, Event, Owning, Before, Ended,
        Go, Await, Stop, rowVars, taskVars, vars, planVars, gateVars, lockVars, flowVars

LEMMA ItemIsCall ==
  ASSUME PlaceTypes, ItemInv, NEW w \in Workers, item[w] <= Len(Batch),
         at[w] \in {"build", "buildCall", "buildReq"}
  PROVE  Item(w) \in Calls
BY DEF PlaceTypes, ItemInv, Item

LEMMA PartCount ==
  ASSUME NEW S, S \subseteq Workers
  PROVE  IsFiniteSet(S) /\ Cardinality(S) \in 0 .. Cardinality(Workers)
<1>1. IsFiniteSet(S) /\ Cardinality(S) <= Cardinality(Workers)
  BY WorkersAssumption, FS_Subset
<1>2. Cardinality(S) \in Nat /\ Cardinality(Workers) \in Nat
  BY <1>1, WorkersAssumption, FS_CardinalityType
<1> QED BY <1>1, <1>2

\* A task that stops without an answer leaves the number of answers alone.
LEMMA StopCount ==
  ASSUME AnswerTypes, CountInv, ReportInv, NEW w \in Workers, at[w] # "done",
         NEW e \in {"error", "suspended", "failed"}, Stop(w, e), UNCHANGED replies
  PROVE  CountInv'
<1>1. Completed' = Completed BY DEF AnswerTypes, ReportInv, Completed
<1> QED BY <1>1 DEF CountInv

-----------------------------------------------------------------------------
(***************************************************************************)
(* Every action keeps the invariant: one lemma for each action, one step   *)
(* for each part that the action can disturb and one for each group of     *)
(* parts that it leaves alone.                                             *)
(***************************************************************************)

LEMMA FlowCloseRunKeeps ==
  ASSUME AInv, NEW status \in RunClosed, FlowCloseRun(status)
  PROVE  AInv'
<1> USE DEF AInv, FlowCloseRun, CloseRun, RunLocked, UpdateRunStatus, Idle
<1>1. RowTypes' /\ CloseTypes' /\ WorkTypes' /\ GateTypes'
  BY DEF RowTypes, CloseTypes, WorkTypes, GateTypes
<1>2. PlaceTypes' /\ AnswerTypes' /\ ThreadTypes'
  BY DEF PlaceTypes, AnswerTypes, ThreadTypes
<1>3. DriverInv' /\ ResumedInv'
  BY DEF PlaceTypes, WorkTypes, GateTypes, RowTypes, ThreadTypes, DriverInv, Item,
         ResumedInv, RequestInv, ExecInv
<1>4. AnswerInv' /\ OneOwner'
  BY DEF PlaceTypes, AnswerTypes, GateTypes, RowTypes, WorkTypes, AnswerInv, DriverInv,
         RequestInv, OneOwner
<1>5. RequestInv' /\ InvokedInv'
  BY DEF GateTypes, RowTypes, CloseTypes, ReqLocked, RequestInv, DriverInv, AnswerInv,
         InvokedInv, ExecInv
<1>6. ExecInv' /\ ItemInv'
  BY DEF PlaceTypes, WorkTypes, RowTypes, ExecInv, ItemInv
<1>7. CloseInv' /\ ReportInv' /\ CountInv' /\ HeldInv'
  BY DEF CloseTypes, RowTypes, CloseInv, PlaceTypes, AnswerTypes, ReportInv, CountInv,
         Completed, HeldInv, Waits
<1>8. ChargeInv'
  BY DEF PlaceTypes, GateTypes, RowTypes, ChargeInv, Waits, InCharge
<1> QED BY <1>1, <1>2, <1>3, <1>4, <1>5, <1>6, <1>7, <1>8

LEMMA FlowCloseStepsKeeps ==
  ASSUME AInv, FlowCloseSteps
  PROVE  AInv'
<1> USE DEF AInv, FlowCloseSteps, CloseSteps
<1>1. RowTypes' /\ CloseTypes' /\ WorkTypes' /\ GateTypes'
  BY DEF RowTypes, CloseTypes, WorkTypes, GateTypes
<1>2. PlaceTypes' /\ AnswerTypes' /\ ThreadTypes'
  BY DEF PlaceTypes, AnswerTypes, ThreadTypes
<1>3. DriverInv' /\ ResumedInv'
  BY DEF PlaceTypes, WorkTypes, GateTypes, RowTypes, ThreadTypes, DriverInv, Item,
         ResumedInv, RequestInv, ExecInv
<1>4. AnswerInv' /\ OneOwner'
  BY DEF PlaceTypes, AnswerTypes, GateTypes, RowTypes, WorkTypes, AnswerInv, DriverInv,
         RequestInv, OneOwner
<1>5. RequestInv' /\ InvokedInv'
  BY DEF GateTypes, RowTypes, CloseTypes, ReqLocked, RequestInv, DriverInv, AnswerInv,
         InvokedInv, ExecInv
<1>6. ExecInv' /\ ItemInv'
  BY DEF PlaceTypes, WorkTypes, RowTypes, ExecInv, ItemInv
<1>7. CloseInv' /\ ReportInv' /\ CountInv' /\ HeldInv'
  BY DEF CloseTypes, RowTypes, CloseInv, PlaceTypes, AnswerTypes, ReportInv, CountInv,
         Completed, HeldInv, Waits
<1>8. ChargeInv'
  BY DEF PlaceTypes, GateTypes, RowTypes, ChargeInv, Waits, InCharge
<1> QED BY <1>1, <1>2, <1>3, <1>4, <1>5, <1>6, <1>7, <1>8

LEMMA FlowCloseCallsKeeps ==
  ASSUME AInv, FlowCloseCalls
  PROVE  AInv'
<1> USE DEF AInv, FlowCloseCalls, CloseCalls
<1>1. RowTypes' /\ CloseTypes' /\ WorkTypes' /\ GateTypes'
  BY DEF RowTypes, CloseTypes, WorkTypes, GateTypes
<1>2. PlaceTypes' /\ AnswerTypes' /\ ThreadTypes'
  BY DEF PlaceTypes, AnswerTypes, ThreadTypes
<1>3. DriverInv' /\ ResumedInv'
  BY DEF PlaceTypes, WorkTypes, GateTypes, RowTypes, ThreadTypes, DriverInv, Item,
         ResumedInv, RequestInv, ExecInv
<1>4. AnswerInv' /\ OneOwner'
  BY DEF PlaceTypes, AnswerTypes, GateTypes, RowTypes, WorkTypes, AnswerInv, DriverInv,
         RequestInv, OneOwner
<1>5. RequestInv' /\ InvokedInv'
  BY DEF GateTypes, RowTypes, CloseTypes, ReqLocked, RequestInv, DriverInv, AnswerInv,
         InvokedInv, ExecInv
<1>6. ExecInv' /\ ItemInv'
  BY DEF PlaceTypes, WorkTypes, RowTypes, ExecInv, ItemInv
<1>7. CloseInv' /\ ReportInv' /\ CountInv' /\ HeldInv'
  BY DEF CloseTypes, RowTypes, CloseInv, PlaceTypes, AnswerTypes, ReportInv, CountInv,
         Completed, HeldInv, Waits
<1>8. ChargeInv'
  BY DEF PlaceTypes, GateTypes, RowTypes, ChargeInv, Waits, InCharge
<1> QED BY <1>1, <1>2, <1>3, <1>4, <1>5, <1>6, <1>7, <1>8

LEMMA CancelPendingByRunKeeps ==
  ASSUME AInv, CancelPendingByRun
  PROVE  AInv'
<1> USE DEF AInv, CancelPendingByRun, ReqLocked
<1>1. RowTypes' /\ CloseTypes' /\ WorkTypes' /\ GateTypes'
  BY DEF RowTypes, CloseTypes, WorkTypes, GateTypes
<1>2. PlaceTypes' /\ AnswerTypes' /\ ThreadTypes'
  BY DEF PlaceTypes, AnswerTypes, ThreadTypes
<1>3. DriverInv' /\ ResumedInv'
  BY DEF PlaceTypes, WorkTypes, GateTypes, RowTypes, ThreadTypes, DriverInv, Item,
         ResumedInv, RequestInv, ExecInv
<1>4. AnswerInv' /\ OneOwner'
  BY DEF PlaceTypes, AnswerTypes, GateTypes, RowTypes, WorkTypes, AnswerInv, DriverInv,
         RequestInv, OneOwner
<1>5. RequestInv' /\ InvokedInv'
  BY DEF GateTypes, RowTypes, CloseTypes, ReqLocked, RequestInv, DriverInv, AnswerInv,
         InvokedInv, ExecInv
<1>6. ExecInv' /\ ItemInv'
  BY DEF PlaceTypes, WorkTypes, RowTypes, ExecInv, ItemInv
<1>7. CloseInv' /\ ReportInv' /\ CountInv' /\ HeldInv'
  BY DEF CloseTypes, RowTypes, CloseInv, PlaceTypes, AnswerTypes, ReportInv, CountInv,
         Completed, HeldInv, Waits
<1>8. ChargeInv'
  BY DEF PlaceTypes, GateTypes, RowTypes, ChargeInv, Waits, InCharge
<1> QED BY <1>1, <1>2, <1>3, <1>4, <1>5, <1>6, <1>7, <1>8

LEMMA FlowCloseCommitKeeps ==
  ASSUME AInv, FlowCloseCommit
  PROVE  AInv'
<1> USE DEF AInv, FlowCloseCommit, CloseCommit, Idle, StepLocked, CallLocked, ReqLocked,
            AStepLocked
<1>0. at[Driver] \in {"buildCall", "buildReq"} => Item(Driver) \in Calls
  BY ItemIsCall DEF ItemInv
<1>a. run' = closing.status /\ run' \in RunTerminal
  BY DEF CloseInv
<1>b. \A c \in Calls : \/ req'[c] = req[c]
                       \/ req[c] = "pending" /\ req'[c] = "cancelled"
  BY DEF RequestInv
<1>c. \A c \in Calls : call'[c] \in {call[c]} \cup RunClosed
  BY DEF CloseInv
<1>d. UNCHANGED <<taskVars, invoked, kind, lapsed, at, flowVars, loop, crashed>>
  BY DEF taskVars
<1>1. RowTypes'
  BY <1>a, <1>c DEF RowTypes, CloseInv
<1>2. CloseTypes'
  <2>1. closing' = Idle /\ lockA' = {} /\ lockR' = None
    OBVIOUS
  <2>2. closing' \in [phase : ClosePhase, status : RunClosed \cup {None},
                      steps : SUBSET Calls, calls : SUBSET Calls]
    BY <2>1 DEF Idle
  <2>3. lockA' \in SUBSET Calls BY <2>1
  <2>4. lockR' \in (SUBSET Calls) \cup {None} BY <2>1, Zenon
  <2> QED BY <2>2, <2>3, <2>4 DEF CloseTypes
<1>3. WorkTypes'
  BY DEF WorkTypes
<1>4. GateTypes'
  <2>1. aStep' \in [Calls -> StepStatus]
    BY DEF GateTypes, CloseInv
  <2>2. req' \in [Calls -> RequestStatus]
    BY <1>b DEF GateTypes
  <2> QED BY <2>1, <2>2 DEF GateTypes
<1>5. PlaceTypes' /\ AnswerTypes' /\ ThreadTypes'
  BY DEF PlaceTypes, AnswerTypes, ThreadTypes
<1>6. DriverInv'
  BY <1>0, <1>a, <1>b, <1>c, <1>d DEF PlaceTypes, WorkTypes, GateTypes, RowTypes,
     ThreadTypes, DriverInv, Item, ResumedInv, RequestInv, ExecInv
<1>7. ResumedInv'
  BY <1>0, <1>a, <1>b, <1>c, <1>d DEF PlaceTypes, ThreadTypes, RowTypes, ResumedInv,
     DriverInv
<1>8. AnswerInv' /\ OneOwner'
  BY DEF PlaceTypes, AnswerTypes, GateTypes, RowTypes, WorkTypes, AnswerInv, DriverInv,
         RequestInv, OneOwner
<1>9. RequestInv'
  BY DEF GateTypes, RowTypes, CloseTypes, ReqLocked, RequestInv, DriverInv, AnswerInv
<1>10. InvokedInv'
  <2> HIDE DEF FlowCloseCommit
  <2>1. \A c \in Calls : /\ invoked'[c] = invoked[c] /\ kind'[c] = kind[c]
                         /\ call[c] # "absent" => call'[c] # "absent"
                         /\ req[c] = "approved" => req'[c] = "approved"
    BY <1>b, <1>c, <1>d
  <2> QED BY <2>1 DEF InvokedInv
<1>11. ExecInv'
  <2> HIDE DEF FlowCloseCommit
  <2>1. \A w \in Workers : at[w] = "exec" /\ call[job[w]] # "absent" => call'[job[w]] # "absent"
    BY <1>c DEF ExecInv
  <2> QED BY <1>d, <2>1 DEF ExecInv
<1>12. ItemInv'
  BY DEF PlaceTypes, ItemInv
<1>13. CloseInv' /\ CountInv'
  BY DEF CloseTypes, RowTypes, CloseInv, CountInv, Completed
<1>14. ReportInv'
  BY <1>a, <1>d DEF CloseInv, ReportInv
<1>15. HeldInv'
  BY <1>a, <1>d DEF HeldInv
<1>16. ChargeInv'
  BY <1>a DEF ChargeInv
<1> QED BY <1>1, <1>2, <1>3, <1>4, <1>5, <1>6, <1>7, <1>8, <1>9, <1>10, <1>11, <1>12,
           <1>13, <1>14, <1>15, <1>16

LEMMA LapseKeeps ==
  ASSUME AInv, NEW c \in Calls, Lapse(c)
  PROVE  AInv'
<1> USE DEF AInv, Lapse
<1>1. RowTypes' /\ CloseTypes' /\ WorkTypes' /\ GateTypes'
  BY DEF RowTypes, CloseTypes, WorkTypes, GateTypes
<1>2. PlaceTypes' /\ AnswerTypes' /\ ThreadTypes'
  BY DEF PlaceTypes, AnswerTypes, ThreadTypes
<1>3. DriverInv' /\ ResumedInv'
  BY DEF PlaceTypes, WorkTypes, GateTypes, RowTypes, ThreadTypes, DriverInv, Item,
         ResumedInv, RequestInv, ExecInv
<1>4. AnswerInv' /\ OneOwner'
  BY DEF PlaceTypes, AnswerTypes, GateTypes, RowTypes, WorkTypes, AnswerInv, DriverInv,
         RequestInv, OneOwner
<1>5. RequestInv' /\ InvokedInv'
  BY DEF GateTypes, RowTypes, CloseTypes, ReqLocked, RequestInv, DriverInv, AnswerInv,
         InvokedInv, ExecInv
<1>6. ExecInv' /\ ItemInv'
  BY DEF PlaceTypes, WorkTypes, RowTypes, ExecInv, ItemInv
<1>7. CloseInv' /\ ReportInv' /\ CountInv' /\ HeldInv'
  BY DEF CloseTypes, RowTypes, CloseInv, PlaceTypes, AnswerTypes, ReportInv, CountInv,
         Completed, HeldInv, Waits
<1>8. ChargeInv'
  BY DEF PlaceTypes, GateTypes, RowTypes, ChargeInv, Waits, InCharge
<1> QED BY <1>1, <1>2, <1>3, <1>4, <1>5, <1>6, <1>7, <1>8

LEMMA CrashKeeps ==
  ASSUME AInv, Crash
  PROVE  AInv'
<1> USE DEF AInv, Crash, Idle
<1>1. RowTypes' /\ WorkTypes' /\ GateTypes'
  BY DEF RowTypes, WorkTypes, GateTypes
<1>2. CloseTypes'
  <2>1. closing' = Idle /\ lockA' = {} /\ lockR' = None
    OBVIOUS
  <2>2. closing' \in [phase : ClosePhase, status : RunClosed \cup {None},
                      steps : SUBSET Calls, calls : SUBSET Calls]
    BY <2>1 DEF Idle
  <2>3. lockA' \in SUBSET Calls BY <2>1
  <2>4. lockR' \in (SUBSET Calls) \cup {None} BY <2>1, Zenon
  <2> QED BY <2>2, <2>3, <2>4 DEF CloseTypes
<1>3. PlaceTypes' /\ AnswerTypes' /\ ThreadTypes'
  BY DEF PlaceTypes, AnswerTypes, ThreadTypes
<1>4. DriverInv' /\ ResumedInv'
  BY DEF PlaceTypes, WorkTypes, GateTypes, RowTypes, ThreadTypes, DriverInv, Item,
         ResumedInv, RequestInv, ExecInv
<1>5. AnswerInv' /\ OneOwner'
  BY DEF PlaceTypes, AnswerTypes, GateTypes, RowTypes, WorkTypes, AnswerInv, DriverInv,
         RequestInv, OneOwner
<1>6. RequestInv' /\ InvokedInv'
  BY DEF GateTypes, RowTypes, CloseTypes, ReqLocked, RequestInv, DriverInv, AnswerInv,
         InvokedInv, ExecInv
<1>7. ExecInv' /\ ItemInv'
  BY DEF PlaceTypes, WorkTypes, RowTypes, ExecInv, ItemInv
<1>8. CloseInv' /\ ReportInv' /\ CountInv' /\ HeldInv'
  BY DEF CloseTypes, RowTypes, CloseInv, PlaceTypes, AnswerTypes, ReportInv, CountInv,
         Completed, HeldInv, Waits
<1>9. ChargeInv'
  BY DEF PlaceTypes, GateTypes, RowTypes, ChargeInv, Waits, InCharge
<1> QED BY <1>1, <1>2, <1>3, <1>4, <1>5, <1>6, <1>7, <1>8, <1>9

LEMMA CallLLMKeeps ==
  ASSUME AInv, NEW w \in Workers, CallLLM(w)
  PROVE  AInv'
<1> USE DEF AInv, CallLLM
<1>1. RowTypes' /\ CloseTypes' /\ WorkTypes' /\ GateTypes'
  BY DEF RowTypes, CloseTypes, WorkTypes, GateTypes
<1>2. PlaceTypes'
  BY DEF PlaceTypes
<1>3. AnswerTypes'
  BY DEF AnswerTypes
<1>4. ThreadTypes'
  BY DEF ThreadTypes
<1>5. DriverInv' /\ ResumedInv'
  BY DEF PlaceTypes, WorkTypes, GateTypes, RowTypes, ThreadTypes, DriverInv, Item,
         ResumedInv, RequestInv, ExecInv
<1>6. AnswerInv'
  BY DEF PlaceTypes, AnswerTypes, GateTypes, RowTypes, WorkTypes, AnswerInv, DriverInv,
         RequestInv
<1>7. OneOwner'
  <2>1. at'[w] \in {"build", "state"} /\ \A v \in Workers \ {w} : at'[v] = at[v]
    BY DEF PlaceTypes
  <2> QED BY <2>1 DEF OneOwner
<1>8. RequestInv' /\ InvokedInv'
  BY DEF GateTypes, RowTypes, CloseTypes, ReqLocked, RequestInv, DriverInv, AnswerInv,
         InvokedInv, ExecInv
<1>9. ExecInv'
  BY DEF PlaceTypes, WorkTypes, RowTypes, ExecInv
<1>10. ItemInv'
  BY DEF PlaceTypes, ItemInv
<1>11. CloseInv' /\ ReportInv' /\ CountInv' /\ HeldInv'
  BY DEF CloseTypes, RowTypes, CloseInv, PlaceTypes, AnswerTypes, ReportInv, CountInv,
         Completed, HeldInv, Waits
<1>12. ChargeInv'
  <2>1. InCharge(w)' BY DEF PlaceTypes, InCharge
  <2> QED BY <2>1 DEF ChargeInv
<1> QED BY <1>1, <1>2, <1>3, <1>4, <1>5, <1>6, <1>7, <1>8, <1>9, <1>10, <1>11, <1>12

LEMMA KnownItemKeeps ==
  ASSUME AInv, NEW w \in Workers, KnownItem(w)
  PROVE  AInv'
<1> USE DEF AInv, KnownItem, Item
<1>1. RowTypes' /\ CloseTypes' /\ WorkTypes' /\ GateTypes'
  BY DEF RowTypes, CloseTypes, WorkTypes, GateTypes
<1>2. PlaceTypes' /\ AnswerTypes' /\ ThreadTypes'
  BY DEF PlaceTypes, AnswerTypes, ThreadTypes
<1>3. DriverInv' /\ ResumedInv'
  BY DEF PlaceTypes, WorkTypes, GateTypes, RowTypes, ThreadTypes, DriverInv, Item,
         ResumedInv, RequestInv, ExecInv
<1>4. AnswerInv' /\ OneOwner'
  BY DEF PlaceTypes, AnswerTypes, GateTypes, RowTypes, WorkTypes, AnswerInv, DriverInv,
         RequestInv, OneOwner
<1>5. RequestInv' /\ InvokedInv'
  BY DEF GateTypes, RowTypes, CloseTypes, ReqLocked, RequestInv, DriverInv, AnswerInv,
         InvokedInv, ExecInv
<1>6. ExecInv' /\ ItemInv'
  BY DEF PlaceTypes, WorkTypes, RowTypes, ExecInv, ItemInv
<1>7. CloseInv' /\ ReportInv' /\ CountInv' /\ HeldInv'
  BY DEF CloseTypes, RowTypes, CloseInv, PlaceTypes, AnswerTypes, ReportInv, CountInv,
         Completed, HeldInv, Waits
<1>8. ChargeInv'
  <2>1. InCharge(w)' BY DEF PlaceTypes, InCharge
  <2> QED BY <2>1 DEF ChargeInv
<1> QED BY <1>1, <1>2, <1>3, <1>4, <1>5, <1>6, <1>7, <1>8

LEMMA ApprovalStepKeeps ==
  ASSUME AInv, NEW w \in Workers, ApprovalStep(w)
  PROVE  AInv'
<1> USE DEF AInv, ApprovalStep, Item, CreateStepRow
<1>0. w = Driver /\ Item(w) \in Calls
  BY ItemIsCall DEF ResumedInv
<1>1. RowTypes' /\ CloseTypes' /\ WorkTypes'
  BY DEF RowTypes, CloseTypes, WorkTypes
<1>2. GateTypes'
  BY <1>0 DEF GateTypes
<1>3. PlaceTypes' /\ AnswerTypes' /\ ThreadTypes'
  BY DEF PlaceTypes, AnswerTypes, ThreadTypes
<1>4. DriverInv'
  BY <1>0 DEF PlaceTypes, WorkTypes, GateTypes, RowTypes, ThreadTypes, DriverInv, Item,
     ResumedInv, RequestInv, ExecInv
<1>5. ResumedInv'
  BY <1>0 DEF PlaceTypes, ThreadTypes, RowTypes, ResumedInv, DriverInv
<1>6. AnswerInv' /\ OneOwner'
  BY DEF PlaceTypes, AnswerTypes, GateTypes, RowTypes, WorkTypes, AnswerInv, DriverInv,
         RequestInv, OneOwner
<1>7. RequestInv' /\ InvokedInv'
  BY DEF GateTypes, RowTypes, CloseTypes, ReqLocked, RequestInv, DriverInv, AnswerInv,
         InvokedInv, ExecInv
<1>8. ExecInv' /\ ItemInv'
  BY DEF PlaceTypes, WorkTypes, RowTypes, ExecInv, ItemInv
<1>9. CloseInv' /\ ReportInv' /\ CountInv' /\ HeldInv'
  BY DEF CloseTypes, RowTypes, CloseInv, PlaceTypes, AnswerTypes, ReportInv, CountInv,
         Completed, HeldInv, Waits
<1>10. ChargeInv'
  <2>1. InCharge(w)' BY DEF PlaceTypes, InCharge
  <2> QED BY <2>1 DEF ChargeInv
<1> QED BY <1>1, <1>2, <1>3, <1>4, <1>5, <1>6, <1>7, <1>8, <1>9, <1>10

LEMMA ApprovalCallKeeps ==
  ASSUME AInv, NEW w \in Workers, ApprovalCall(w)
  PROVE  AInv'
<1> USE DEF AInv, ApprovalCall, Item
<1>0. w = Driver /\ Item(w) \in Calls
  BY ItemIsCall DEF ResumedInv, ItemInv
<1>1. RowTypes'
  BY <1>0 DEF RowTypes
<1>2. CloseTypes' /\ WorkTypes' /\ GateTypes'
  BY DEF CloseTypes, WorkTypes, GateTypes
<1>3. PlaceTypes' /\ AnswerTypes' /\ ThreadTypes'
  BY DEF PlaceTypes, AnswerTypes, ThreadTypes
<1>4. DriverInv'
  <2>1. at'[Driver] = "buildReq" /\ call'[Item(Driver)] # "absent"
    BY <1>0 DEF PlaceTypes, RowTypes
  <2>2. Item(Driver)' = Item(Driver) BY DEF Item
  <2> QED BY <1>0, <2>1, <2>2 DEF DriverInv
<1>5. ResumedInv'
  BY DEF PlaceTypes, ThreadTypes, RowTypes, ResumedInv, DriverInv
<1>6. AnswerInv' /\ OneOwner'
  BY DEF PlaceTypes, AnswerTypes, GateTypes, RowTypes, WorkTypes, AnswerInv, DriverInv,
         RequestInv, OneOwner
<1>7. RequestInv' /\ InvokedInv'
  BY DEF GateTypes, RowTypes, CloseTypes, ReqLocked, RequestInv, DriverInv, AnswerInv,
         InvokedInv, ExecInv
<1>8. ExecInv' /\ ItemInv'
  BY DEF PlaceTypes, WorkTypes, RowTypes, ExecInv, ItemInv
<1>9. CloseInv' /\ ReportInv' /\ CountInv' /\ HeldInv'
  BY DEF CloseTypes, RowTypes, CloseInv, PlaceTypes, AnswerTypes, ReportInv, CountInv,
         Completed, HeldInv, Waits
<1>10. ChargeInv'
  <2>1. InCharge(w)' BY DEF PlaceTypes, InCharge
  <2> QED BY <2>1 DEF ChargeInv
<1> QED BY <1>1, <1>2, <1>3, <1>4, <1>5, <1>6, <1>7, <1>8, <1>9, <1>10

LEMMA ApprovalRequestKeeps ==
  ASSUME AInv, NEW w \in Workers, ApprovalRequest(w)
  PROVE  AInv'
<1> USE DEF AInv, ApprovalRequest, Item, ReqLocked
<1>0. w = Driver /\ Item(w) \in Calls
  BY ItemIsCall DEF ResumedInv, ItemInv
<1>a. req[Item(w)] = "absent" /\ call[Item(w)] # "absent" /\ kind[Item(w)] = "approve"
  BY <1>0 DEF DriverInv
<1>1. RowTypes' /\ CloseTypes' /\ WorkTypes'
  BY DEF RowTypes, CloseTypes, WorkTypes
<1>2. GateTypes'
  BY <1>0, <1>a DEF GateTypes
<1>3. PlaceTypes'
  BY <1>0 DEF PlaceTypes, ItemInv
<1>4. AnswerTypes' /\ ThreadTypes'
  BY DEF AnswerTypes, ThreadTypes
<1>5. DriverInv' /\ ResumedInv'
  BY DEF PlaceTypes, WorkTypes, GateTypes, RowTypes, ThreadTypes, DriverInv, Item,
         ResumedInv, RequestInv, ExecInv
<1>6. AnswerInv'
  BY <1>0, <1>a DEF PlaceTypes, AnswerTypes, GateTypes, RowTypes, WorkTypes, AnswerInv,
     DriverInv, RequestInv
<1>7. OneOwner'
  BY DEF PlaceTypes, AnswerTypes, OneOwner, AnswerInv, DriverInv
<1>8. RequestInv'
  BY <1>0, <1>a DEF GateTypes, RowTypes, CloseTypes, ReqLocked, RequestInv, DriverInv,
     AnswerInv
<1>9. InvokedInv'
  BY <1>0, <1>a DEF RowTypes, GateTypes, InvokedInv, ExecInv
<1>10. ExecInv' /\ ItemInv'
  BY DEF PlaceTypes, WorkTypes, RowTypes, ExecInv, ItemInv
<1>11. CloseInv' /\ ReportInv' /\ CountInv' /\ HeldInv'
  BY DEF CloseTypes, RowTypes, CloseInv, PlaceTypes, AnswerTypes, ReportInv, CountInv,
         Completed, HeldInv, Waits
<1>12. ChargeInv'
  <2>1. InCharge(w)' BY DEF PlaceTypes, InCharge
  <2> QED BY <2>1 DEF ChargeInv
<1> QED BY <1>1, <1>2, <1>3, <1>4, <1>5, <1>6, <1>7, <1>8, <1>9, <1>10, <1>11, <1>12

LEMMA AutoItemKeeps ==
  ASSUME AInv, NEW w \in Workers, AutoItem(w)
  PROVE  AInv'
<1> USE DEF AInv, AutoItem, Item, Dispatch, CreateStepRow, Goto
<1>0. w = Driver /\ Item(w) \in Calls
  BY ItemIsCall DEF ResumedInv
<1>1. RowTypes'
  BY <1>0 DEF RowTypes
<1>2. CloseTypes' /\ GateTypes'
  BY DEF CloseTypes, GateTypes
<1>3. WorkTypes'
  BY <1>0 DEF WorkTypes
<1>4. PlaceTypes' /\ AnswerTypes' /\ ThreadTypes'
  BY DEF PlaceTypes, AnswerTypes, ThreadTypes
<1>5. DriverInv'
  <2>1. at'[Driver] = "exec" /\ job'[Driver] = Item(Driver)
    BY <1>0 DEF PlaceTypes, WorkTypes
  <2>2. item[Driver] # 0 BY <1>0 DEF ItemInv
  <2> QED BY <1>0, <2>1, <2>2 DEF DriverInv
<1>6. ResumedInv'
  BY DEF PlaceTypes, ThreadTypes, RowTypes, ResumedInv, DriverInv
<1>7. AnswerInv'
  BY <1>0 DEF PlaceTypes, AnswerTypes, GateTypes, RowTypes, WorkTypes, AnswerInv,
     DriverInv, RequestInv
<1>8. OneOwner'
  BY <1>0 DEF PlaceTypes, AnswerTypes, OneOwner, AnswerInv, DriverInv
<1>9. RequestInv' /\ InvokedInv'
  BY DEF GateTypes, RowTypes, CloseTypes, ReqLocked, RequestInv, DriverInv, AnswerInv,
         InvokedInv, ExecInv
<1>10. ExecInv'
  BY <1>0 DEF PlaceTypes, WorkTypes, RowTypes, ExecInv, InvokedInv
<1>11. ItemInv'
  BY DEF PlaceTypes, ItemInv
<1>12. CloseInv' /\ ReportInv' /\ CountInv' /\ HeldInv'
  BY DEF CloseTypes, RowTypes, CloseInv, PlaceTypes, AnswerTypes, ReportInv, CountInv,
         Completed, HeldInv, Waits
<1>13. ChargeInv'
  <2>1. InCharge(w)' BY DEF PlaceTypes, InCharge
  <2> QED BY <2>1 DEF ChargeInv
<1> QED BY <1>1, <1>2, <1>3, <1>4, <1>5, <1>6, <1>7, <1>8, <1>9, <1>10, <1>11, <1>12,
           <1>13

LEMMA ExecDoneKeeps ==
  ASSUME AInv, NEW w \in Workers, ExecDone(w)
  PROVE  AInv'
<1> USE DEF AInv, ExecDone
<1>0. w \in Resolvers <=> item[w] = 0
  BY DEF AnswerInv, DriverInv
<1>1. RowTypes' /\ CloseTypes' /\ WorkTypes' /\ GateTypes'
  BY DEF RowTypes, CloseTypes, WorkTypes, GateTypes
<1>2. PlaceTypes'
  <2>1. item[w] # 0 => item[w] + 1 \in 0 .. Len(Batch) + 1
    BY DEF PlaceTypes, ItemInv
  <2>2. CASE item[w] = 0 BY <2>2 DEF PlaceTypes
  <2>3. CASE item[w] # 0 BY <2>1, <2>3 DEF PlaceTypes
  <2> QED BY <2>2, <2>3
<1>3. AnswerTypes' /\ ThreadTypes'
  BY DEF AnswerTypes, ThreadTypes
<1>4. DriverInv'
  BY DEF PlaceTypes, WorkTypes, GateTypes, RowTypes, ThreadTypes, DriverInv, Item,
         ResumedInv, RequestInv, ExecInv
<1>5. ResumedInv'
  BY <1>0 DEF PlaceTypes, ThreadTypes, RowTypes, ResumedInv, DriverInv
<1>6. AnswerInv'
  BY DEF PlaceTypes, AnswerTypes, GateTypes, RowTypes, WorkTypes, AnswerInv, DriverInv,
         RequestInv
<1>7. OneOwner'
  BY <1>0 DEF PlaceTypes, AnswerTypes, OneOwner, AnswerInv, DriverInv
<1>8. RequestInv' /\ InvokedInv'
  BY DEF GateTypes, RowTypes, CloseTypes, ReqLocked, RequestInv, DriverInv, AnswerInv,
         InvokedInv, ExecInv
<1>9. ExecInv'
  BY DEF PlaceTypes, WorkTypes, RowTypes, ExecInv
<1>10. ItemInv'
  BY DEF PlaceTypes, ItemInv
<1>11. CloseInv' /\ ReportInv' /\ CountInv' /\ HeldInv'
  BY DEF CloseTypes, RowTypes, CloseInv, PlaceTypes, AnswerTypes, ReportInv, CountInv,
         Completed, HeldInv, Waits
<1>12. ChargeInv'
  <2>1. InCharge(w)' BY DEF PlaceTypes, InCharge
  <2> QED BY <2>1 DEF ChargeInv
<1> QED BY <1>1, <1>2, <1>3, <1>4, <1>5, <1>6, <1>7, <1>8, <1>9, <1>10, <1>11, <1>12

LEMMA InterruptKeeps ==
  ASSUME AInv, NEW w \in Workers, Interrupt(w)
  PROVE  AInv'
<1> USE DEF AInv, Interrupt
<1>1. RowTypes' /\ CloseTypes' /\ WorkTypes' /\ GateTypes'
  BY DEF RowTypes, CloseTypes, WorkTypes, GateTypes
<1>2. PlaceTypes' /\ AnswerTypes' /\ ThreadTypes'
  BY DEF PlaceTypes, AnswerTypes, ThreadTypes
<1>3. DriverInv' /\ ResumedInv'
  BY DEF PlaceTypes, WorkTypes, GateTypes, RowTypes, ThreadTypes, DriverInv, Item,
         ResumedInv, RequestInv, ExecInv
<1>4. AnswerInv' /\ OneOwner'
  BY DEF PlaceTypes, AnswerTypes, GateTypes, RowTypes, WorkTypes, AnswerInv, DriverInv,
         RequestInv, OneOwner
<1>5. RequestInv' /\ InvokedInv'
  BY DEF GateTypes, RowTypes, CloseTypes, ReqLocked, RequestInv, DriverInv, AnswerInv,
         InvokedInv, ExecInv
<1>6. ExecInv' /\ ItemInv'
  BY DEF PlaceTypes, WorkTypes, RowTypes, ExecInv, ItemInv
<1>7. CloseInv' /\ ReportInv' /\ CountInv' /\ HeldInv'
  BY DEF CloseTypes, RowTypes, CloseInv, PlaceTypes, AnswerTypes, ReportInv, CountInv,
         Completed, HeldInv, Waits
<1>8. ChargeInv'
  <2>1. InCharge(w)' BY DEF PlaceTypes, InCharge
  <2> QED BY <2>1 DEF ChargeInv
<1> QED BY <1>1, <1>2, <1>3, <1>4, <1>5, <1>6, <1>7, <1>8

LEMMA ReadStateKeeps ==
  ASSUME AInv, NEW w \in Workers, ReadState(w)
  PROVE  AInv'
<1> USE DEF AInv, ReadState
<1>1. RowTypes' /\ CloseTypes' /\ WorkTypes' /\ GateTypes'
  BY DEF RowTypes, CloseTypes, WorkTypes, GateTypes
<1>2. PlaceTypes' /\ AnswerTypes' /\ ThreadTypes'
  BY DEF PlaceTypes, AnswerTypes, ThreadTypes
<1>3. DriverInv' /\ ResumedInv'
  BY DEF PlaceTypes, WorkTypes, GateTypes, RowTypes, ThreadTypes, DriverInv, Item,
         ResumedInv, RequestInv, ExecInv
<1>4. AnswerInv' /\ OneOwner'
  BY DEF PlaceTypes, AnswerTypes, GateTypes, RowTypes, WorkTypes, AnswerInv, DriverInv,
         RequestInv, OneOwner
<1>5. RequestInv' /\ InvokedInv'
  BY DEF GateTypes, RowTypes, CloseTypes, ReqLocked, RequestInv, DriverInv, AnswerInv,
         InvokedInv, ExecInv
<1>6. ExecInv' /\ ItemInv'
  BY DEF PlaceTypes, WorkTypes, RowTypes, ExecInv, ItemInv
<1>7. CloseInv' /\ ReportInv' /\ CountInv' /\ HeldInv'
  BY DEF CloseTypes, RowTypes, CloseInv, PlaceTypes, AnswerTypes, ReportInv, CountInv,
         Completed, HeldInv, Waits
<1>8. ChargeInv'
  <2>1. InCharge(w)' BY DEF PlaceTypes, InCharge
  <2> QED BY <2>1 DEF ChargeInv
<1> QED BY <1>1, <1>2, <1>3, <1>4, <1>5, <1>6, <1>7, <1>8

LEMMA ExpirePendingKeeps ==
  ASSUME AInv, NEW w \in Workers, ExpirePending(w)
  PROVE  AInv'
<1> USE DEF AInv, ExpirePending, ReqLocked
<1>0. at[Driver] \in {"buildCall", "buildReq"} => Item(Driver) \in Calls
  BY ItemIsCall DEF ItemInv
<1>1. RowTypes' /\ CloseTypes' /\ WorkTypes' /\ GateTypes'
  BY DEF RowTypes, CloseTypes, WorkTypes, GateTypes
<1>2. PlaceTypes' /\ AnswerTypes' /\ ThreadTypes'
  BY DEF PlaceTypes, AnswerTypes, ThreadTypes
<1>3. DriverInv'
  BY <1>0 DEF PlaceTypes, WorkTypes, GateTypes, RowTypes, ThreadTypes, DriverInv, Item,
     ResumedInv, RequestInv, ExecInv
<1>4. ResumedInv'
  BY DEF PlaceTypes, ThreadTypes, RowTypes, ResumedInv, DriverInv
<1>5. AnswerInv' /\ OneOwner'
  BY DEF PlaceTypes, AnswerTypes, GateTypes, RowTypes, WorkTypes, AnswerInv, DriverInv,
         RequestInv, OneOwner
<1>6. RequestInv' /\ InvokedInv'
  BY DEF GateTypes, RowTypes, CloseTypes, ReqLocked, RequestInv, DriverInv, AnswerInv,
         InvokedInv, ExecInv
<1>7. ExecInv' /\ ItemInv'
  BY DEF PlaceTypes, WorkTypes, RowTypes, ExecInv, ItemInv
<1>8. CloseInv' /\ ReportInv' /\ CountInv' /\ HeldInv'
  BY DEF CloseTypes, RowTypes, CloseInv, PlaceTypes, AnswerTypes, ReportInv, CountInv,
         Completed, HeldInv, Waits
<1>9. ChargeInv'
  <2>1. InCharge(w)' BY DEF PlaceTypes, InCharge
  <2> QED BY <2>1 DEF ChargeInv
<1> QED BY <1>1, <1>2, <1>3, <1>4, <1>5, <1>6, <1>7, <1>8, <1>9

LEMMA FinalizePendingKeeps ==
  ASSUME AInv, NEW w \in Workers, FinalizePending(w)
  PROVE  AInv'
<1> USE DEF AInv, FinalizePending, RequestPending
<1>1. RowTypes' /\ CloseTypes' /\ WorkTypes' /\ GateTypes'
  BY DEF RowTypes, CloseTypes, WorkTypes, GateTypes
<1>2. PlaceTypes' /\ AnswerTypes' /\ ThreadTypes'
  BY DEF PlaceTypes, AnswerTypes, ThreadTypes
<1>3. DriverInv' /\ ResumedInv'
  BY DEF PlaceTypes, WorkTypes, GateTypes, RowTypes, ThreadTypes, DriverInv, Item,
         ResumedInv, RequestInv, ExecInv
<1>4. AnswerInv' /\ OneOwner'
  BY DEF PlaceTypes, AnswerTypes, GateTypes, RowTypes, WorkTypes, AnswerInv, DriverInv,
         RequestInv, OneOwner
<1>5. RequestInv' /\ InvokedInv'
  BY DEF GateTypes, RowTypes, CloseTypes, ReqLocked, RequestInv, DriverInv, AnswerInv,
         InvokedInv, ExecInv
<1>6. ExecInv' /\ ItemInv'
  BY DEF PlaceTypes, WorkTypes, RowTypes, ExecInv, ItemInv
<1>7. CloseInv' /\ ReportInv' /\ CountInv' /\ HeldInv'
  BY DEF CloseTypes, RowTypes, CloseInv, PlaceTypes, AnswerTypes, ReportInv, CountInv,
         Completed, HeldInv, Waits
<1>8. ChargeInv'
  <2>1. InCharge(w)' BY DEF PlaceTypes, InCharge
  <2> QED BY <2>1 DEF ChargeInv
<1> QED BY <1>1, <1>2, <1>3, <1>4, <1>5, <1>6, <1>7, <1>8

LEMMA SuspendKeeps ==
  ASSUME AInv, NEW w \in Workers, Suspend(w)
  PROVE  AInv'
<1> USE DEF AInv, Suspend, SetRun, RunLocked, UpdateRunStatus
<1>1. RowTypes' /\ CloseTypes' /\ WorkTypes' /\ GateTypes'
  BY DEF RowTypes, CloseTypes, WorkTypes, GateTypes
<1>2. PlaceTypes' /\ AnswerTypes' /\ ThreadTypes'
  BY DEF PlaceTypes, AnswerTypes, ThreadTypes
<1>3. DriverInv' /\ ResumedInv'
  BY DEF PlaceTypes, WorkTypes, GateTypes, RowTypes, ThreadTypes, DriverInv, Item,
         ResumedInv, RequestInv, ExecInv
<1>4. AnswerInv' /\ OneOwner'
  BY DEF PlaceTypes, AnswerTypes, GateTypes, RowTypes, WorkTypes, AnswerInv, DriverInv,
         RequestInv, OneOwner
<1>5. RequestInv' /\ InvokedInv'
  BY DEF GateTypes, RowTypes, CloseTypes, ReqLocked, RequestInv, DriverInv, AnswerInv,
         InvokedInv, ExecInv
<1>6. ExecInv' /\ ItemInv'
  BY DEF PlaceTypes, WorkTypes, RowTypes, ExecInv, ItemInv
<1>7. CloseInv' /\ ReportInv' /\ HeldInv'
  BY DEF CloseTypes, RowTypes, CloseInv, PlaceTypes, AnswerTypes, ReportInv, HeldInv,
         Waits
<1>8. CountInv'
  BY StopCount
<1>9. ChargeInv'
  <2>1. run \in RunTerminal => run' = run BY DEF HeldInv
  <2>2. run \notin RunTerminal => run' = "waiting_approval" /\ Waits BY DEF HeldInv
  <2>3. Waits' = Waits BY DEF Waits
  <2> QED BY <2>1, <2>2, <2>3 DEF ChargeInv
<1> QED BY <1>1, <1>2, <1>3, <1>4, <1>5, <1>6, <1>7, <1>8, <1>9

LEMMA CompleteKeeps ==
  ASSUME AInv, NEW w \in Workers, Complete(w)
  PROVE  AInv'
<1> USE DEF AInv, Complete, SetRun, RunLocked, UpdateRunStatus
<1>1. RowTypes' /\ CloseTypes' /\ WorkTypes' /\ GateTypes'
  BY DEF RowTypes, CloseTypes, WorkTypes, GateTypes
<1>2. PlaceTypes' /\ AnswerTypes' /\ ThreadTypes'
  BY DEF PlaceTypes, AnswerTypes, ThreadTypes
<1>3. DriverInv' /\ ResumedInv'
  BY DEF PlaceTypes, WorkTypes, GateTypes, RowTypes, ThreadTypes, DriverInv, Item,
         ResumedInv, RequestInv, ExecInv
<1>4. AnswerInv'
  BY DEF PlaceTypes, AnswerTypes, GateTypes, RowTypes, WorkTypes, AnswerInv, DriverInv,
         RequestInv
<1>5. OneOwner'
  BY DEF PlaceTypes, AnswerTypes, OneOwner, AnswerInv, DriverInv
<1>6. RequestInv' /\ InvokedInv'
  BY DEF GateTypes, RowTypes, CloseTypes, ReqLocked, RequestInv, DriverInv, AnswerInv,
         InvokedInv, ExecInv
<1>7. ExecInv' /\ ItemInv'
  BY DEF PlaceTypes, WorkTypes, RowTypes, ExecInv, ItemInv
<1>8. CloseInv'
  BY DEF CloseTypes, RowTypes, CloseInv
<1>9. ReportInv'
  BY DEF RowTypes, PlaceTypes, AnswerTypes, ReportInv
<1>10. CountInv'
  <2>1. CASE UNCHANGED event BY <2>1 DEF CountInv, Completed
  <2>2. CASE Stop(w, "failed") BY <2>2, StopCount
  <2> QED BY <2>1, <2>2
<1>11. HeldInv'
  BY DEF PlaceTypes, HeldInv, Waits
<1>12. ChargeInv'
  BY DEF PlaceTypes, GateTypes, RowTypes, ChargeInv, Waits, InCharge
<1> QED BY <1>1, <1>2, <1>3, <1>4, <1>5, <1>6, <1>7, <1>8, <1>9, <1>10, <1>11, <1>12

LEMMA ReplyKeeps ==
  ASSUME AInv, NEW w \in Workers, Reply(w)
  PROVE  AInv'
<1> USE DEF AInv, Reply
<1>0. CountInv'
  <2>1. w \notin Completed BY DEF ReportInv, Completed
  <2>2. Completed' = Completed \cup {w} BY DEF AnswerTypes, Completed
  <2>3. IsFiniteSet(Completed) BY PartCount DEF Completed
  <2> QED BY <2>1, <2>2, <2>3, FS_AddElement DEF CountInv
<1>1. RowTypes' /\ CloseTypes' /\ WorkTypes' /\ GateTypes'
  BY DEF RowTypes, CloseTypes, WorkTypes, GateTypes
<1>2. PlaceTypes' /\ AnswerTypes' /\ ThreadTypes'
  BY DEF PlaceTypes, AnswerTypes, ThreadTypes
<1>3. DriverInv' /\ ResumedInv'
  BY DEF PlaceTypes, WorkTypes, GateTypes, RowTypes, ThreadTypes, DriverInv, Item,
         ResumedInv, RequestInv, ExecInv
<1>4. AnswerInv' /\ OneOwner'
  BY DEF PlaceTypes, AnswerTypes, GateTypes, RowTypes, WorkTypes, AnswerInv, DriverInv,
         RequestInv, OneOwner
<1>5. RequestInv' /\ InvokedInv'
  BY DEF GateTypes, RowTypes, CloseTypes, ReqLocked, RequestInv, DriverInv, AnswerInv,
         InvokedInv, ExecInv
<1>6. ExecInv' /\ ItemInv'
  BY DEF PlaceTypes, WorkTypes, RowTypes, ExecInv, ItemInv
<1>7. CloseInv' /\ ReportInv' /\ HeldInv'
  BY DEF CloseTypes, RowTypes, CloseInv, PlaceTypes, AnswerTypes, ReportInv, HeldInv,
         Waits
<1>8. CountInv'
  BY <1>0
<1>9. ChargeInv'
  BY DEF ReportInv, ChargeInv
<1> QED BY <1>1, <1>2, <1>3, <1>4, <1>5, <1>6, <1>7, <1>8, <1>9

LEMMA FailKeeps ==
  ASSUME AInv, NEW w \in Workers, Fail(w)
  PROVE  AInv'
<1> USE DEF AInv, Fail, SetRun, RunLocked, UpdateRunStatus
<1>1. RowTypes' /\ CloseTypes' /\ WorkTypes' /\ GateTypes'
  BY DEF RowTypes, CloseTypes, WorkTypes, GateTypes
<1>2. PlaceTypes' /\ AnswerTypes' /\ ThreadTypes'
  BY DEF PlaceTypes, AnswerTypes, ThreadTypes
<1>3. DriverInv' /\ ResumedInv'
  BY DEF PlaceTypes, WorkTypes, GateTypes, RowTypes, ThreadTypes, DriverInv, Item,
         ResumedInv, RequestInv, ExecInv
<1>4. AnswerInv' /\ OneOwner'
  BY DEF PlaceTypes, AnswerTypes, GateTypes, RowTypes, WorkTypes, AnswerInv, DriverInv,
         RequestInv, OneOwner
<1>5. RequestInv' /\ InvokedInv'
  BY DEF GateTypes, RowTypes, CloseTypes, ReqLocked, RequestInv, DriverInv, AnswerInv,
         InvokedInv, ExecInv
<1>6. ExecInv' /\ ItemInv'
  BY DEF PlaceTypes, WorkTypes, RowTypes, ExecInv, ItemInv
<1>7. CloseInv' /\ ReportInv' /\ HeldInv'
  BY DEF CloseTypes, RowTypes, CloseInv, PlaceTypes, AnswerTypes, ReportInv, HeldInv,
         Waits
<1>8. CountInv'
  BY StopCount
<1>9. ChargeInv'
  BY DEF PlaceTypes, GateTypes, RowTypes, ChargeInv, Waits, InCharge
<1> QED BY <1>1, <1>2, <1>3, <1>4, <1>5, <1>6, <1>7, <1>8, <1>9

LEMMA LookKeeps ==
  ASSUME AInv, NEW w \in Workers, NEW c \in Calls, NEW a \in {"approved", "rejected"},
         Look(w, c, a)
  PROVE  AInv'
<1> USE DEF AInv, Look
<1>0. a # None /\ target'[w] = c /\ act'[w] = a /\ at'[w] \in {"resolve", "done"}
  BY NoneAssumption DEF PlaceTypes, AnswerTypes
<1>a. \A v \in Workers \ {w} : at'[v] = at[v] /\ target'[v] = target[v] /\ act'[v] = act[v]
  BY DEF PlaceTypes, AnswerTypes
<1>1. RowTypes' /\ CloseTypes' /\ WorkTypes' /\ GateTypes'
  BY DEF RowTypes, CloseTypes, WorkTypes, GateTypes
<1>2. PlaceTypes' /\ AnswerTypes' /\ ThreadTypes'
  BY DEF PlaceTypes, AnswerTypes, ThreadTypes
<1>3. DriverInv' /\ ResumedInv'
  BY DEF PlaceTypes, WorkTypes, GateTypes, RowTypes, ThreadTypes, DriverInv, Item,
         ResumedInv, RequestInv, ExecInv
<1>4. AnswerInv'
  BY <1>0, <1>a DEF PlaceTypes, AnswerTypes, GateTypes, RowTypes, WorkTypes, AnswerInv,
     DriverInv, RequestInv
<1>5. OneOwner'
  BY DEF PlaceTypes, AnswerTypes, OneOwner, AnswerInv, DriverInv
<1>6. RequestInv' /\ InvokedInv'
  BY DEF GateTypes, RowTypes, CloseTypes, ReqLocked, RequestInv, DriverInv, AnswerInv,
         InvokedInv, ExecInv
<1>7. ExecInv' /\ ItemInv'
  BY DEF PlaceTypes, WorkTypes, RowTypes, ExecInv, ItemInv
<1>8. CloseInv'
  BY DEF CloseTypes, RowTypes, CloseInv
<1>9. ReportInv'
  BY DEF RowTypes, PlaceTypes, AnswerTypes, ReportInv
<1>10. CountInv'
    <2>1. CASE UNCHANGED event BY <2>1 DEF CountInv, Completed
    <2>2. CASE Stop(w, "error") BY <2>2, StopCount
    <2> QED BY <2>1, <2>2
<1>11. HeldInv'
  BY DEF PlaceTypes, HeldInv, Waits
<1>12. ChargeInv'
  <2>1. \A v \in Workers : InCharge(v) => InCharge(v)' BY <1>a DEF InCharge
  <2>2. Waits' = Waits /\ run' = run /\ crashed' = crashed BY DEF Waits
  <2> QED BY <2>1, <2>2 DEF ChargeInv
<1> QED BY <1>1, <1>2, <1>3, <1>4, <1>5, <1>6, <1>7, <1>8, <1>9, <1>10, <1>11, <1>12

LEMMA ResolveKeeps ==
  ASSUME AInv, NEW w \in Workers, Resolve(w)
  PROVE  AInv'
<1> USE DEF AInv, Resolve, ReqLocked, ResolveRequest
<1>0. at[Driver] \in {"buildCall", "buildReq"} => Item(Driver) \in Calls
  BY ItemIsCall DEF ItemInv
<1>a. w \in Resolvers /\ target[w] \in Calls /\ req[target[w]] # "absent"
  BY DEF AnswerInv, DriverInv
<1>b. \A c \in Calls \ {target[w]} : req'[c] = req[c]
  BY <1>a DEF GateTypes
<1>c. \/ /\ target[w] \in lapsed /\ req'[target[w]] = "expired"
         /\ req[target[w]] \notin {"approved", "rejected"} /\ Stop(w, "error")
      \/ /\ req'[target[w]] = req[target[w]] /\ req[target[w]] # "pending"
         /\ Stop(w, "error")
      \/ /\ req[target[w]] = "pending" /\ target[w] \notin lapsed /\ UNCHANGED event
         /\ \/ act[w] = "approved" /\ req'[target[w]] = "approved" /\ Go(w, "appStep")
            \/ act[w] = "rejected" /\ req'[target[w]] = "rejected" /\ Go(w, "rejStep")
  BY <1>a DEF GateTypes, AnswerTypes, RequestInv, AnswerInv
<1>d. UNCHANGED <<vars, planVars, lapsed, item, target, act, kind, invoked>>
  OBVIOUS
<1>e. \A v \in Workers \ {w} : at'[v] = at[v]
  BY <1>c DEF PlaceTypes
<1>f. at[w] = "resolve"
  OBVIOUS
<1>1. RowTypes' /\ CloseTypes' /\ WorkTypes'
  BY DEF RowTypes, CloseTypes, WorkTypes
<1>2. GateTypes'
  BY <1>a, <1>c DEF GateTypes
<1>3. PlaceTypes'
  BY <1>a, <1>c DEF PlaceTypes
<1>4. AnswerTypes'
  BY <1>a, <1>c DEF AnswerTypes
<1>5. ThreadTypes'
  BY DEF ThreadTypes
<1>6. DriverInv'
  BY <1>0, <1>a, <1>b, <1>c DEF PlaceTypes, WorkTypes, GateTypes, RowTypes, ThreadTypes,
     DriverInv, Item, ResumedInv, RequestInv, ExecInv
<1>7. ResumedInv'
  BY DEF PlaceTypes, ThreadTypes, RowTypes, ResumedInv, DriverInv
<1>8. AnswerInv'
  <2> HIDE DEF Resolve
  <2>1. ASSUME NEW v \in Resolvers, v # w, at[v] \in {"resolve", "rejStep", "rejCall"} \cup Owning
        PROVE  /\ req'[target[v]] # "absent"
               /\ at[v] \in {"rejStep", "rejCall"} => req'[target[v]] = "rejected"
               /\ at[v] \in Owning => req'[target[v]] = "approved"
    BY <1>a, <1>b, <1>c, <2>1 DEF AnswerInv
  <2>2. req[target[w]] = "pending" => invoked[target[w]] = {}
    BY <1>a DEF InvokedInv, RequestInv
  <2>3. /\ at'[w] \in {"done", "appStep", "rejStep"} /\ item[w] = 0
        /\ at'[w] = "appStep" => req'[target[w]] = "approved" /\ invoked[target[w]] = {}
        /\ at'[w] = "rejStep" => req'[target[w]] = "rejected"
    BY <1>a, <1>c, <1>f, <2>2 DEF AnswerInv, PlaceTypes
  <2>4. UNCHANGED <<item, target, act, job, invoked>>
    BY <1>d
  <2>5. ASSUME NEW v \in Resolvers, v # w
        PROVE  /\ at[v] \in {"idle", "resolve", "rejStep", "rejCall"} \cup Owning => item[v] = 0
               /\ at[v] \in {"resolve", "rejStep", "rejCall"} \cup Owning => target[v] \in Calls
               /\ at[v] = "resolve" => act[v] # None
               /\ at[v] \in {"appStep", "appAppend"} => invoked[target[v]] = {}
               /\ at[v] = "exec" => job[v] = target[v]
    BY DEF AnswerInv
  <2> QED BY <1>a, <1>e, <2>1, <2>3, <2>4, <2>5 DEF AnswerInv
<1>9. OneOwner'
  BY DEF PlaceTypes, AnswerTypes, OneOwner, AnswerInv, DriverInv
<1>10. RequestInv'
  BY <1>0, <1>a, <1>b, <1>c DEF GateTypes, RowTypes, CloseTypes, ReqLocked, RequestInv,
     DriverInv, AnswerInv
<1>11. InvokedInv'
  <2> HIDE DEF Resolve
  <2> QED BY <1>a, <1>b, <1>c, <1>d DEF RowTypes, GateTypes, InvokedInv, ExecInv
<1>12. ExecInv' /\ ItemInv'
  BY DEF PlaceTypes, WorkTypes, RowTypes, ExecInv, ItemInv
<1>13. CloseInv'
  BY DEF CloseTypes, RowTypes, CloseInv
<1>14. ReportInv'
  BY DEF RowTypes, PlaceTypes, AnswerTypes, ReportInv
<1>15. CountInv'
  <2>1. CASE UNCHANGED event BY <2>1 DEF CountInv, Completed
  <2>2. CASE Stop(w, "error") BY <2>2, StopCount
  <2> QED BY <1>c, <2>1, <2>2
<1>16. HeldInv'
  BY DEF PlaceTypes, HeldInv, Waits
<1>17. ChargeInv'
  <2>1. CASE Stop(w, "error")
    <3>1. \A v \in Workers : InCharge(v) => InCharge(v)'
      BY <2>1 DEF InCharge, PlaceTypes
    <3>2. Waits => Waits' BY <1>a, <1>b, <1>c, <2>1 DEF Waits
    <3> QED BY <3>1, <3>2 DEF ChargeInv
  <2>2. CASE Go(w, "appStep") \/ Go(w, "rejStep")
    <3>1. InCharge(w)' BY <2>2 DEF InCharge, PlaceTypes
    <3> QED BY <3>1 DEF ChargeInv
  <2> QED BY <1>c, <2>1, <2>2
<1> QED BY <1>1, <1>2, <1>3, <1>4, <1>5, <1>6, <1>7, <1>8, <1>9, <1>10, <1>11, <1>12,
           <1>13, <1>14, <1>15, <1>16, <1>17

LEMMA CloseApprovalStepKeeps ==
  ASSUME AInv, NEW w \in Workers, CloseApprovalStep(w)
  PROVE  AInv'
<1> USE DEF AInv, CloseApprovalStep, AStepLocked, CompleteStep
<1>0. target[w] \in Calls
  BY DEF AnswerInv, DriverInv
<1>1. RowTypes' /\ CloseTypes' /\ WorkTypes'
  BY DEF RowTypes, CloseTypes, WorkTypes
<1>2. GateTypes'
  BY <1>0 DEF GateTypes
<1>3. PlaceTypes' /\ AnswerTypes' /\ ThreadTypes'
  BY DEF PlaceTypes, AnswerTypes, ThreadTypes
<1>4. DriverInv' /\ ResumedInv'
  BY DEF PlaceTypes, WorkTypes, GateTypes, RowTypes, ThreadTypes, DriverInv, Item,
         ResumedInv, RequestInv, ExecInv
<1>5. AnswerInv' /\ OneOwner'
  BY DEF PlaceTypes, AnswerTypes, GateTypes, RowTypes, WorkTypes, AnswerInv, DriverInv,
         RequestInv, OneOwner
<1>6. RequestInv' /\ InvokedInv'
  BY DEF GateTypes, RowTypes, CloseTypes, ReqLocked, RequestInv, DriverInv, AnswerInv,
         InvokedInv, ExecInv
<1>7. ExecInv' /\ ItemInv'
  BY DEF PlaceTypes, WorkTypes, RowTypes, ExecInv, ItemInv
<1>8. CloseInv' /\ ReportInv' /\ CountInv' /\ HeldInv'
  BY DEF CloseTypes, RowTypes, CloseInv, PlaceTypes, AnswerTypes, ReportInv, CountInv,
         Completed, HeldInv, Waits
<1>9. ChargeInv'
  <2>1. InCharge(w)' BY DEF PlaceTypes, InCharge
  <2> QED BY <2>1 DEF ChargeInv
<1> QED BY <1>1, <1>2, <1>3, <1>4, <1>5, <1>6, <1>7, <1>8, <1>9

LEMMA RejectCallKeeps ==
  ASSUME AInv, NEW w \in Workers, RejectCall(w)
  PROVE  AInv'
<1> USE DEF AInv, RejectCall, CallLocked, SaveResult, SaveSources
<1>0. target[w] \in Calls
  BY DEF AnswerInv, DriverInv
<1>1. RowTypes'
  BY <1>0 DEF RowTypes
<1>2. CloseTypes' /\ WorkTypes' /\ GateTypes'
  BY DEF CloseTypes, WorkTypes, GateTypes
<1>3. PlaceTypes' /\ AnswerTypes' /\ ThreadTypes'
  BY DEF PlaceTypes, AnswerTypes, ThreadTypes
<1>4. DriverInv' /\ ResumedInv'
  BY DEF PlaceTypes, WorkTypes, GateTypes, RowTypes, ThreadTypes, DriverInv, Item,
         ResumedInv, RequestInv, ExecInv
<1>5. AnswerInv' /\ OneOwner'
  BY DEF PlaceTypes, AnswerTypes, GateTypes, RowTypes, WorkTypes, AnswerInv, DriverInv,
         RequestInv, OneOwner
<1>6. RequestInv' /\ InvokedInv'
  BY DEF GateTypes, RowTypes, CloseTypes, ReqLocked, RequestInv, DriverInv, AnswerInv,
         InvokedInv, ExecInv
<1>7. ExecInv' /\ ItemInv'
  BY DEF PlaceTypes, WorkTypes, RowTypes, ExecInv, ItemInv
<1>8. CloseInv' /\ ReportInv' /\ CountInv' /\ HeldInv'
  BY DEF CloseTypes, RowTypes, CloseInv, PlaceTypes, AnswerTypes, ReportInv, CountInv,
         Completed, HeldInv, Waits
<1>9. ChargeInv'
  <2>1. InCharge(w)' BY DEF PlaceTypes, InCharge
  <2> QED BY <2>1 DEF ChargeInv
<1> QED BY <1>1, <1>2, <1>3, <1>4, <1>5, <1>6, <1>7, <1>8, <1>9

LEMMA ExecuteApprovedKeeps ==
  ASSUME AInv, NEW w \in Workers, ExecuteApproved(w)
  PROVE  AInv'
<1> USE DEF AInv, ExecuteApproved, Dispatch, CreateStepRow, Goto
<1>0. w \in Resolvers /\ target[w] \in Calls /\ invoked[target[w]] = {} /\ item[w] = 0
  BY DEF AnswerInv, DriverInv
<1>1. RowTypes'
  BY <1>0 DEF RowTypes
<1>2. CloseTypes' /\ GateTypes'
  BY DEF CloseTypes, GateTypes
<1>3. WorkTypes'
  BY <1>0 DEF WorkTypes
<1>4. PlaceTypes' /\ AnswerTypes' /\ ThreadTypes'
  BY DEF PlaceTypes, AnswerTypes, ThreadTypes
<1>5. DriverInv' /\ ResumedInv'
  BY DEF PlaceTypes, WorkTypes, GateTypes, RowTypes, ThreadTypes, DriverInv, Item,
         ResumedInv, RequestInv, ExecInv
<1>6. AnswerInv' /\ OneOwner'
  BY DEF PlaceTypes, AnswerTypes, GateTypes, RowTypes, WorkTypes, AnswerInv, DriverInv,
         RequestInv, OneOwner
<1>7. RequestInv' /\ InvokedInv'
  BY DEF GateTypes, RowTypes, CloseTypes, ReqLocked, RequestInv, DriverInv, AnswerInv,
         InvokedInv, ExecInv
<1>8. ExecInv'
  BY <1>0 DEF PlaceTypes, WorkTypes, RowTypes, ExecInv
<1>9. ItemInv'
  BY <1>0 DEF PlaceTypes, ItemInv
<1>10. CloseInv' /\ ReportInv' /\ CountInv' /\ HeldInv'
  BY DEF CloseTypes, RowTypes, CloseInv, PlaceTypes, AnswerTypes, ReportInv, CountInv,
         Completed, HeldInv, Waits
<1>11. ChargeInv'
  <2>1. InCharge(w)' BY DEF PlaceTypes, InCharge
  <2> QED BY <2>1 DEF ChargeInv
<1> QED BY <1>1, <1>2, <1>3, <1>4, <1>5, <1>6, <1>7, <1>8, <1>9, <1>10, <1>11

LEMMA ResolverPendingKeeps ==
  ASSUME AInv, NEW w \in Workers, ResolverPending(w)
  PROVE  AInv'
<1> USE DEF AInv, ResolverPending, RequestPending
<1>0. at'[w] \in {"suspend", "fail", "getState"}
  BY DEF PlaceTypes
<1>a. \A v \in Workers \ {w} : at'[v] = at[v]
  BY DEF PlaceTypes
<1>1. RowTypes' /\ CloseTypes' /\ WorkTypes' /\ GateTypes'
  BY DEF RowTypes, CloseTypes, WorkTypes, GateTypes
<1>2. PlaceTypes' /\ AnswerTypes' /\ ThreadTypes'
  BY DEF PlaceTypes, AnswerTypes, ThreadTypes
<1>3. DriverInv'
  BY DEF PlaceTypes, WorkTypes, GateTypes, RowTypes, ThreadTypes, DriverInv, Item,
         ResumedInv, RequestInv, ExecInv
<1>4. ResumedInv'
  BY <1>0, <1>a DEF PlaceTypes, ThreadTypes, RowTypes, ResumedInv, DriverInv
<1>5. AnswerInv'
  BY DEF PlaceTypes, AnswerTypes, GateTypes, RowTypes, WorkTypes, AnswerInv, DriverInv,
         RequestInv
<1>6. OneOwner'
  BY <1>0, <1>a DEF PlaceTypes, AnswerTypes, OneOwner, AnswerInv, DriverInv
<1>7. RequestInv' /\ InvokedInv'
  BY DEF GateTypes, RowTypes, CloseTypes, ReqLocked, RequestInv, DriverInv, AnswerInv,
         InvokedInv, ExecInv
<1>8. ExecInv' /\ ItemInv'
  BY DEF PlaceTypes, WorkTypes, RowTypes, ExecInv, ItemInv
<1>9. CloseInv' /\ ReportInv' /\ CountInv' /\ HeldInv'
  BY DEF CloseTypes, RowTypes, CloseInv, PlaceTypes, AnswerTypes, ReportInv, CountInv,
         Completed, HeldInv, Waits
<1>10. ChargeInv'
  <2>1. InCharge(w)' BY DEF PlaceTypes, InCharge
  <2> QED BY <2>1 DEF ChargeInv
<1> QED BY <1>1, <1>2, <1>3, <1>4, <1>5, <1>6, <1>7, <1>8, <1>9, <1>10

LEMMA ResumeKeeps ==
  ASSUME AInv, NEW w \in Workers, Resume(w)
  PROVE  AInv'
<1> USE DEF AInv, Resume, SetRun, RunLocked, UpdateRunStatus
<1>1. RowTypes' /\ CloseTypes' /\ WorkTypes' /\ GateTypes'
  BY DEF RowTypes, CloseTypes, WorkTypes, GateTypes
<1>2. PlaceTypes' /\ AnswerTypes'
  BY DEF PlaceTypes, AnswerTypes
<1>3. ThreadTypes'
  <2>1. fed' \in [Workers -> [Calls -> ToolStatus] \cup {None}]
    <3>1. call \in [Calls -> ToolStatus] BY DEF RowTypes
    <3>2. fed' = fed \/ \E x \in [Calls -> ToolStatus] \cup {None} : fed' = [fed EXCEPT ![w] = x]
      BY <3>1
    <3> HIDE DEF ToolStatus, Resume
    <3> QED BY <3>2 DEF ThreadTypes
  <2>2. resumed' \in [Workers -> BOOLEAN]
    <3>1. resumed' = resumed \/ resumed' = [resumed EXCEPT ![w] = TRUE]
      OBVIOUS
    <3> QED BY <3>1 DEF ThreadTypes
  <2> QED BY <2>1, <2>2 DEF ThreadTypes
<1>4. DriverInv' /\ ResumedInv'
  BY DEF PlaceTypes, WorkTypes, GateTypes, RowTypes, ThreadTypes, DriverInv, Item,
         ResumedInv, RequestInv, ExecInv
<1>5. AnswerInv'
  BY DEF PlaceTypes, AnswerTypes, GateTypes, RowTypes, WorkTypes, AnswerInv, DriverInv,
         RequestInv
<1>6. OneOwner'
  BY DEF PlaceTypes, AnswerTypes, OneOwner, AnswerInv, DriverInv
<1>7. RequestInv' /\ InvokedInv'
  BY DEF GateTypes, RowTypes, CloseTypes, ReqLocked, RequestInv, DriverInv, AnswerInv,
         InvokedInv, ExecInv
<1>8. ExecInv' /\ ItemInv'
  BY DEF PlaceTypes, WorkTypes, RowTypes, ExecInv, ItemInv
<1>9. CloseInv'
  BY DEF CloseTypes, RowTypes, CloseInv
<1>10. ReportInv'
  BY DEF RowTypes, PlaceTypes, AnswerTypes, ReportInv
<1>11. CountInv'
  BY DEF CountInv, Completed
<1>12. HeldInv'
  BY DEF PlaceTypes, HeldInv, Waits
<1>13. ChargeInv'
  <2>1. InCharge(w)' BY DEF PlaceTypes, InCharge
  <2> QED BY <2>1 DEF ChargeInv
<1> QED BY <1>1, <1>2, <1>3, <1>4, <1>5, <1>6, <1>7, <1>8, <1>9, <1>10, <1>11, <1>12,
           <1>13

LEMMA RerunKeeps ==
  ASSUME AInv, NEW w \in Workers, Rerun(w)
  PROVE  AInv'
<1> USE DEF AInv, Rerun
<1>0. at'[w] \in {"build", "state"} /\ (at'[w] = "build" => item'[w] = 1 /\ ckpt = "batch")
  BY DEF PlaceTypes
<1>a. \A v \in Workers \ {w} : at'[v] = at[v] /\ item'[v] = item[v]
  BY DEF PlaceTypes
<1>1. RowTypes' /\ CloseTypes' /\ WorkTypes' /\ GateTypes'
  BY DEF RowTypes, CloseTypes, WorkTypes, GateTypes
<1>2. PlaceTypes'
  BY DEF PlaceTypes
<1>3. AnswerTypes'
  BY DEF AnswerTypes
<1>4. ThreadTypes'
  BY DEF ThreadTypes
<1>5. DriverInv'
  BY DEF PlaceTypes, WorkTypes, GateTypes, RowTypes, ThreadTypes, DriverInv, Item,
         ResumedInv, RequestInv, ExecInv
<1>6. ResumedInv'
  BY <1>0, <1>a DEF PlaceTypes, ThreadTypes, RowTypes, ResumedInv, DriverInv
<1>7. AnswerInv'
  BY DEF PlaceTypes, AnswerTypes, GateTypes, RowTypes, WorkTypes, AnswerInv, DriverInv,
         RequestInv
<1>8. OneOwner'
  BY <1>0, <1>a DEF PlaceTypes, AnswerTypes, OneOwner, AnswerInv, DriverInv
<1>9. RequestInv' /\ InvokedInv'
  BY DEF GateTypes, RowTypes, CloseTypes, ReqLocked, RequestInv, DriverInv, AnswerInv,
         InvokedInv, ExecInv
<1>10. ExecInv'
  BY DEF PlaceTypes, WorkTypes, RowTypes, ExecInv
<1>11. ItemInv'
  BY <1>0, <1>a DEF PlaceTypes, ItemInv
<1>12. CloseInv'
  BY DEF CloseTypes, RowTypes, CloseInv
<1>13. ReportInv'
  BY DEF RowTypes, PlaceTypes, AnswerTypes, ReportInv
<1>14. CountInv'
  BY DEF CountInv, Completed
<1>15. HeldInv'
  BY DEF PlaceTypes, HeldInv, Waits
<1>16. ChargeInv'
  <2>1. InCharge(w)' BY DEF PlaceTypes, InCharge
  <2> QED BY <2>1 DEF ChargeInv
<1> QED BY <1>1, <1>2, <1>3, <1>4, <1>5, <1>6, <1>7, <1>8, <1>9, <1>10, <1>11, <1>12,
           <1>13, <1>14, <1>15, <1>16

-----------------------------------------------------------------------------
(***************************************************************************)
(* execute_and_persist_tool_call inside the flow.  What the rest of the    *)
(* flow needs to know of one step of it:                                   *)
(***************************************************************************)
RowsGoOn ==
  \A c \in Calls : /\ call[c] # "absent" => call'[c] # "absent"
                   /\ call'[c] = "rejected" => call[c] = "rejected"

InvokesFirst(w) ==
  \/ UNCHANGED invoked
  \/ /\ invoked[job[w]] = {} /\ call[job[w]] # "absent"
     /\ invoked' = [invoked EXCEPT ![job[w]] = {w}]

ExecMoves(w) ==
  /\ UNCHANGED <<run, closing, job>>
  /\ RowTypes' /\ WorkTypes' /\ ExecInv'
  /\ RowsGoOn /\ InvokesFirst(w)

\* The executing task holds a call of its own that was approved, or that needs
\* no approval.
LEMMA OwnCall ==
  ASSUME AInv, NEW w \in Workers, at[w] = "exec"
  PROVE  /\ job[w] \in Calls
         /\ kind[job[w]] = "approve" => req[job[w]] = "approved"
         /\ call[job[w]] # "rejected"
         /\ \A v \in Workers \ {w} : at[v] = "exec" => job[v] # job[w]
         /\ \A v \in Resolvers \ {w} : at[v] \in Owning => target[v] # job[w]
<1> USE DEF AInv
<1>1. job[w] \in Calls
  BY DEF ExecInv
<1>2. CASE w = Driver
  <2>1. kind[job[w]] = "auto" /\ req[job[w]] = "absent"
    BY <1>1, <1>2 DEF DriverInv, RequestInv, GateTypes
  <2>2. \A v \in Resolvers : at[v] \in Owning => req[target[v]] = "approved"
    BY DEF AnswerInv
  <2>3. \A v \in Resolvers : at[v] = "exec" => job[v] = target[v]
    BY DEF AnswerInv
  <2> QED BY <1>1, <1>2, <2>1, <2>2, <2>3 DEF RequestInv
<1>3. CASE w # Driver
  <2>1. job[w] = target[w] /\ req[job[w]] = "approved"
    BY <1>3 DEF AnswerInv
  <2>2. \A v \in Resolvers \ {w} : at[v] \in Owning => target[v] # job[w]
    BY <1>3, <2>1 DEF OneOwner
  <2>3. \A v \in Resolvers : at[v] = "exec" => job[v] = target[v]
    BY DEF AnswerInv
  <2>4. at[Driver] = "exec" => kind[job[Driver]] = "auto"
    BY DEF DriverInv
  <2>5. kind[job[w]] = "approve"
    BY <1>1, <2>1 DEF RequestInv
  <2> QED BY <1>1, <2>1, <2>2, <2>3, <2>4, <2>5 DEF RequestInv
<1> QED BY <1>2, <1>3

\* A skip keeps the types of what a worker holds.
LEMMA SkipTypes ==
  ASSUME WorkTypes, NEW w \in Workers, NEW status \in ToolTerminal,
         NEW seen \in ToolStatus \cup {None}, Skip(w, status, seen), UNCHANGED job
  PROVE  WorkTypes'
BY DEF WorkTypes, Skip, Goto

LEMMA GotoTypes ==
  ASSUME WorkTypes, NEW w \in Workers, NEW l \in PC, Goto(w, l), UNCHANGED <<job,
         verdict>>,
         view' = view \/ \E seen \in ToolStatus : view' = [view EXCEPT ![w] = seen]
  PROVE  WorkTypes'
BY DEF WorkTypes, Goto

LEMMA BeginStepMoves ==
  ASSUME AInv, NEW w \in Workers, at[w] = "exec", at' = at, BeginStep(w)
  PROVE  ExecMoves(w)
<1> USE OwnCall DEF AInv, BeginStep, StepLocked, StartStep, Goto
<1>1. RowTypes'
  BY DEF RowTypes, WorkTypes, ExecInv
<1>2. WorkTypes'
  BY DEF RowTypes, WorkTypes
<1>3. ExecInv'
  BY DEF ExecInv, RowTypes, WorkTypes
<1>4. RowsGoOn
  BY DEF ExecInv, RowTypes, RowsGoOn
<1>5. UNCHANGED <<run, closing, job>>
  OBVIOUS
<1>6. InvokesFirst(w)
  BY DEF InvokesFirst
<1> QED BY <1>1, <1>2, <1>3, <1>4, <1>5, <1>6 DEF ExecMoves

LEMMA GateMoves ==
  ASSUME AInv, NEW w \in Workers, at[w] = "exec", at' = at, Gate(w)
  PROVE  ExecMoves(w)
<1> USE OwnCall DEF AInv, Gate, Skip, SkipStatus, Goto
<1>1. RowTypes'
  BY DEF RowTypes, WorkTypes, ExecInv
<1>2. WorkTypes'
  <2>1. CASE run \in RunTerminal
    <3>1. SkipStatus(run) \in ToolTerminal /\ None \in ToolStatus \cup {None}
      BY DEF SkipStatus
    <3>2. Skip(w, SkipStatus(run), None) BY <2>1 DEF Gate
    <3> HIDE DEF Skip, SkipStatus
    <3> QED BY <3>1, <3>2, SkipTypes
  <2>2. CASE run \notin RunTerminal
    BY <2>2, GotoTypes
  <2> QED BY <2>1, <2>2
<1>3. ExecInv'
  BY DEF ExecInv, RowTypes, WorkTypes
<1>4. RowsGoOn
  BY DEF ExecInv, RowTypes, RowsGoOn
<1>5. UNCHANGED <<run, closing, job>>
  OBVIOUS
<1>6. InvokesFirst(w)
  BY DEF InvokesFirst
<1> QED BY <1>1, <1>2, <1>3, <1>4, <1>5, <1>6 DEF ExecMoves

LEMMA ObtainMoves ==
  ASSUME AInv, NEW w \in Workers, at[w] = "exec", at' = at, Obtain(w)
  PROVE  ExecMoves(w)
<1> USE OwnCall DEF AInv, Obtain, Skip, Goto
<1>1. RowTypes'
  <2>1. call' = call \/ call' = [call EXCEPT ![job[w]] = "pending"]
    OBVIOUS
  <2>2. UNCHANGED <<run, step, result, started, invoked, told>>
    OBVIOUS
  <2> HIDE DEF Obtain
  <2> QED BY <2>1, <2>2 DEF RowTypes
<1>2. WorkTypes'
  <2>1. job[w] \in Calls /\ call[job[w]] \in ToolStatus
    BY DEF RowTypes
  <2>2. CASE call[job[w]] \in {"absent", "completed"} \cup ToolOpen
    BY <2>1, <2>2, GotoTypes
  <2>3. CASE call[job[w]] = "failed"
    <3>1. Skip(w, "cancelled", call[job[w]]) BY <2>3 DEF Obtain
    <3> HIDE DEF Skip
    <3> QED BY <2>1, <3>1, SkipTypes
  <2>4. CASE call[job[w]] \in {"rejected"} \cup RunClosed
    <3>1. Skip(w, call[job[w]], call[job[w]]) BY <2>4 DEF Obtain
    <3> HIDE DEF Skip
    <3> QED BY <2>1, <2>4, <3>1, SkipTypes
  <2> QED BY <2>1, <2>2, <2>3, <2>4
<1>3. ExecInv'
  BY DEF ExecInv, RowTypes, WorkTypes
<1>4. RowsGoOn
  BY DEF ExecInv, RowTypes, RowsGoOn
<1>5. UNCHANGED <<run, closing, job>>
  OBVIOUS
<1>6. InvokesFirst(w)
  BY DEF InvokesFirst
<1> QED BY <1>1, <1>2, <1>3, <1>4, <1>5, <1>6 DEF ExecMoves

LEMMA ClaimMoves ==
  ASSUME AInv, NEW w \in Workers, at[w] = "exec", at' = at, Claim(w)
  PROVE  ExecMoves(w)
<1> USE OwnCall DEF AInv, Claim, CallLocked, StartExecution, Goto
<1>1. RowTypes'
  BY DEF RowTypes, WorkTypes, ExecInv
<1>2. WorkTypes'
  BY DEF RowTypes, WorkTypes
<1>3. ExecInv'
  BY DEF ExecInv, RowTypes, WorkTypes
<1>4. RowsGoOn
  BY DEF ExecInv, RowTypes, RowsGoOn
<1>5. UNCHANGED <<run, closing, job>>
  OBVIOUS
<1>6. InvokesFirst(w)
  BY DEF InvokesFirst
<1> QED BY <1>1, <1>2, <1>3, <1>4, <1>5, <1>6 DEF ExecMoves

LEMMA RecheckMoves ==
  ASSUME AInv, NEW w \in Workers, at[w] = "exec", at' = at, Recheck(w)
  PROVE  ExecMoves(w)
<1> USE OwnCall DEF AInv, Recheck, Skip, SkipStatus, Goto
<1>1. RowTypes'
  BY DEF RowTypes, WorkTypes, ExecInv
<1>2. WorkTypes'
  <2>1. call[job[w]] \in ToolStatus BY DEF RowTypes
  <2>2. CASE call[job[w]] = "running"
    BY <2>1, <2>2, GotoTypes
  <2>3. CASE call[job[w]] # "running"
    <3>1. SkipStatus(call[job[w]]) \in ToolTerminal BY DEF SkipStatus
    <3>2. Skip(w, SkipStatus(call[job[w]]), call[job[w]]) BY <2>3 DEF Recheck
    <3> HIDE DEF Skip, SkipStatus
    <3> QED BY <2>1, <3>1, <3>2, SkipTypes
  <2> QED BY <2>2, <2>3
<1>3. ExecInv'
  BY DEF ExecInv, RowTypes, WorkTypes
<1>4. RowsGoOn
  BY DEF ExecInv, RowTypes, RowsGoOn
<1>5. UNCHANGED <<run, closing, job>>
  OBVIOUS
<1>6. InvokesFirst(w)
  BY DEF InvokesFirst
<1> QED BY <1>1, <1>2, <1>3, <1>4, <1>5, <1>6 DEF ExecMoves

LEMMA Gate2Moves ==
  ASSUME AInv, NEW w \in Workers, at[w] = "exec", at' = at, Gate2(w)
  PROVE  ExecMoves(w)
<1> USE OwnCall DEF AInv, Gate2, Skip, SkipStatus, Goto
<1>1. RowTypes'
  BY DEF RowTypes, WorkTypes, ExecInv
<1>2. WorkTypes'
  <2>1. CASE run \in RunTerminal
    <3>1. SkipStatus(run) \in ToolTerminal /\ view[w] \in ToolStatus \cup {None}
      BY DEF SkipStatus, WorkTypes
    <3>2. Skip(w, SkipStatus(run), view[w]) BY <2>1 DEF Gate2
    <3> HIDE DEF Skip, SkipStatus
    <3> QED BY <3>1, <3>2, SkipTypes
  <2>2. CASE run \notin RunTerminal
    BY <2>2, GotoTypes
  <2> QED BY <2>1, <2>2
<1>3. ExecInv'
  BY DEF ExecInv, RowTypes, WorkTypes
<1>4. RowsGoOn
  BY DEF ExecInv, RowTypes, RowsGoOn
<1>5. UNCHANGED <<run, closing, job>>
  OBVIOUS
<1>6. InvokesFirst(w)
  BY DEF InvokesFirst
<1> QED BY <1>1, <1>2, <1>3, <1>4, <1>5, <1>6 DEF ExecMoves

LEMMA InvokeMoves ==
  ASSUME AInv, NEW w \in Workers, at[w] = "exec", at' = at, Invoke(w)
  PROVE  ExecMoves(w)
<1> USE OwnCall DEF AInv, Invoke, Goto
<1>1. RowTypes'
  BY DEF RowTypes, WorkTypes, ExecInv
<1>2. WorkTypes'
  BY DEF RowTypes, WorkTypes
<1>3. ExecInv'
  BY DEF ExecInv, RowTypes, WorkTypes
<1>4. RowsGoOn
  BY DEF ExecInv, RowTypes, RowsGoOn
<1>5. UNCHANGED <<run, closing, job>>
  OBVIOUS
<1>6. InvokesFirst(w)
  BY DEF ExecInv, RowTypes, InvokesFirst
<1> QED BY <1>1, <1>2, <1>3, <1>4, <1>5, <1>6 DEF ExecMoves

LEMMA ReturnMoves ==
  ASSUME AInv, NEW w \in Workers, at[w] = "exec", at' = at, Return(w)
  PROVE  ExecMoves(w)
<1> USE OwnCall DEF AInv, Return, Goto
<1>1. RowTypes'
  BY DEF RowTypes, WorkTypes, ExecInv
<1>2. WorkTypes'
  BY DEF RowTypes, WorkTypes
<1>3. ExecInv'
  BY DEF ExecInv, RowTypes, WorkTypes
<1>4. RowsGoOn
  BY DEF ExecInv, RowTypes, RowsGoOn
<1>5. UNCHANGED <<run, closing, job>>
  OBVIOUS
<1>6. InvokesFirst(w)
  BY DEF InvokesFirst
<1> QED BY <1>1, <1>2, <1>3, <1>4, <1>5, <1>6 DEF ExecMoves

LEMMA SaveMoves ==
  ASSUME AInv, NEW w \in Workers, at[w] = "exec", at' = at, Save(w)
  PROVE  ExecMoves(w)
<1> USE OwnCall DEF AInv, Save, Write, CallLocked, SaveResult, SaveSources, Goto
<1>1. RowTypes'
  BY DEF RowTypes, WorkTypes, ExecInv
<1>2. WorkTypes'
  BY DEF RowTypes, WorkTypes
<1>3. ExecInv'
  BY DEF ExecInv, RowTypes, WorkTypes
<1>4. RowsGoOn
  <2>1. job[w] \in Calls /\ verdict[w] \in ToolTerminal \ {"rejected"}
    BY DEF ExecInv, WorkTypes
  <2>2. call' = [call EXCEPT ![job[w]] = SaveResult(@, verdict[w])]
    OBVIOUS
  <2> QED BY ONLY <2>1, <2>2, RowTypes DEF RowTypes, RowsGoOn, SaveResult, SaveSources,
                                         ToolTerminal, ToolStatus
<1>5. UNCHANGED <<run, closing, job>>
  OBVIOUS
<1>6. InvokesFirst(w)
  BY DEF InvokesFirst
<1> QED BY <1>1, <1>2, <1>3, <1>4, <1>5, <1>6 DEF ExecMoves

LEMMA SkipSaveMoves ==
  ASSUME AInv, NEW w \in Workers, at[w] = "exec", at' = at, SkipSave(w)
  PROVE  ExecMoves(w)
<1> USE OwnCall DEF AInv, SkipSave, Write, CallLocked, SaveResult, SaveSources, Goto
<1>1. RowTypes'
  BY DEF RowTypes, WorkTypes, ExecInv
<1>2. WorkTypes'
  BY DEF RowTypes, WorkTypes
<1>3. ExecInv'
  BY DEF ExecInv, RowTypes, WorkTypes
<1>4. RowsGoOn
  <2>1. job[w] \in Calls /\ verdict[w] \in ToolTerminal \ {"rejected"}
    BY DEF ExecInv, WorkTypes
  <2>2. call' = [call EXCEPT ![job[w]] = SaveResult(@, verdict[w])]
    OBVIOUS
  <2> QED BY ONLY <2>1, <2>2, RowTypes DEF RowTypes, RowsGoOn, SaveResult, SaveSources,
                                         ToolTerminal, ToolStatus
<1>5. UNCHANGED <<run, closing, job>>
  OBVIOUS
<1>6. InvokesFirst(w)
  BY DEF InvokesFirst
<1> QED BY <1>1, <1>2, <1>3, <1>4, <1>5, <1>6 DEF ExecMoves

LEMMA FinishMoves ==
  ASSUME AInv, NEW w \in Workers, at[w] = "exec", at' = at, Finish(w)
  PROVE  ExecMoves(w)
<1> USE OwnCall DEF AInv, Finish, StepLocked, CompleteStep, Goto
<1>1. RowTypes'
  BY DEF RowTypes, WorkTypes, ExecInv
<1>2. WorkTypes'
  BY DEF RowTypes, WorkTypes
<1>3. ExecInv'
  BY DEF ExecInv, RowTypes, WorkTypes
<1>4. RowsGoOn
  BY DEF ExecInv, RowTypes, RowsGoOn
<1>5. UNCHANGED <<run, closing, job>>
  OBVIOUS
<1>6. InvokesFirst(w)
  BY DEF InvokesFirst
<1> QED BY <1>1, <1>2, <1>3, <1>4, <1>5, <1>6 DEF ExecMoves

LEMMA NoteMoves ==
  ASSUME AInv, NEW w \in Workers, at[w] = "exec", at' = at, Note(w)
  PROVE  ExecMoves(w)
<1> USE OwnCall DEF AInv, Note, Goto
<1>1. RowTypes'
  BY DEF RowTypes, WorkTypes, ExecInv
<1>2. WorkTypes'
  BY DEF RowTypes, WorkTypes
<1>3. ExecInv'
  BY DEF ExecInv, RowTypes, WorkTypes
<1>4. RowsGoOn
  BY DEF ExecInv, RowTypes, RowsGoOn
<1>5. UNCHANGED <<run, closing, job>>
  OBVIOUS
<1>6. InvokesFirst(w)
  BY DEF InvokesFirst
<1> QED BY <1>1, <1>2, <1>3, <1>4, <1>5, <1>6 DEF ExecMoves

LEMMA ExecStepMoves ==
  ASSUME AInv, NEW w \in Workers, ExecStep(w)
  PROVE  ExecMoves(w)
<1>1. at[w] = "exec" /\ at' = at
  BY DEF ExecStep
<1> QED
  BY <1>1, BeginStepMoves, GateMoves, ObtainMoves, ClaimMoves, RecheckMoves, Gate2Moves,
     InvokeMoves, ReturnMoves, SaveMoves, SkipSaveMoves, FinishMoves, NoteMoves
  DEF ExecStep, Execute

LEMMA ExecStepKeeps ==
  ASSUME AInv, NEW w \in Workers, ExecStep(w)
  PROVE  AInv'
<1>1. /\ at[w] = "exec" /\ UNCHANGED <<planVars, gateVars, lockVars, at, flowVars, crashed>>
      /\ loop \in {None, w} /\ loop' \in {None, w}
  BY DEF ExecStep
<1>2. ExecMoves(w)
  BY ExecStepMoves
<1>3. job[w] \in Calls /\ (kind[job[w]] = "approve" => req[job[w]] = "approved")
      /\ \A v \in Resolvers \ {w} : at[v] \in Owning => target[v] # job[w]
  BY <1>1, OwnCall
<1> USE DEF AInv
<1>4. RowTypes' /\ WorkTypes' /\ ExecInv' /\ UNCHANGED <<run, closing, job>>
  BY <1>2 DEF ExecMoves
<1>5. \A c \in Calls : call[c] # "absent" => call'[c] # "absent"
  BY <1>2 DEF ExecMoves, RowsGoOn
<1>a. \A c \in Calls : call'[c] = "rejected" => call[c] = "rejected"
  BY <1>2 DEF ExecMoves, RowsGoOn
<1>6. \A c \in Calls : \/ invoked'[c] = invoked[c]
                       \/ c = job[w] /\ call[c] # "absent" /\ invoked'[c] = {w}
  BY <1>2, <1>3 DEF ExecMoves, InvokesFirst, RowTypes
<1>7. CloseTypes' /\ GateTypes' /\ AnswerTypes' /\ ThreadTypes'
  BY <1>1, <1>4 DEF CloseTypes, GateTypes, AnswerTypes, ThreadTypes
<1>8. PlaceTypes'
  BY <1>1 DEF PlaceTypes
<1>9. DriverInv'
  <2>1. at[Driver] \in {"buildCall", "buildReq"} => Item(Driver) \in Calls
    BY ItemIsCall DEF ItemInv
  <2>2. Item(Driver)' = Item(Driver) BY <1>1 DEF Item
  <2> QED BY <1>1, <1>4, <1>5, <2>1, <2>2 DEF DriverInv
<1>10. ResumedInv'
  BY <1>1, <1>5 DEF ResumedInv
<1>11. AnswerInv'
  <2>1. \A v \in Resolvers : at[v] \in {"appStep", "appAppend"} =>
          target[v] # job[w] /\ target[v] \in Calls
    BY <1>1, <1>3 DEF AnswerInv
  <2> QED BY <1>1, <1>4, <1>6, <2>1 DEF AnswerInv
<1>12. OneOwner'
  BY <1>1 DEF OneOwner
<1>13. RequestInv'
  BY <1>1, <1>5, <1>a DEF RequestInv, ReqLocked
<1>14. InvokedInv'
  BY <1>1, <1>3, <1>5, <1>6 DEF InvokedInv
<1>15. ItemInv'
  BY <1>1 DEF ItemInv
<1>16. CloseInv' /\ ReportInv'
  BY <1>1, <1>4 DEF CloseInv, ReportInv
<1>17. CountInv'
  BY <1>1 DEF CountInv, Completed
<1>18. HeldInv'
  BY <1>1, <1>4 DEF HeldInv
<1>19. ChargeInv'
  <2>1. Waits' = Waits BY <1>1 DEF Waits
  <2>2. \A v \in Workers : InCharge(v)' = InCharge(v) BY <1>1 DEF InCharge
  <2> QED BY <1>1, <1>4, <2>1, <2>2 DEF ChargeInv
<1> QED BY <1>4, <1>7, <1>8, <1>9, <1>10, <1>11, <1>12, <1>13, <1>14, <1>15, <1>16,
          <1>17, <1>18, <1>19

\* Nothing changes.
LEMMA StutterKeeps ==
  ASSUME AInv, UNCHANGED allVars
  PROVE  AInv'
BY DEF AInv, allVars, RowTypes, CloseTypes, WorkTypes, GateTypes, PlaceTypes, AnswerTypes,
       ThreadTypes, DriverInv, ResumedInv, AnswerInv, OneOwner, RequestInv, ReqLocked,
       InvokedInv, ExecInv, ItemInv, Item, CloseInv, ReportInv, CountInv, Completed,
       HeldInv, ChargeInv, InCharge, Waits

\* The run has just been created and the driver is about to call the model.
LEMMA InitInv == FlowInit => AInv
<1> SUFFICES ASSUME FlowInit PROVE AInv
  OBVIOUS
<1> USE DEF FlowInit, Init, Idle
<1>1. RowTypes /\ CloseTypes /\ WorkTypes /\ GateTypes
  BY DEF RowTypes, CloseTypes, WorkTypes, GateTypes
<1>2. PlaceTypes /\ AnswerTypes /\ ThreadTypes
  <2>1. PlaceTypes
    <3>1. Len(Batch) \in Nat
      OBVIOUS
    <3>2. item \in [Workers -> 0 .. Len(Batch) + 1]
      BY <3>1
    <3>3. at \in [Workers -> At] /\ loop \in Workers \cup {None} /\ crashed \in BOOLEAN
      OBVIOUS
    <3> QED BY <3>2, <3>3 DEF PlaceTypes
  <2>2. AnswerTypes
    BY DEF AnswerTypes
  <2>3. ThreadTypes
    BY DEF ThreadTypes
  <2> QED BY <2>1, <2>2, <2>3
<1>3. DriverInv /\ ResumedInv /\ AnswerInv /\ OneOwner
  BY DEF DriverInv, ResumedInv, AnswerInv, OneOwner
<1>4. RequestInv /\ InvokedInv /\ ExecInv /\ ItemInv
  BY DEF RequestInv, ReqLocked, InvokedInv, ExecInv, ItemInv
<1>5. CloseInv /\ ReportInv /\ HeldInv
  BY DEF CloseInv, ReportInv, HeldInv
<1>6. CountInv
  <2>1. Completed = {}
    BY DEF Completed
  <2> QED BY <2>1, FS_EmptySet DEF CountInv
<1>7. ChargeInv
  BY DEF ChargeInv, InCharge
<1> QED BY <1>1, <1>2, <1>3, <1>4, <1>5, <1>6, <1>7 DEF AInv

\* Any step of a task.
LEMMA TaskKeeps ==
  ASSUME AInv, NEW w \in Workers, Task(w)
  PROVE  AInv'
BY CallLLMKeeps, KnownItemKeeps, ApprovalStepKeeps, ApprovalCallKeeps,
   ApprovalRequestKeeps,
   AutoItemKeeps, ExecStepKeeps, ExecDoneKeeps, InterruptKeeps, ReadStateKeeps,
   ExpirePendingKeeps, FinalizePendingKeeps, SuspendKeeps, CompleteKeeps, ReplyKeeps,
   FailKeeps, ResolveKeeps, CloseApprovalStepKeeps, RejectCallKeeps, ExecuteApprovedKeeps,
   ResolverPendingKeeps, ResumeKeeps, RerunKeeps
DEF Task

\* Any step of the flow.
LEMMA StepKeeps == AInv /\ [FlowNext]_allVars => AInv'
<1> SUFFICES ASSUME AInv, [FlowNext]_allVars PROVE AInv'
  OBVIOUS
<1>1. ASSUME NEW status \in RunClosed, FlowCloseRun(status) PROVE AInv'
  BY <1>1, FlowCloseRunKeeps
<1>2. CASE FlowClose
  BY <1>2, FlowCloseStepsKeeps, FlowCloseCallsKeeps, CancelPendingByRunKeeps,
     FlowCloseCommitKeeps DEF FlowClose
<1>3. ASSUME NEW c \in Calls, Lapse(c) PROVE AInv'
  BY <1>3, LapseKeeps
<1>4. CASE Crash
  BY <1>4, CrashKeeps
<1>5. ASSUME NEW w \in Workers, Task(w) PROVE AInv'
  BY <1>5, TaskKeeps
<1>6. ASSUME NEW w \in Workers, NEW c \in Calls, NEW a \in {"approved", "rejected"},
             Look(w, c, a)
      PROVE AInv'
  BY <1>6, LookKeeps
<1>7. CASE UNCHANGED allVars
  BY <1>7, StutterKeeps
<1> QED BY <1>1, <1>2, <1>3, <1>4, <1>5, <1>6, <1>7 DEF FlowNext

\* In every reachable state the right to execute a call has one owner, and the rows
\* of the run, its requests and its tasks agree.
THEOREM FlowInvariant == FlowSpec => []AInv
BY InitInv, StepKeeps, PTL DEF FlowSpec

\* Every row and every task of the flow stays within its values: no status outside
\* the CHECK constraints, no item past the batch, one answer for each task at most.
THEOREM FlowTypesHold == FlowSpec => []FlowTypeOK
<1>1. AInv => FlowTypeOK
  <2> SUFFICES ASSUME AInv PROVE FlowTypeOK
    OBVIOUS
  <2>1. TypeOK
    BY DEF AInv, RowTypes, CloseTypes, WorkTypes, TypeOK
  <2>2. replies \in 0 .. Cardinality(Workers)
    <3>1. Completed \subseteq Workers
      BY DEF Completed
    <3> QED BY <3>1, PartCount DEF AInv, CountInv
  <2>3. GateTypes /\ PlaceTypes /\ AnswerTypes /\ ThreadTypes /\ CloseTypes
    BY DEF AInv
  <2> QED BY <2>1, <2>2, <2>3
          DEF FlowTypeOK, GateTypes, PlaceTypes, AnswerTypes, ThreadTypes, CloseTypes
<1> QED BY <1>1, FlowInvariant, PTL

\* What the gate calls the number of runs of a call.
LEMMA RunsOnce ==
  ASSUME AInv, NEW c \in Calls
  PROVE  Cardinality(invoked[c]) = IF invoked[c] = {} THEN 0 ELSE 1
<1>1. CASE invoked[c] = {}
  BY <1>1, FS_EmptySet
<1>2. CASE invoked[c] # {}
  <2>1. PICK w : w \in invoked[c]
    BY <1>2
  <2>2. invoked[c] = {w}
    BY <2>1 DEF AInv, InvokedInv
  <2>3. Cardinality({w}) = 1
    BY FS_Singleton
  <2> QED BY <1>2, <2>2, <2>3
<1> QED BY <1>1, <1>2

\* A dangerous call reaches its executor only if its request was approved, and no call
\* reaches it twice: suspend_for_human and resolve_approval_and_resume_lifecycle never
\* execute one call both.
THEOREM OnlyApprovedRunOnce == FlowSpec => []OnlyApprovedOnce
<1>1. AInv => OnlyApprovedOnce
  <2> SUFFICES ASSUME AInv, NEW c \in Calls
               PROVE  /\ kind[c] = "approve" /\ invoked[c] # {} => req[c] = "approved"
                      /\ Cardinality(invoked[c]) <= 1
    BY DEF OnlyApprovedOnce
  <2>1. Cardinality(invoked[c]) <= 1
    BY RunsOnce
  <2> QED BY <2>1 DEF AInv, InvokedInv
<1> QED BY <1>1, FlowInvariant, PTL

\* No skip of execute_and_persist_tool_call writes "rejected" into run_steps.
THEOREM NoStepIsRejected == FlowSpec => []NoRejectedStep
<1>1. AInv => NoRejectedStep
  BY DEF AInv, ExecInv, NoRejectedStep
<1> QED BY <1>1, FlowInvariant, PTL

(***************************************************************************)
(* Reports.  The event of a task is its last one and stays, and the run    *)
(* fails in the step in which a task reports it as failed.                 *)
(***************************************************************************)
FailureInv == run = "failed" => \E v \in Workers : event[v] = "failed"

LEMMA FailureIsReported == AInv /\ FailureInv /\ [FlowNext]_allVars => FailureInv'
<1> SUFFICES ASSUME AInv, FailureInv, [FlowNext]_allVars PROVE FailureInv'
  OBVIOUS
<1>1. event \in [Workers -> Event] /\ \A w \in Workers : at[w] # "done" => event[w] = "none"
  BY DEF AInv, AnswerTypes, ReportInv
<1>2. CASE UNCHANGED <<run, event>>
  BY <1>2 DEF FailureInv
<1>3. ASSUME NEW w \in Workers, at[w] # "done", run' = run \/ run' # "failed",
             NEW e \in Event, event' = [event EXCEPT ![w] = e]
      PROVE  FailureInv'
  BY <1>1, <1>3 DEF FailureInv
<1>4. CASE run' = run \/ run' # "failed"
  <2>1. CASE UNCHANGED event
    BY <1>4, <2>1 DEF FailureInv
  <2>2. CASE \E w \in Workers, e \in Event : at[w] # "done" /\ event' = [event EXCEPT ![w] = e]
    BY <1>3, <1>4, <2>2
  <2>3. ASSUME NEW w \in Workers, Task(w)
        PROVE  \/ UNCHANGED event
               \/ at[w] # "done" /\ \E e \in Event : event' = [event EXCEPT ![w] = e]
    BY <2>3 DEF Task, CallLLM, KnownItem, ApprovalStep, ApprovalCall, ApprovalRequest, AutoItem,
         Dispatch, ExecStep, ExecDone, Interrupt, ReadState, ExpirePending, FinalizePending,
         Suspend, Complete, Reply, Fail, Resolve, CloseApprovalStep, RejectCall,
         ExecuteApproved, ResolverPending, Resume, Rerun
  <2>4. ASSUME NEW w \in Workers, NEW c \in Calls, NEW a \in {"approved", "rejected"},
               Look(w, c, a)
        PROVE  \/ UNCHANGED event
               \/ at[w] # "done" /\ \E e \in Event : event' = [event EXCEPT ![w] = e]
    BY <2>4 DEF Look
  <2>5. CASE \/ \E status \in RunClosed : FlowCloseRun(status)
             \/ FlowClose \/ (\E c \in Calls : Lapse(c)) \/ Crash \/ UNCHANGED allVars
    BY <2>1, <2>5 DEF FlowCloseRun, FlowClose, FlowCloseSteps, FlowCloseCalls, CancelPendingByRun,
         FlowCloseCommit, Lapse, Crash, allVars
  <2> QED BY <2>1, <2>2, <2>3, <2>4, <2>5 DEF FlowNext
<1>5. ASSUME NEW w \in Workers, Fail(w) PROVE FailureInv'
  BY <1>1, <1>5 DEF Fail, FailureInv
<1>6. ASSUME NEW w \in Workers, Task(w), ~Fail(w) PROVE run' = run \/ run' # "failed"
  <2>1. CASE Suspend(w) \/ Complete(w) \/ Resume(w)
    BY <2>1 DEF Suspend, Complete, Resume, SetRun, UpdateRunStatus
  <2>2. CASE ExecStep(w)
    BY <2>2, ExecStepMoves DEF ExecMoves
  <2>3. CASE \/ CallLLM(w) \/ KnownItem(w) \/ ApprovalStep(w) \/ ApprovalCall(w)
             \/ ApprovalRequest(w) \/ AutoItem(w) \/ ExecDone(w) \/ Interrupt(w)
             \/ ReadState(w) \/ ExpirePending(w) \/ FinalizePending(w) \/ Reply(w)
             \/ Resolve(w) \/ CloseApprovalStep(w) \/ RejectCall(w)
             \/ ExecuteApproved(w) \/ ResolverPending(w) \/ Rerun(w)
    <3>1. UNCHANGED run
      BY <2>3 DEF CallLLM, KnownItem, ApprovalStep, ApprovalCall, ApprovalRequest, AutoItem,
           Dispatch, ExecDone, Interrupt, ReadState, ExpirePending, FinalizePending, Reply,
           Resolve, CloseApprovalStep, RejectCall, ExecuteApproved, ResolverPending, Rerun
    <3> QED BY <3>1
  <2> QED BY <1>6, <2>1, <2>2, <2>3 DEF Task
<1>7. CASE \/ \E status \in RunClosed : FlowCloseRun(status)
           \/ FlowCloseSteps \/ FlowCloseCalls \/ CancelPendingByRun
           \/ \E c \in Calls : Lapse(c)
           \/ Crash
           \/ \E w \in Workers, c \in Calls, a \in {"approved", "rejected"} : Look(w, c, a)
           \/ UNCHANGED allVars
  <2>1. UNCHANGED run
    BY <1>7 DEF FlowCloseRun, CloseRun, FlowCloseSteps, CloseSteps, FlowCloseCalls,
                CloseCalls, CancelPendingByRun, Lapse, Crash, Look, allVars
  <2> QED BY <1>4, <2>1
<1>8. CASE FlowCloseCommit
  <2>1. run' # "failed"
    BY <1>8 DEF AInv, CloseInv, FlowCloseCommit, CloseCommit
  <2> QED BY <1>4, <2>1
<1> QED BY <1>4, <1>5, <1>6, <1>7, <1>8 DEF FlowNext, FlowClose

\* A task reports run_completed of a run that has completed, and no cancel or timeout
\* takes that back; or of one that another task has failed and reported as failed
\* (_finalize_graph_run, _terminal_error_message).
THEOREM ReportsAreTrue == FlowSpec => []CompletedReportIsTrue
<1>1. FlowInit => FailureInv
  BY DEF FlowInit, Init, FailureInv
<1>2. AInv /\ FailureInv => CompletedReportIsTrue
  BY DEF AInv, ReportInv, FailureInv, CompletedReportIsTrue
<1> QED BY <1>1, <1>2, FailureIsReported, FlowInvariant, PTL DEF FlowSpec

\* When all tasks have returned without a crash, the run has ended or waits for an
\* approval that was requested: no run is forgotten.
THEOREM QuietRunsAreEnded == FlowSpec => []QuietRunIsEnded
<1>1. AInv => QuietRunIsEnded
  BY DEF AInv, ChargeInv, InCharge, Waits, Quiet, QuietRunIsEnded
<1> QED BY <1>1, FlowInvariant, PTL
-----------------------------------------------------------------------------
(***************************************************************************)
(* The flow implements the gate.                                           *)
(***************************************************************************)
\* Nothing was asked, answered or run yet.
LEMMA InitMaps == FlowInit => Human!GateInit
<1> SUFFICES ASSUME FlowInit PROVE Human!GateInit
  OBVIOUS
<1>1. [c \in Calls |-> Cardinality(invoked[c])] = [c \in Calls |-> 0]
  BY FS_EmptySet DEF FlowInit, Init
<1> QED BY <1>1 DEF FlowInit, Init, Human!GateInit

\* A step that leaves the requests, the executors and the end of the run alone.
LEMMA StutterMaps ==
  ASSUME UNCHANGED <<kind, req, invoked, run>>
  PROVE  UNCHANGED Human!gateState
BY DEF Human!gateState

\* A step that only moves the run from one open status to another.
LEMMA AliveMaps ==
  ASSUME UNCHANGED <<kind, req, invoked>>, run \notin RunTerminal, run' \notin RunTerminal
  PROVE  UNCHANGED Human!gateState
BY DEF Human!gateState

\* A step that does no more than to end the run.
LEMMA EndMaps ==
  ASSUME UNCHANGED <<kind, req, invoked>>, AInv,
         run' = run \/ (run \notin RunTerminal /\ run' \in Ended)
  PROVE  [Human!GateNext]_(Human!gateState)
<1>1. CASE run' = run
  <2>1. UNCHANGED <<kind, req, invoked, run>>
    BY <1>1
  <2> QED BY <2>1, StutterMaps
<1>2. CASE run \notin RunTerminal /\ run' \in Ended
  <2>1. req' = [c \in Calls |-> IF c \in {} THEN "cancelled" ELSE req[c]]
    BY DEF AInv, GateTypes
  <2>2. Human!EndRun
    BY <1>2, <2>1 DEF Human!EndRun
  <2> QED BY <2>2 DEF Human!GateNext
<1> QED BY <1>1, <1>2

\* The closing transaction cancels just the requests that it found pending.
LEMMA CommitMaps ==
  ASSUME AInv, FlowCloseCommit
  PROVE  Human!EndRun
<1>1. run \notin RunTerminal /\ run' \in RunClosed
  BY DEF AInv, CloseInv, CloseTypes, FlowCloseCommit, CloseCommit
<1>2. lockR \in SUBSET {c \in Calls : req[c] = "pending"}
  BY DEF AInv, CloseTypes, RequestInv, ReqLocked, FlowCloseCommit
<1>3. req' = [c \in Calls |-> IF c \in lockR THEN "cancelled" ELSE req[c]]
  BY DEF FlowCloseCommit, ReqLocked
<1>4. UNCHANGED <<kind, invoked>>
  BY DEF FlowCloseCommit, CloseCommit
<1> QED BY <1>1, <1>2, <1>3, <1>4 DEF Human!EndRun

\* Only the driver asks, once for each dangerous call.
LEMMA RequestMaps ==
  ASSUME AInv, NEW w \in Workers, ApprovalRequest(w)
  PROVE  \E c \in Calls : Human!Ask(c)
<1>1. w = Driver
  BY DEF AInv, ResumedInv, ApprovalRequest
<1>2. Item(w) \in Calls
  BY ItemIsCall DEF AInv, ItemInv, ApprovalRequest
<1>3. kind[Item(w)] = "approve" /\ req[Item(w)] = "absent"
  BY <1>1 DEF AInv, DriverInv, ApprovalRequest
<1>4. req' = [req EXCEPT ![Item(w)] = "pending"] /\ UNCHANGED <<kind, run, invoked>>
  BY DEF ApprovalRequest
<1> QED BY <1>2, <1>3, <1>4 DEF Human!Ask

\* The compare-and-set answers a pending request; the unconditional write of a lapsed
\* one meets no answer.
LEMMA ResolveMaps ==
  ASSUME AInv, NEW w \in Workers, Resolve(w)
  PROVE  [Human!GateNext]_(Human!gateState)
<1>1. target[w] \in Calls /\ act[w] \in {"approved", "rejected"}
  BY DEF AInv, AnswerInv, DriverInv, AnswerTypes, Resolve
<1>2. UNCHANGED <<kind, run, invoked>>
  BY DEF Resolve
<1>3. CASE target[w] \in lapsed
  <2>1. req' = [req EXCEPT ![target[w]] = "expired"]
    BY <1>3 DEF Resolve
  <2>2. CASE req[target[w]] = "expired"
    <3>1. req' = req
      BY <1>1, <2>1, <2>2 DEF AInv, GateTypes
    <3>2. UNCHANGED <<kind, req, invoked, run>>
      BY <1>2, <3>1
    <3> QED BY <3>2, StutterMaps
  <2>3. CASE req[target[w]] \in {"pending", "cancelled"}
    <3>1. {target[w]} \in SUBSET {c \in Calls : req[c] \in {"pending", "cancelled"}}
      BY <1>1, <2>3
    <3>2. req' = [c \in Calls |-> IF c \in {target[w]} THEN "expired" ELSE req[c]]
      BY <1>1, <2>1 DEF AInv, GateTypes
    <3>3. Human!Expire
      BY <1>2, <3>1, <3>2 DEF Human!Expire
    <3> QED BY <3>3 DEF Human!GateNext
  <2> QED BY <1>1, <1>3, <2>2, <2>3 DEF AInv, RequestInv
<1>4. CASE target[w] \notin lapsed
  <2>1. req' = [req EXCEPT ![target[w]] = ResolveRequest(@, act[w])]
    BY <1>4 DEF Resolve
  <2>2. CASE req[target[w]] = "pending"
    <3>1. req' = [req EXCEPT ![target[w]] = act[w]]
      BY <2>1, <2>2 DEF ResolveRequest
    <3>2. Human!Decide(target[w])
      BY <1>1, <1>2, <2>2, <3>1 DEF Human!Decide
    <3> QED BY <1>1, <3>2 DEF Human!GateNext
  <2>3. CASE req[target[w]] # "pending"
    <3>1. req' = req
      BY <1>1, <2>1, <2>3 DEF ResolveRequest, AInv, GateTypes
    <3>2. UNCHANGED <<kind, req, invoked, run>>
      BY <1>2, <3>1
    <3> QED BY <3>2, StutterMaps
  <2> QED BY <2>2, <2>3
<1> QED BY <1>3, <1>4

\* expire_pending_requests
LEMMA ExpireMaps ==
  ASSUME AInv, NEW w \in Workers, ExpirePending(w)
  PROVE  Human!Expire
<1> DEFINE gone == {c \in Calls : req[c] = "pending" /\ c \in lapsed}
<1>1. gone \in SUBSET {c \in Calls : req[c] \in {"pending", "cancelled"}}
  OBVIOUS
<1>2. req' = [c \in Calls |-> IF c \in gone THEN "expired" ELSE req[c]]
  BY DEF ExpirePending
<1>3. UNCHANGED <<kind, run, invoked>>
  BY DEF ExpirePending
<1> QED BY <1>1, <1>2, <1>3 DEF Human!Expire

\* An executor is called for the first time, for a call that was approved.
LEMMA ExecMaps ==
  ASSUME AInv, NEW w \in Workers, ExecStep(w)
  PROVE  [Human!GateNext]_(Human!gateState)
<1>1. at[w] = "exec" /\ UNCHANGED <<kind, req>>
  BY DEF ExecStep
<1>2. run' = run /\ InvokesFirst(w)
  BY ExecStepMoves DEF ExecMoves
<1>3. job[w] \in Calls /\ (kind[job[w]] = "approve" => req[job[w]] = "approved")
  BY <1>1, OwnCall
<1>4. CASE UNCHANGED invoked
  <2>1. UNCHANGED <<kind, req, invoked, run>>
    BY <1>1, <1>2, <1>4
  <2> QED BY <2>1, StutterMaps
<1>5. CASE invoked[job[w]] = {} /\ invoked' = [invoked EXCEPT ![job[w]] = {w}]
  <2>1. [c \in Calls |-> Cardinality(invoked[c])]' =
          [[c \in Calls |-> Cardinality(invoked[c])] EXCEPT ![job[w]] = 1]
    BY <1>3, <1>5, FS_Singleton DEF AInv, RowTypes
  <2>2. [c \in Calls |-> Cardinality(invoked[c])][job[w]] = 0
    BY <1>3, <1>5, FS_EmptySet
  <2>3. Human!RunCall(job[w])
    BY <1>1, <1>2, <1>3, <2>1, <2>2 DEF Human!RunCall
  <2> QED BY <1>3, <2>3 DEF Human!GateNext
<1> QED BY <1>2, <1>4, <1>5 DEF InvokesFirst

\* Any step of a task is a step of the gate.
LEMMA TaskMaps ==
  ASSUME AInv, NEW w \in Workers, Task(w)
  PROVE  [Human!GateNext]_(Human!gateState)
<1>1. CASE ApprovalRequest(w)
  BY <1>1, RequestMaps DEF Human!GateNext
<1>2. CASE ExecStep(w)
  BY <1>2, ExecMaps
<1>3. CASE ExpirePending(w)
  BY <1>3, ExpireMaps DEF Human!GateNext
<1>4. CASE Resolve(w)
  BY <1>4, ResolveMaps
<1>5. CASE Complete(w) \/ Fail(w)
  <2>1. UNCHANGED <<kind, req, invoked>>
    BY <1>5 DEF Complete, Fail, SetRun
  <2>2. PICK status \in Ended : run' = UpdateRunStatus(run, status)
    BY <1>5 DEF Complete, Fail, SetRun
  <2>3. run' = run \/ (run \notin RunTerminal /\ run' \in Ended)
    BY ONLY <2>2 DEF UpdateRunStatus
  <2> QED BY <2>1, <2>3, EndMaps
<1>6. CASE Suspend(w) \/ Resume(w)
  <2>1. UNCHANGED <<kind, req, invoked>>
    BY <1>6 DEF Suspend, Resume, SetRun
  <2>2. run' = run \/ \E status \in {"waiting_approval", "running"} :
                         run' = UpdateRunStatus(run, status)
    BY <1>6 DEF Suspend, Resume, SetRun
  <2>3. CASE run' = run
    <3>1. UNCHANGED <<kind, req, invoked, run>>
      BY <2>1, <2>3
    <3> QED BY <3>1, StutterMaps
  <2>4. CASE run \notin RunTerminal /\ run' \notin RunTerminal
    BY <2>1, <2>4, AliveMaps
  <2> QED BY <2>2, <2>3, <2>4 DEF UpdateRunStatus
<1>7. CASE \/ CallLLM(w) \/ KnownItem(w) \/ ApprovalStep(w) \/ ApprovalCall(w)
           \/ AutoItem(w) \/ ExecDone(w) \/ Interrupt(w) \/ ReadState(w)
           \/ FinalizePending(w) \/ Reply(w) \/ CloseApprovalStep(w) \/ RejectCall(w)
           \/ ExecuteApproved(w) \/ ResolverPending(w) \/ Rerun(w)
  <2>1. UNCHANGED <<kind, req, invoked, run>>
    BY <1>7 DEF CallLLM, KnownItem, ApprovalStep, ApprovalCall, AutoItem, Dispatch,
                ExecDone, Interrupt, ReadState, FinalizePending, Reply,
                CloseApprovalStep, RejectCall, ExecuteApproved, ResolverPending, Rerun
  <2> QED BY <2>1, StutterMaps
<1> QED BY <1>1, <1>2, <1>3, <1>4, <1>5, <1>6, <1>7 DEF Task

\* Any step of the flow is a step of the gate.
LEMMA StepMaps == AInv /\ [FlowNext]_allVars => [Human!GateNext]_(Human!gateState)
<1> SUFFICES ASSUME AInv, [FlowNext]_allVars PROVE [Human!GateNext]_(Human!gateState)
  OBVIOUS
<1>1. ASSUME NEW w \in Workers, Task(w) PROVE [Human!GateNext]_(Human!gateState)
  BY <1>1, TaskMaps
<1>2. CASE FlowCloseCommit
  BY <1>2, CommitMaps DEF Human!GateNext
<1>3. CASE \/ \E status \in RunClosed : FlowCloseRun(status)
           \/ FlowCloseSteps \/ FlowCloseCalls \/ CancelPendingByRun
           \/ \E c \in Calls : Lapse(c)
           \/ Crash
           \/ \E w \in Workers, c \in Calls, a \in {"approved", "rejected"} : Look(w, c, a)
           \/ UNCHANGED allVars
  <2>1. UNCHANGED <<kind, req, invoked, run>>
    BY <1>3 DEF FlowCloseRun, CloseRun, FlowCloseSteps, CloseSteps, FlowCloseCalls,
                CloseCalls, CancelPendingByRun, Lapse, Crash, Look, allVars
  <2> QED BY <2>1, StutterMaps
<1> QED BY <1>1, <1>2, <1>3 DEF FlowNext, FlowClose

\* Every step of the tasks, of cancel, of the sweeper and of a crash is a step of the
\* abstract gate or changes nothing that the gate knows of.
THEOREM FlowImplementsGate == FlowSpec => ImplementsGate
<1>1. FlowSpec => []AInv
  BY FlowInvariant
<1> QED BY <1>1, InitMaps, StepMaps, PTL DEF FlowSpec, ImplementsGate, Human!GateSpec
=============================================================================
