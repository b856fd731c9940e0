------------------------- MODULE ToolExecutionProofs -------------------------
(***************************************************************************)
(* The safety properties of ToolExecution, proved for every set of calls   *)
(* and workers, from one inductive invariant.                              *)
(***************************************************************************)
EXTENDS ToolExecution, TLAPS

\* A worker is busy exactly while it has a call, and no two share one.
JobInv ==
  /\ \A w \in Workers : pc[w] = "idle" <=> job[w] = None
  /\ \A v, w \in Workers : v # w /\ job[v] = job[w] => job[v] = None

\* started_at separates the calls that a worker claimed from those it did not.
CallInv ==
  \A c \in Calls :
    /\ ~started[c] => /\ call[c] \in {"absent"} \cup ToolStartable \cup RunClosed
                      /\ invoked[c] = {}
    /\ call[c] = "absent" => result[c] = "none"
    /\ step[c] = "absent" => ~started[c]
    /\ started[c] => call[c] \in {"running", "completed", "failed"} \cup RunClosed
    /\ \A w \in invoked[c] : /\ job[w] = c
                             /\ pc[w] \in {"await", "save", "finish", "note", "done"}

\* Where a worker that may still change an open call row can be.
Holding == {"claim", "recheck", "gate2", "invoke", "await", "save", "skipSave"}

\* What each place in execute_and_persist_tool_call knows of its call.
WorkerInv ==
  \A w \in Workers :
    /\ pc[w] # "idle" => step[job[w]] # "absent"
    /\ pc[w] \in {"step", "gate", "obtain", "claim"} => ~started[job[w]]
    /\ pc[w] = "claim" => call[job[w]] # "absent"
    /\ pc[w] = "recheck" => call[job[w]] \in {"running"} \cup RunClosed
    /\ pc[w] \in {"gate2", "invoke", "await", "save", "skipSave"} =>
         started[job[w]] /\ call[job[w]] \in {"running"} \cup RunClosed
    /\ pc[w] = "gate2" => view[w] = "running"
    /\ pc[w] \in {"await", "save"} => w \in invoked[job[w]]
    /\ pc[w] \in {"save", "finish"} => verdict[w] \in {"completed", "failed"}
    /\ pc[w] = "finish" => call[job[w]] \in {verdict[w]} \cup RunClosed
    /\ pc[w] \in {"skipSave", "skipStep"} => verdict[w] \in RunClosed

\* What a worker that is past its last write to the tool call has left behind.
LeftInv ==
  \A w \in Workers :
    /\ pc[w] \in {"finish", "note", "skipStep", "skipNote", "done"} =>
         (call[job[w]] \in ToolOpen => run \in {"completed", "failed"})
    /\ pc[w] \in {"note", "skipNote", "done"} => step[job[w]] \notin StepOpen

Held(c) == \E w \in Workers : job[w] = c /\ pc[w] \in Holding

\* The closing transaction locks open rows only, and what it misses is held.
ClosingInv ==
  /\ closing.phase # "idle" => closing.status \in RunClosed /\ run \notin RunTerminal
  /\ closing.phase \in {"idle", "steps"} => closing.steps = {}
  /\ closing.phase # "commit" => closing.calls = {}
  /\ \A c \in closing.steps : step[c] \in StepOpen
  /\ \A c \in closing.calls : call[c] \in ToolOpen
  /\ closing.phase = "commit" =>
       \A c \in Calls : call[c] \in ToolOpen => c \in closing.calls \/ Held(c)
  /\ run \in RunClosed => \A c \in Calls : call[c] \in ToolOpen => Held(c)

IInv ==
  /\ TypeOK
  /\ JobInv
  /\ CallInv
  /\ WorkerInv
  /\ LeftInv
  /\ ClosingInv
  /\ ResultMatchesStatus
  /\ StepTellsTruth
-----------------------------------------------------------------------------
\* The status sets are enumerations: every proof below may open them.
USE NoneAssumption
    DEF RunTerminal, RunActive, RunStatus, RunClosed, ToolStartable, ToolOpen,
        ToolTerminal, ToolStatus, StepOpen, StepTerminal, StepStatus,
        ClosePhase, PC, Result, Holding, rowVars, taskVars, vars

LEMMA SkipType ==
  ASSUME TypeOK, NEW w \in Workers, NEW status \in ToolTerminal,
         NEW seen \in ToolStatus \cup {None}, Skip(w, status, seen)
  PROVE  /\ pc' \in [Workers -> PC]
         /\ view' \in [Workers -> ToolStatus \cup {None}]
         /\ verdict' \in [Workers -> ToolTerminal \cup {None}]
BY DEF TypeOK, Skip, Goto

LEMMA GotoType ==
  ASSUME TypeOK, NEW w \in Workers, NEW l \in PC, Goto(w, l)
  PROVE  pc' \in [Workers -> PC]
BY DEF TypeOK, Goto

LEMMA JobIsCall ==
  ASSUME TypeOK, JobInv, NEW w \in Workers, pc[w] # "idle"
  PROVE  job[w] \in Calls
BY DEF TypeOK, JobInv
-----------------------------------------------------------------------------

LEMMA CloseRunInv ==
  ASSUME IInv, NEW status \in RunClosed, CloseRun(status)
  PROVE  IInv'
<1> USE DEF IInv, CloseRun, RunLocked, UpdateRunStatus, Idle
<1>1. TypeOK'
  BY DEF TypeOK
<1>2. JobInv'
  BY DEF JobInv
<1>3. CallInv'
  BY DEF CallInv
<1>4. WorkerInv'
  BY DEF WorkerInv
<1>5. LeftInv'
  BY DEF LeftInv
<1>6. ClosingInv'
  BY DEF ClosingInv
<1>7. ResultMatchesStatus'
  BY DEF ResultMatchesStatus
<1>8. StepTellsTruth'
  BY DEF StepTellsTruth
<1> QED BY <1>1, <1>2, <1>3, <1>4, <1>5, <1>6, <1>7, <1>8

LEMMA CloseStepsInv ==
  ASSUME IInv, CloseSteps
  PROVE  IInv'
<1> USE DEF IInv, CloseSteps
<1>1. TypeOK'
  BY DEF TypeOK
<1>2. JobInv'
  BY DEF JobInv
<1>3. CallInv'
  BY DEF CallInv
<1>4. WorkerInv'
  BY DEF WorkerInv
<1>5. LeftInv'
  BY DEF LeftInv
<1>6. ClosingInv'
  BY DEF ClosingInv
<1>7. ResultMatchesStatus'
  BY DEF ResultMatchesStatus
<1>8. StepTellsTruth'
  BY DEF StepTellsTruth
<1> QED BY <1>1, <1>2, <1>3, <1>4, <1>5, <1>6, <1>7, <1>8

LEMMA CloseCallsInv ==
  ASSUME IInv, CloseCalls
  PROVE  IInv'
<1> USE DEF IInv, CloseCalls
<1>1. TypeOK'
  BY DEF TypeOK
<1>2. JobInv'
  BY DEF JobInv
<1>3. CallInv'
  BY DEF CallInv
<1>4. WorkerInv'
  BY DEF WorkerInv
<1>5. LeftInv'
  BY DEF LeftInv
<1>6. ClosingInv'
  BY DEF ClosingInv
<1>7. ResultMatchesStatus'
  BY DEF ResultMatchesStatus
<1>8. StepTellsTruth'
  BY DEF StepTellsTruth
<1> QED BY <1>1, <1>2, <1>3, <1>4, <1>5, <1>6, <1>7, <1>8

LEMMA CloseCommitInv ==
  ASSUME IInv, CloseCommit
  PROVE  IInv'
<1> USE DEF IInv, CloseCommit, StepLocked, CallLocked, Idle
<1>1. TypeOK'
  BY DEF TypeOK, ClosingInv
<1>2. JobInv'
  BY DEF JobInv
<1>3. CallInv'
  BY DEF CallInv, ClosingInv
<1>4. WorkerInv'
  BY DEF WorkerInv, TypeOK, JobInv, ClosingInv
<1>5. LeftInv'
  BY DEF LeftInv, TypeOK, JobInv, ClosingInv
<1>6. ClosingInv'
  BY DEF ClosingInv, Held
<1>7. ResultMatchesStatus'
  BY DEF ResultMatchesStatus, TypeOK
<1>8. StepTellsTruth'
  BY DEF StepTellsTruth, ClosingInv
<1> QED BY <1>1, <1>2, <1>3, <1>4, <1>5, <1>6, <1>7, <1>8

LEMMA EndRunInv ==
  ASSUME IInv, NEW status \in {"completed", "failed"}, EndRun(status)
  PROVE  IInv'
<1> USE DEF IInv, EndRun, RunLocked, UpdateRunStatus
<1>1. TypeOK'
  BY DEF TypeOK
<1>2. JobInv'
  BY DEF JobInv
<1>3. CallInv'
  BY DEF CallInv
<1>4. WorkerInv'
  BY DEF WorkerInv
<1>5. LeftInv'
  BY DEF LeftInv
<1>6. ClosingInv'
  BY DEF ClosingInv
<1>7. ResultMatchesStatus'
  BY DEF ResultMatchesStatus
<1>8. StepTellsTruth'
  BY DEF StepTellsTruth
<1> QED BY <1>1, <1>2, <1>3, <1>4, <1>5, <1>6, <1>7, <1>8

LEMMA CreateStepInv ==
  ASSUME IInv, NEW w \in Workers, NEW c \in Calls, CreateStep(w, c)
  PROVE  IInv'
<1> USE DEF IInv, CreateStep, CreateStepRow, Goto
<1>1. TypeOK'
  BY DEF TypeOK
<1>2. JobInv'
  BY DEF JobInv, TypeOK
<1>3. CallInv'
  BY DEF CallInv
<1>4. WorkerInv'
  BY DEF WorkerInv, TypeOK, CallInv
<1>5. LeftInv'
  BY DEF LeftInv
<1>6. ClosingInv'
  BY DEF ClosingInv, Held
<1>7. ResultMatchesStatus'
  BY DEF ResultMatchesStatus
<1>8. StepTellsTruth'
  BY DEF StepTellsTruth
<1> QED BY <1>1, <1>2, <1>3, <1>4, <1>5, <1>6, <1>7, <1>8

LEMMA BeginStepInv ==
  ASSUME IInv, NEW w \in Workers, BeginStep(w)
  PROVE  IInv'
<1> USE DEF IInv, BeginStep, StepLocked, StartStep, Goto
<1>1. TypeOK'
  BY DEF TypeOK
<1>2. JobInv'
  BY DEF JobInv
<1>3. CallInv'
  BY DEF CallInv
<1>4. WorkerInv'
  BY DEF WorkerInv
<1>5. LeftInv'
  BY DEF LeftInv
<1>6. ClosingInv'
  BY DEF ClosingInv, Held
<1>7. ResultMatchesStatus'
  BY DEF ResultMatchesStatus
<1>8. StepTellsTruth'
  BY DEF StepTellsTruth
<1> QED BY <1>1, <1>2, <1>3, <1>4, <1>5, <1>6, <1>7, <1>8

LEMMA GateInv ==
  ASSUME IInv, NEW w \in Workers, Gate(w)
  PROVE  IInv'
<1> USE DEF IInv
<1>1. TypeOK'
  <2>1. CASE run \in RunTerminal
    <3>1. Skip(w, SkipStatus(run), None) BY <2>1 DEF Gate
    <3>2. SkipStatus(run) \in ToolTerminal BY DEF SkipStatus
    <3> QED BY <3>1, <3>2, SkipType DEF Gate, TypeOK
  <2>2. CASE run \notin RunTerminal
    BY <2>2, GotoType DEF Gate, TypeOK
  <2> QED BY <2>1, <2>2
<1>2. JobInv'
  BY DEF JobInv, TypeOK, Gate, Skip, SkipStatus, Goto
<1>3. CallInv'
  BY DEF CallInv, TypeOK, Gate, Skip, SkipStatus, Goto
<1>4. WorkerInv'
  BY DEF WorkerInv, TypeOK, Gate, Skip, SkipStatus, Goto
<1>5. LeftInv'
  BY DEF LeftInv, TypeOK, JobInv, ClosingInv, Held, Gate, Skip, SkipStatus,
         Goto
<1>6. ClosingInv'
  BY DEF ClosingInv, TypeOK, Held, Gate, Skip, SkipStatus, Goto
<1>7. ResultMatchesStatus'
  BY DEF ResultMatchesStatus, Gate, Skip, SkipStatus, Goto
<1>8. StepTellsTruth'
  BY DEF StepTellsTruth, Gate, Skip, SkipStatus, Goto
<1> QED BY <1>1, <1>2, <1>3, <1>4, <1>5, <1>6, <1>7, <1>8

LEMMA ObtainInv ==
  ASSUME IInv, NEW w \in Workers, Obtain(w)
  PROVE  IInv'
<1> USE DEF IInv
<1>1. TypeOK'
  <2>1. job[w] \in Calls BY JobIsCall DEF Obtain
  <2>2. call[job[w]] \in RunClosed \cup {"absent"} \cup ToolStartable
    BY <2>1 DEF Obtain, WorkerInv, CallInv
  <2>3. CASE call[job[w]] = "absent"
    BY <2>1, <2>3, GotoType DEF Obtain, TypeOK
  <2>4. CASE call[job[w]] \in ToolOpen
    BY <2>1, <2>4, GotoType DEF Obtain, TypeOK
  <2>5. CASE call[job[w]] \in RunClosed
    <3>1. Skip(w, call[job[w]], call[job[w]]) BY <2>5 DEF Obtain
    <3> QED BY <2>1, <2>5, <3>1, SkipType DEF Obtain, TypeOK
  <2> QED BY <2>2, <2>3, <2>4, <2>5
<1>2. JobInv'
  BY DEF JobInv, TypeOK, Obtain, Skip, Goto
<1>3. CallInv'
  BY DEF CallInv, TypeOK, Obtain, Skip, Goto
<1>4. WorkerInv'
  BY DEF WorkerInv, TypeOK, JobInv, CallInv, Obtain, Skip, Goto
<1>5. LeftInv'
  BY DEF LeftInv, TypeOK, JobInv, CallInv, WorkerInv, Obtain, Skip, Goto
<1>6. ClosingInv'
  BY DEF ClosingInv, TypeOK, Held, Obtain, Skip, Goto
<1>7. ResultMatchesStatus'
  BY DEF ResultMatchesStatus, TypeOK, CallInv, Obtain, Skip, Goto
<1>8. StepTellsTruth'
  BY DEF StepTellsTruth, TypeOK, Obtain, Skip, Goto
<1> QED BY <1>1, <1>2, <1>3, <1>4, <1>5, <1>6, <1>7, <1>8

LEMMA ClaimInv ==
  ASSUME IInv, NEW w \in Workers, Claim(w)
  PROVE  IInv'
<1> USE DEF IInv
<1>1. TypeOK'
  BY DEF TypeOK, Claim, CallLocked, StartExecution, Goto
<1>2. JobInv'
  BY DEF JobInv, Claim, CallLocked, StartExecution, Goto
<1>3. CallInv'
  <2>1. job[w] \in Calls BY JobIsCall DEF Claim
  <2>2. ~started[job[w]] /\ call[job[w]] \in ToolStartable \cup RunClosed
    BY <2>1 DEF Claim, WorkerInv, CallInv
  <2>3. pc'[w] = "recheck" /\ \A v \in Workers : v # w => pc'[v] = pc[v]
    BY DEF Claim, Goto, TypeOK
  <2>4. \A c \in Calls : c # job[w] => started'[c] = started[c] /\ call'[c] = call[c]
    BY <2>1 DEF Claim, TypeOK
  <2>5. \/ started'[job[w]] /\ call'[job[w]] = "running"
        \/ ~started'[job[w]] /\ call'[job[w]] = call[job[w]]
    <3>1. started'[job[w]] = (started[job[w]] \/ call[job[w]] \in ToolStartable)
      BY <2>1 DEF Claim, TypeOK
    <3>2. call'[job[w]] = StartExecution(call[job[w]])
      BY <2>1 DEF Claim, TypeOK
    <3> QED BY <2>2, <3>1, <3>2 DEF StartExecution
  <2>6. \A c \in Calls : \A v \in invoked[c] : v \in Workers /\ v # w
    BY DEF Claim, TypeOK, CallInv
  <2>7. UNCHANGED <<step, result, job, invoked>> BY DEF Claim
  <2>8. step[job[w]] # "absent" BY DEF Claim, WorkerInv
  <2> QED BY <2>1, <2>2, <2>3, <2>4, <2>5, <2>6, <2>7, <2>8 DEF CallInv
<1>4. WorkerInv'
  BY DEF WorkerInv, TypeOK, JobInv, CallInv, Claim, CallLocked, StartExecution,
         Goto
<1>5. LeftInv'
  BY DEF LeftInv, Claim, CallLocked, StartExecution, Goto
<1>6. ClosingInv'
  BY DEF ClosingInv, Held, Claim, CallLocked, StartExecution, Goto
<1>7. ResultMatchesStatus'
  BY DEF ResultMatchesStatus, Claim, CallLocked, StartExecution, Goto
<1>8. StepTellsTruth'
  BY DEF StepTellsTruth, Claim, CallLocked, StartExecution, Goto
<1> QED BY <1>1, <1>2, <1>3, <1>4, <1>5, <1>6, <1>7, <1>8

LEMMA RecheckInv ==
  ASSUME IInv, NEW w \in Workers, Recheck(w)
  PROVE  IInv'
<1> USE DEF IInv
<1>1. TypeOK'
  <2>1. call[job[w]] \in ToolStatus BY JobIsCall DEF Recheck, TypeOK
  <2>2. CASE call[job[w]] = "running"
    BY <2>1, <2>2, GotoType DEF Recheck, TypeOK
  <2>3. CASE call[job[w]] # "running"
    <3>1. Skip(w, SkipStatus(call[job[w]]), call[job[w]]) BY <2>3 DEF Recheck
    <3>2. SkipStatus(call[job[w]]) \in ToolTerminal BY DEF SkipStatus
    <3> QED BY <2>1, <3>1, <3>2, SkipType DEF Recheck, TypeOK
  <2> QED BY <2>2, <2>3
<1>2. JobInv'
  BY DEF JobInv, TypeOK, Recheck, Skip, SkipStatus, Goto
<1>3. CallInv'
  BY DEF CallInv, TypeOK, Recheck, Skip, SkipStatus, Goto
<1>4. WorkerInv'
  BY DEF WorkerInv, TypeOK, JobInv, CallInv, Recheck, Skip, SkipStatus, Goto
<1>5. LeftInv'
  BY DEF LeftInv, TypeOK, WorkerInv, Recheck, Skip, SkipStatus, Goto
<1>6. ClosingInv'
  BY DEF ClosingInv, TypeOK, WorkerInv, Held, Recheck, Skip, SkipStatus, Goto
<1>7. ResultMatchesStatus'
  BY DEF ResultMatchesStatus, Recheck, Skip, SkipStatus, Goto
<1>8. StepTellsTruth'
  BY DEF StepTellsTruth, Recheck, Skip, SkipStatus, Goto
<1> QED BY <1>1, <1>2, <1>3, <1>4, <1>5, <1>6, <1>7, <1>8

LEMMA Gate2Inv ==
  ASSUME IInv, NEW w \in Workers, Gate2(w)
  PROVE  IInv'
<1> USE DEF IInv
<1>1. TypeOK'
  <2>1. CASE run \in RunTerminal
    <3>1. Skip(w, SkipStatus(run), view[w]) BY <2>1 DEF Gate2
    <3>2. SkipStatus(run) \in ToolTerminal BY DEF SkipStatus
    <3>3. view[w] \in ToolStatus \cup {None} BY DEF TypeOK
    <3> QED BY <3>1, <3>2, <3>3, SkipType DEF Gate2, TypeOK
  <2>2. CASE run \notin RunTerminal
    BY <2>2, GotoType DEF Gate2, TypeOK
  <2> QED BY <2>1, <2>2
<1>2. JobInv'
  BY DEF JobInv, TypeOK, Gate2, Skip, SkipStatus, Goto
<1>3. CallInv'
  BY DEF CallInv, TypeOK, Gate2, Skip, SkipStatus, Goto
<1>4. WorkerInv'
  BY DEF WorkerInv, TypeOK, Gate2, Skip, SkipStatus, Goto
<1>5. LeftInv'
  BY DEF LeftInv, TypeOK, WorkerInv, Gate2, Skip, SkipStatus, Goto
<1>6. ClosingInv'
  BY DEF ClosingInv, TypeOK, WorkerInv, Held, Gate2, Skip, SkipStatus, Goto
<1>7. ResultMatchesStatus'
  BY DEF ResultMatchesStatus, Gate2, Skip, SkipStatus, Goto
<1>8. StepTellsTruth'
  BY DEF StepTellsTruth, Gate2, Skip, SkipStatus, Goto
<1> QED BY <1>1, <1>2, <1>3, <1>4, <1>5, <1>6, <1>7, <1>8

LEMMA InvokeInv ==
  ASSUME IInv, NEW w \in Workers, Invoke(w)
  PROVE  IInv'
<1> USE DEF IInv, Invoke, Goto
<1>1. TypeOK'
  BY DEF TypeOK
<1>2. JobInv'
  BY DEF JobInv
<1>3. CallInv'
  BY DEF CallInv, TypeOK, WorkerInv
<1>4. WorkerInv'
  BY DEF WorkerInv, TypeOK, JobInv
<1>5. LeftInv'
  BY DEF LeftInv
<1>6. ClosingInv'
  BY DEF ClosingInv, Held
<1>7. ResultMatchesStatus'
  BY DEF ResultMatchesStatus
<1>8. StepTellsTruth'
  BY DEF StepTellsTruth
<1> QED BY <1>1, <1>2, <1>3, <1>4, <1>5, <1>6, <1>7, <1>8

LEMMA ReturnInv ==
  ASSUME IInv, NEW w \in Workers, Return(w)
  PROVE  IInv'
<1> USE DEF IInv, Return, Goto
<1>1. TypeOK'
  BY DEF TypeOK
<1>2. JobInv'
  BY DEF JobInv
<1>3. CallInv'
  BY DEF CallInv
<1>4. WorkerInv'
  BY DEF WorkerInv, TypeOK
<1>5. LeftInv'
  BY DEF LeftInv
<1>6. ClosingInv'
  BY DEF ClosingInv, Held
<1>7. ResultMatchesStatus'
  BY DEF ResultMatchesStatus
<1>8. StepTellsTruth'
  BY DEF StepTellsTruth
<1> QED BY <1>1, <1>2, <1>3, <1>4, <1>5, <1>6, <1>7, <1>8

LEMMA SaveInv ==
  ASSUME IInv, NEW w \in Workers, Save(w)
  PROVE  IInv'
<1> USE DEF IInv, Save, Write, CallLocked, SaveResult, SaveSources, Goto
<1>1. TypeOK'
  BY DEF TypeOK, WorkerInv
<1>2. JobInv'
  BY DEF JobInv
<1>3. CallInv'
  BY DEF CallInv, WorkerInv
<1>4. WorkerInv'
  BY DEF WorkerInv, TypeOK, JobInv
<1>5. LeftInv'
  BY DEF LeftInv, TypeOK, JobInv, WorkerInv
<1>6. ClosingInv'
  BY DEF ClosingInv, TypeOK, WorkerInv, Held
<1>7. ResultMatchesStatus'
  BY DEF ResultMatchesStatus, TypeOK, WorkerInv
<1>8. StepTellsTruth'
  BY DEF StepTellsTruth
<1> QED BY <1>1, <1>2, <1>3, <1>4, <1>5, <1>6, <1>7, <1>8

LEMMA SkipSaveInv ==
  ASSUME IInv, NEW w \in Workers, SkipSave(w)
  PROVE  IInv'
<1> USE DEF IInv, SkipSave, Write, CallLocked, SaveResult, SaveSources, Goto
<1>1. TypeOK'
  BY DEF TypeOK, WorkerInv
<1>2. JobInv'
  BY DEF JobInv
<1>3. CallInv'
  BY DEF CallInv, WorkerInv
<1>4. WorkerInv'
  BY DEF WorkerInv
<1>5. LeftInv'
  BY DEF LeftInv, TypeOK, JobInv, WorkerInv
<1>6. ClosingInv'
  BY DEF ClosingInv, TypeOK, WorkerInv, Held
<1>7. ResultMatchesStatus'
  BY DEF ResultMatchesStatus, TypeOK, WorkerInv
<1>8. StepTellsTruth'
  BY DEF StepTellsTruth
<1> QED BY <1>1, <1>2, <1>3, <1>4, <1>5, <1>6, <1>7, <1>8

LEMMA FinishInv ==
  ASSUME IInv, NEW w \in Workers, Finish(w)
  PROVE  IInv'
<1> USE DEF IInv, Finish, StepLocked, CompleteStep, Goto
<1>1. TypeOK'
  BY DEF TypeOK, WorkerInv
<1>2. JobInv'
  BY DEF JobInv
<1>3. CallInv'
  BY DEF CallInv, TypeOK
<1>4. WorkerInv'
  BY DEF WorkerInv
<1>5. LeftInv'
  BY DEF LeftInv, TypeOK, JobInv
<1>6. ClosingInv'
  BY DEF ClosingInv, Held
<1>7. ResultMatchesStatus'
  BY DEF ResultMatchesStatus
<1>8. StepTellsTruth'
  BY DEF StepTellsTruth, WorkerInv
<1> QED BY <1>1, <1>2, <1>3, <1>4, <1>5, <1>6, <1>7, <1>8

LEMMA NoteInv ==
  ASSUME IInv, NEW w \in Workers, Note(w)
  PROVE  IInv'
<1> USE DEF IInv, Note, Goto
<1>1. TypeOK'
  BY DEF TypeOK, JobInv
<1>2. JobInv'
  BY DEF JobInv
<1>3. CallInv'
  BY DEF CallInv
<1>4. WorkerInv'
  BY DEF WorkerInv
<1>5. LeftInv'
  BY DEF LeftInv
<1>6. ClosingInv'
  BY DEF ClosingInv, Held
<1>7. ResultMatchesStatus'
  BY DEF ResultMatchesStatus
<1>8. StepTellsTruth'
  BY DEF StepTellsTruth
<1> QED BY <1>1, <1>2, <1>3, <1>4, <1>5, <1>6, <1>7, <1>8
-----------------------------------------------------------------------------
LEMMA StutterInv ==
  ASSUME IInv, UNCHANGED vars
  PROVE  IInv'
BY DEF IInv, TypeOK, JobInv, CallInv, WorkerInv, LeftInv, ClosingInv, Held,
       ResultMatchesStatus, StepTellsTruth

LEMMA InitInv == Init => IInv
<1> SUFFICES ASSUME Init PROVE IInv
  OBVIOUS
<1>1. TypeOK
  BY DEF Init, TypeOK, Idle
<1>2. JobInv /\ CallInv /\ WorkerInv /\ LeftInv
  BY DEF Init, JobInv, CallInv, WorkerInv, LeftInv
<1>3. ClosingInv
  BY DEF Init, ClosingInv, Idle
<1>4. ResultMatchesStatus /\ StepTellsTruth
  BY DEF Init, ResultMatchesStatus, StepTellsTruth
<1> QED BY <1>1, <1>2, <1>3, <1>4 DEF IInv

LEMMA StepInv ==
  ASSUME IInv, [Next]_vars
  PROVE  IInv'
<1>1. CASE \E status \in RunClosed : CloseRun(status)
  BY <1>1, CloseRunInv
<1>2. CASE Close
  BY <1>2, CloseStepsInv, CloseCallsInv, CloseCommitInv DEF Close
<1>3. CASE \E status \in {"completed", "failed"} : EndRun(status)
  BY <1>3, EndRunInv
<1>4. ASSUME NEW w \in Workers, NEW c \in Calls, CreateStep(w, c)
      PROVE  IInv'
  BY <1>4, CreateStepInv
<1>5. ASSUME NEW w \in Workers, BeginStep(w)
      PROVE  IInv'
  BY <1>5, BeginStepInv
<1>6. ASSUME NEW w \in Workers, Execute(w)
      PROVE  IInv'
  BY <1>6, GateInv, ObtainInv, ClaimInv, RecheckInv, Gate2Inv, InvokeInv,
     ReturnInv, SaveInv, SkipSaveInv, FinishInv, NoteInv DEF Execute
<1>7. CASE UNCHANGED vars
  BY <1>7, StutterInv
<1> QED BY <1>1, <1>2, <1>3, <1>4, <1>5, <1>6, <1>7 DEF Next

(***************************************************************************)
(* The inductive invariant holds throughout: what each place of            *)
(* execute_and_persist_tool_call knows of its call row stays true against  *)
(* cancel_run, mark_timed_out_runs and the other tasks.                    *)
(***************************************************************************)
THEOREM Invariance == Spec => []IInv
<1>1. Init => IInv
  BY InitInv
<1>2. IInv /\ [Next]_vars => IInv'
  BY StepInv
<1> QED BY <1>1, <1>2, PTL DEF Spec

\* Every row keeps a status its CHECK constraint knows.
THEOREM TypeCorrect == Spec => []TypeOK
<1>1. IInv => TypeOK
  BY DEF IInv
<1> QED BY <1>1, Invariance, PTL

\* A call closed before start_execution claimed it never reaches its executor.
THEOREM ClosedCallsNeverRun == Spec => []ClosedBeforeStartNeverRuns
<1>1. IInv => ClosedBeforeStartNeverRuns
  BY DEF IInv, CallInv, ClosedBeforeStartNeverRuns
<1> QED BY <1>1, Invariance, PTL

\* result_json always belongs to the outcome that status names.
THEOREM ResultsMatch == Spec => []ResultMatchesStatus
<1>1. IInv => ResultMatchesStatus
  BY DEF IInv
<1> QED BY <1>1, Invariance, PTL

\* A completed step never stands for an open or a failed tool call.
THEOREM StepsTellTruth == Spec => []StepTellsTruth
<1>1. IInv => StepTellsTruth
  BY DEF IInv
<1> QED BY <1>1, Invariance, PTL

\* A task that returned left neither its step nor its tool call open.
THEOREM NothingStaysOpen == Spec => []NothingLeftOpen
<1>1. IInv => NothingLeftOpen
  BY DEF IInv, LeftInv, NothingLeftOpen
<1> QED BY <1>1, Invariance, PTL
-----------------------------------------------------------------------------
\* What no step may change.
Final == /\ run \in RunTerminal => run' = run
         /\ \A c \in Calls : call[c] \in ToolTerminal =>
              call'[c] = call[c] /\ result'[c] = result[c]

LEMMA StepIsFinal ==
  ASSUME IInv, [Next]_vars
  PROVE  Final
<1> USE DEF Final
<1>1. CASE UNCHANGED <<run, call, result>>
  BY <1>1
<1>2. ASSUME NEW status, EndRun(status)
      PROVE  Final
  BY <1>2 DEF EndRun
<1>3. CASE CloseCommit
  BY <1>3 DEF CloseCommit, CallLocked, IInv, ClosingInv, TypeOK
<1>4. ASSUME NEW w \in Workers, pc[w] # "idle"
      PROVE  job[w] \in Calls
  BY <1>4, JobIsCall DEF IInv
<1>5. ASSUME NEW w \in Workers, Obtain(w)
      PROVE  Final
  BY <1>4, <1>5 DEF Obtain, IInv, TypeOK
<1>6. ASSUME NEW w \in Workers, Claim(w)
      PROVE  Final
  BY <1>4, <1>6 DEF Claim, StartExecution, IInv, TypeOK
<1>7. ASSUME NEW w \in Workers, Save(w) \/ SkipSave(w)
      PROVE  Final
  <2>1. verdict[w] # "rejected"
    BY <1>7 DEF Save, SkipSave, IInv, WorkerInv
  <2> QED BY <1>4, <1>7, <2>1
          DEF Save, SkipSave, Write, SaveResult, SaveSources, IInv, TypeOK
<1> QED
  BY <1>1, <1>2, <1>3, <1>5, <1>6, <1>7
  DEF Next, Close, CloseRun, CloseSteps, CloseCalls, CreateStep, BeginStep,
      Execute, Gate, Recheck, Gate2, Invoke, Return, Finish, Note

\* A run that has ended and a tool call that is closed stay as they are,
\* against every late writer.
THEOREM TerminalStaysFinal == Spec => TerminalIsFinal
<1>1. IInv /\ [Next]_vars => [Final]_vars
  BY StepIsFinal
<1> QED BY <1>1, Invariance, PTL DEF Spec, TerminalIsFinal, Final
=============================================================================
