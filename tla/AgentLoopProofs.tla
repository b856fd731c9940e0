--------------------------- MODULE AgentLoopProofs ---------------------------
(***************************************************************************)
(* The safety properties of the agent loop, for any number of runs in a    *)
(* session, any batches the model may ask for and any messages.            *)
(*                                                                         *)
(* The inductive invariant has three ideas.  The index of a run never      *)
(* passes the end of its timeline, so create_step at that index inserts a  *)
(* step right at the end or finds an old one.  A message that is in a      *)
(* prompt stays pending for that run until the turn ends.  And a turn that *)
(* the router did not count has a message to consume.                      *)
(***************************************************************************)
EXTENDS AgentLoop, FiniteSetTheorems, SequenceTheorems, TLAPS

StepRow == [kind : StepKind, status : StepStatus, call : BOOLEAN]

RunTypes ==
  /\ session \in Sessions
  /\ status \in [Runs -> RunStatus \cup {"absent"}] /\ at \in [Runs -> At]
  /\ rejected \in [Runs -> BOOLEAN] /\ error \in [Runs -> BOOLEAN]
  /\ turns \in [Runs -> Nat]

ItemTypes ==
  /\ timeline \in [Runs -> Seq(StepRow)] /\ idx \in [Runs -> Nat]
  /\ batch \in [Runs -> Seq(ItemKind)] /\ pos \in [Runs -> Nat \ {0}]
  /\ waiting \in [Runs -> SUBSET Nat]

NoteTypes ==
  /\ note \in [Msgs -> [status : NoteStatus, run : Runs \cup {NoMsgRun}]]
  /\ asked \in [Msgs -> Runs \cup {NoMsgRun}]
  /\ seen \in [Runs -> SUBSET Msgs] /\ heard \in SUBSET Msgs
  /\ taken \in [Msgs -> Nat]

\* Only runs of the session are started.
StartedInv ==
  \A r \in Runs : at[r] # "idle" => r \in DOMAIN session.runs /\ status[r] # "absent"

\* Where the batch lies in the timeline.
Placed(r) ==
  /\ batch[r] # <<>> => batch[r] \in Batches(r)
  /\ waiting[r] \subseteq 1 .. Len(batch[r])
  /\ waiting[r] # {} => at[r] \in {"suspend", "state", "waiting", "done", "dead"}
  /\ idx[r] <= Len(timeline[r]) /\ pos[r] <= Len(batch[r]) + 1
  /\ at[r] \in {"read", "await"} => idx[r] < Len(timeline[r])
  /\ at[r] = "route" => pos[r] = 1
  /\ at[r] \in {"tools", "suspend"} => idx[r] + pos[r] - 1 <= Len(timeline[r])
  /\ at[r] = "waiting" \/ (at[r] = "state" /\ waiting[r] # {}) =>
       idx[r] + Len(batch[r]) <= Len(timeline[r])

Shut(steps, k) == steps[k].kind # "approval" => steps[k].status \notin StepOpen

\* Only the step of a turn under way is open.
Tidy(r) ==
  \A k \in 1 .. Len(timeline[r]) :
    Shut(timeline[r], k) \/ (at[r] \in {"read", "await"} /\ k = idx[r] + 1)

\* A message in a prompt stays pending for the run of that prompt.
SeenInv ==
  \A r \in Runs : \A m \in seen[r] :
    at[r] = "await" /\ note[m].status = "pending" /\ note[m].run = r /\ m \in heard

Injected == {m \in Msgs : note[m].status = "injected"}

NoteInv ==
  \A m \in Msgs :
    /\ asked[m] # NoMsgRun \/ note[m].status # "absent" => m \in session.notes
    /\ taken[m] = IF m \in Injected THEN 1 ELSE 0
    /\ m \in Injected => m \in heard

\* A run that passed its limit does so for a message.  b is the longest batch.
Within(r, b) ==
  /\ idx[r] <= MaxSteps(r) + Len(b) + Cardinality(Injected)
  /\ at[r] \in {"idle", "requeue", "llm", "read"} =>
       idx[r] < MaxSteps(r) + Len(b) \/ PendingFor(r) # {}
  /\ at[r] = "await" => idx[r] < MaxSteps(r) + Len(b) \/ seen[r] # {}
  /\ at[r] \in {"tools", "suspend", "waiting"} => idx[r] < MaxSteps(r)
  /\ at[r] = "state" /\ waiting[r] # {} => idx[r] < MaxSteps(r)

Longest(r, b) == \A c \in Batches(r) : Len(c) <= Len(b)

Budget(r) == \A b \in Batches(r) : Longest(r, b) => Within(r, b)

LoopInv ==
  /\ RunTypes /\ ItemTypes /\ NoteTypes /\ StartedInv
  /\ \A r \in Runs : Placed(r) /\ Tidy(r)
  /\ SeenInv /\ NoteInv
  /\ \A r \in DOMAIN session.runs : Budget(r)
-----------------------------------------------------------------------------
(***************************************************************************)
(* What the repository functions on run_steps do to a timeline.            *)
(***************************************************************************)
LEMMA StatusKeeps ==
  ASSUME NEW s \in Seq(StepRow), NEW i \in Nat, i < Len(s), NEW st \in StepStatus,
         NEW t, t = [s EXCEPT ![i + 1].status = st]
  PROVE  /\ t \in Seq(StepRow) /\ Len(t) = Len(s)
         /\ \A k \in 1 .. Len(s) : t[k].kind = s[k].kind /\ t[k].call = s[k].call
         /\ \A k \in 1 .. Len(s) : k # i + 1 => t[k] = s[k]
         /\ t[i + 1].status = st
<1>1. i + 1 \in DOMAIN s /\ s[i + 1] \in StepRow
  OBVIOUS
<1>2. t = [s EXCEPT ![i + 1] = [s[i + 1] EXCEPT !.status = st]]
  OBVIOUS
<1>3. [s[i + 1] EXCEPT !.status = st] \in StepRow
  BY <1>1 DEF StepRow
<1>4. t \in Seq(StepRow) /\ Len(t) = Len(s)
  BY <1>2, <1>3
<1> QED BY <1>1, <1>2, <1>4 DEF StepRow

\* start_step moves a pending step only.
LEMMA StartKeeps ==
  ASSUME NEW s \in Seq(StepRow), NEW i \in Nat, i < Len(s)
  PROVE  /\ StartAt(s, i) \in Seq(StepRow) /\ Len(StartAt(s, i)) = Len(s)
         /\ \A k \in 1 .. Len(s) : /\ StartAt(s, i)[k].kind = s[k].kind
                                   /\ StartAt(s, i)[k].call = s[k].call
                                   /\ Shut(s, k) => Shut(StartAt(s, i), k)
         /\ \A k \in 1 .. Len(s) : k # i + 1 => StartAt(s, i)[k] = s[k]
<1> DEFINE t == StartAt(s, i)
<1>1. i + 1 \in DOMAIN s /\ s[i + 1] \in StepRow
  OBVIOUS
<1>2. StartStep(s[i + 1].status) \in StepStatus
  BY <1>1 DEF StepRow, StartStep, StepStatus, StepOpen
<1>3. t = [s EXCEPT ![i + 1].status = StartStep(s[i + 1].status)]
  BY DEF StartAt
<1> HIDE DEF t
<1>4. /\ t \in Seq(StepRow) /\ Len(t) = Len(s)
      /\ \A k \in 1 .. Len(s) : t[k].kind = s[k].kind /\ t[k].call = s[k].call
      /\ \A k \in 1 .. Len(s) : k # i + 1 => t[k] = s[k]
      /\ t[i + 1].status = StartStep(s[i + 1].status)
  BY <1>2, <1>3, StatusKeeps
<1>5. \A k \in 1 .. Len(s) : Shut(s, k) => Shut(t, k)
  BY <1>1, <1>4 DEF Shut, StartStep, StepOpen
<1> QED BY <1>4, <1>5 DEF t

\* complete_step leaves a step closed, one way or another.
LEMMA CompleteKeeps ==
  ASSUME NEW s \in Seq(StepRow), NEW i \in Nat, i < Len(s), NEW st \in StepTerminal
  PROVE  /\ CompleteAt(s, i, st) \in Seq(StepRow) /\ Len(CompleteAt(s, i, st)) = Len(s)
         /\ \A k \in 1 .. Len(s) : /\ CompleteAt(s, i, st)[k].kind = s[k].kind
                                   /\ CompleteAt(s, i, st)[k].call = s[k].call
         /\ \A k \in 1 .. Len(s) : k # i + 1 => CompleteAt(s, i, st)[k] = s[k]
         /\ Shut(CompleteAt(s, i, st), i + 1)
<1> DEFINE t == CompleteAt(s, i, st)
<1>1. i + 1 \in DOMAIN s /\ s[i + 1] \in StepRow
  OBVIOUS
<1>2. CompleteStep(s[i + 1].status, st) \in StepStatus \ StepOpen
  BY <1>1 DEF StepRow, CompleteStep, StepStatus, StepOpen, StepTerminal
<1>3. t = [s EXCEPT ![i + 1].status = CompleteStep(s[i + 1].status, st)]
  BY DEF CompleteAt
<1> HIDE DEF t
<1>4. /\ t \in Seq(StepRow) /\ Len(t) = Len(s)
      /\ \A k \in 1 .. Len(s) : t[k].kind = s[k].kind /\ t[k].call = s[k].call
      /\ \A k \in 1 .. Len(s) : k # i + 1 => t[k] = s[k]
      /\ t[i + 1].status = CompleteStep(s[i + 1].status, st)
  BY <1>2, <1>3, StatusKeeps
<1> QED BY <1>2, <1>4 DEF t, Shut

\* attach_to_step and its reverse: who owns the step's place for a tool call.
LEMMA CallKeeps ==
  ASSUME NEW s \in Seq(StepRow), NEW i \in Nat, i < Len(s),
         NEW t, t \in {[s EXCEPT ![i + 1].call = TRUE], [s EXCEPT ![i + 1].call = FALSE]}
  PROVE  /\ t \in Seq(StepRow) /\ Len(t) = Len(s)
         /\ \A k \in 1 .. Len(s) : t[k].kind = s[k].kind /\ t[k].status = s[k].status
<1>1. i + 1 \in DOMAIN s /\ s[i + 1] \in StepRow
  OBVIOUS
<1>2. PICK row \in {[s[i + 1] EXCEPT !.call = TRUE], [s[i + 1] EXCEPT !.call = FALSE]} :
        t = [s EXCEPT ![i + 1] = row]
  OBVIOUS
<1>3. row \in StepRow /\ row.kind = s[i + 1].kind /\ row.status = s[i + 1].status
  BY <1>1 DEF StepRow
<1>4. t \in Seq(StepRow) /\ Len(t) = Len(s)
  BY <1>2, <1>3
<1> QED BY <1>1, <1>2, <1>3, <1>4

\* create_step inserts at the end or returns a step that is there.
LEMMA CreateKeeps ==
  ASSUME NEW s \in Seq(StepRow), NEW i \in Nat, i <= Len(s), NEW new \in StepRow
  PROVE  /\ CreateStep(s, i, new) \in Seq(StepRow) /\ i < Len(CreateStep(s, i, new))
         /\ \/ i < Len(s) /\ CreateStep(s, i, new) = s
            \/ /\ i = Len(s) /\ Len(CreateStep(s, i, new)) = Len(s) + 1
               /\ CreateStep(s, i, new)[i + 1] = new
               /\ \A k \in 1 .. Len(s) : CreateStep(s, i, new)[k] = s[k]
BY DEF CreateStep

LEMMA AppendKeeps ==
  ASSUME NEW s \in Seq(StepRow), NEW new \in StepRow
  PROVE  /\ AppendStep(s, new) \in Seq(StepRow) /\ Len(AppendStep(s, new)) = Len(s) + 1
         /\ AppendStep(s, new)[Len(s) + 1] = new
         /\ \A k \in 1 .. Len(s) : AppendStep(s, new)[k] = s[k]
BY DEF AppendStep

\* close_open_steps_by_run leaves no step open.
LEMMA CloseAllKeeps ==
  ASSUME NEW s \in Seq(StepRow), NEW st \in StepTerminal, NEW t, t = CloseSteps(s, st)
  PROVE  t \in Seq(StepRow) /\ Len(t) = Len(s) /\ \A k \in 1 .. Len(s) : Shut(t, k)
<1>1. \A i \in 1 .. Len(s) : s[i] \in StepRow
  OBVIOUS
<1>2. \A i \in 1 .. Len(s) : CompleteStep(s[i].status, st) \in StepStatus \ StepOpen
  BY <1>1 DEF StepRow, CompleteStep, StepStatus, StepOpen, StepTerminal
<1>3. \A i \in 1 .. Len(s) : [s[i] EXCEPT !.status = CompleteStep(@, st)] \in StepRow
  BY <1>1, <1>2 DEF StepRow
<1>4. DOMAIN s = 1 .. Len(s) /\ Len(s) \in Nat
  OBVIOUS
<1>5. t \in [1 .. Len(s) -> StepRow]
  BY <1>3, <1>4 DEF CloseSteps
<1>6. t \in Seq(StepRow) /\ Len(t) = Len(s)
  BY <1>4, <1>5
<1>7. \A k \in 1 .. Len(s) : t[k].status = CompleteStep(s[k].status, st)
  BY <1>1, <1>4 DEF StepRow, CloseSteps
<1> QED BY <1>2, <1>6, <1>7 DEF Shut
-----------------------------------------------------------------------------
USE DEF RunTerminal, RunActive, RunStatus, RunClosed, StepOpen, StepTerminal, StepStatus,
        StepKind, ItemKind, At, NoteStatus, Goto, runVars, noteVars

LEMMA SessionFacts ==
  ASSUME RunTypes, NEW r \in DOMAIN session.runs
  PROVE  /\ r \in Runs /\ MaxSteps(r) \in Nat \ {0}
         /\ \A b \in Batches(r) : b \in Seq(ItemKind) /\ Len(b) \in Nat /\ b # <<>>
<1>1. session.runs \in Seq(RunConfig) /\ Len(session.runs) \in 1 .. MaxRuns
  BY LoopAssumption DEF RunTypes, SessionType
<1>2. session.runs[r] \in RunConfig /\ r \in Runs
  BY <1>1, LoopAssumption DEF Runs
<1> QED BY <1>2 DEF RunConfig, MaxSteps, Batches

LEMMA CountGrows ==
  ASSUME NEW S \in SUBSET Msgs, NEW T \in SUBSET Msgs, S \subseteq T
  PROVE  /\ Cardinality(S) \in Nat /\ Cardinality(T) \in Nat
         /\ Cardinality(S) <= Cardinality(T)
         /\ S # T => Cardinality(S) < Cardinality(T)
<1>1. IsFiniteSet(S) /\ IsFiniteSet(T)
  BY FS_Subset, LoopAssumption
<1>2. Cardinality(S) \in Nat /\ Cardinality(T) \in Nat
  BY <1>1, FS_CardinalityType
<1>3. Cardinality(S) <= Cardinality(T) /\ (Cardinality(S) = Cardinality(T) => S = T)
  BY <1>1, FS_Subset
<1> QED BY <1>2, <1>3

(***************************************************************************)
(* A step of run r leaves the other runs alone; it takes no message away   *)
(* from them and no injected message back.                                 *)
(***************************************************************************)
Elsewhere(r) ==
  \A q \in Runs \ {r} :
    /\ timeline'[q] = timeline[q] /\ at'[q] = at[q] /\ idx'[q] = idx[q]
    /\ batch'[q] = batch[q] /\ pos'[q] = pos[q] /\ waiting'[q] = waiting[q]
    /\ seen'[q] = seen[q]

NotesGo(r) ==
  /\ \A q \in Runs \ {r} : PendingFor(q) \subseteq PendingFor(q)'
  /\ Injected \subseteq Injected'

LEMMA Assemble ==
  ASSUME LoopInv, UNCHANGED session, NEW r \in Runs,
         RunTypes', ItemTypes', NoteTypes', StartedInv', SeenInv', NoteInv',
         Elsewhere(r), NotesGo(r), Placed(r)', Tidy(r)',
         r \in DOMAIN session.runs => Budget(r)'
  PROVE  LoopInv'
<1>1. ASSUME NEW q \in Runs, q # r PROVE Placed(q)' /\ Tidy(q)'
  <2>1. /\ timeline'[q] = timeline[q] /\ at'[q] = at[q] /\ idx'[q] = idx[q]
        /\ batch'[q] = batch[q] /\ pos'[q] = pos[q] /\ waiting'[q] = waiting[q]
    BY <1>1 DEF Elsewhere
  <2>2. Placed(q) /\ Tidy(q)
    BY DEF LoopInv
  <2>3. Placed(q)'
    BY <2>1, <2>2 DEF Placed, Batches
  <2>4. Tidy(q)'
    BY <2>1, <2>2 DEF Tidy, Shut
  <2> QED BY <2>3, <2>4
<1>2. ASSUME NEW q \in DOMAIN session.runs, q # r PROVE Budget(q)'
  <2>1. q \in Runs /\ MaxSteps(q) \in Nat /\ \A b \in Batches(q) : Len(b) \in Nat
    BY SessionFacts DEF LoopInv
  <2>2. /\ at'[q] = at[q] /\ idx'[q] = idx[q] /\ idx[q] \in Nat
        /\ waiting'[q] = waiting[q] /\ seen'[q] = seen[q]
    BY <1>2, <2>1 DEF Elsewhere, LoopInv, ItemTypes
  <2>3. PendingFor(q) \subseteq PendingFor(q)'
    BY <1>2, <2>1 DEF NotesGo
  <2>4. /\ Cardinality(Injected) \in Nat /\ Cardinality(Injected)' \in Nat
        /\ Cardinality(Injected) <= Cardinality(Injected)'
    BY CountGrows DEF NotesGo, Injected
  <2>5. /\ MaxSteps(q)' = MaxSteps(q) /\ Batches(q)' = Batches(q)
        /\ \A b \in Batches(q) : Longest(q, b)' = Longest(q, b)
    BY DEF MaxSteps, Batches, Longest
  <2>6. ASSUME NEW b \in Batches(q), Longest(q, b) PROVE Within(q, b)'
    <3>1. Within(q, b)
      BY <2>6 DEF LoopInv, Budget
    <3> QED BY <2>1, <2>2, <2>3, <2>4, <2>5, <3>1 DEF Within
  <2> QED BY <2>5, <2>6 DEF Budget
<1> QED BY <1>1, <1>2 DEF LoopInv

\* The budget of the run that takes the step, for its longest batch.
LEMMA BudgetOf ==
  ASSUME RunTypes, UNCHANGED session, NEW r \in DOMAIN session.runs,
         \A b \in Batches(r) : Longest(r, b) => Within(r, b)'
  PROVE  Budget(r)'
BY DEF Budget, Batches, Longest

LEMMA BudgetFacts ==
  ASSUME LoopInv, UNCHANGED session, NEW r \in DOMAIN session.runs, NEW b \in Batches(r),
         Longest(r, b)
  PROVE  /\ r \in Runs /\ Within(r, b) /\ MaxSteps(r)' = MaxSteps(r)
         /\ MaxSteps(r) \in Nat \ {0} /\ Len(b) \in Nat /\ idx[r] \in Nat
         /\ Len(batch[r]) \in Nat /\ Len(batch[r]) <= Len(b)
         /\ Cardinality(Injected) \in Nat
<1>1. r \in Runs /\ MaxSteps(r) \in Nat \ {0} /\ Len(b) \in Nat /\ b # <<>>
  BY SessionFacts DEF LoopInv
<1>2. Within(r, b) /\ Cardinality(Injected) \in Nat /\ MaxSteps(r)' = MaxSteps(r)
  BY CountGrows DEF LoopInv, Budget, Injected, MaxSteps
<1>3. idx[r] \in Nat /\ batch[r] \in Seq(ItemKind) /\ Len(batch[r]) \in Nat
  BY <1>1 DEF LoopInv, ItemTypes
<1>4. Len(batch[r]) <= Len(b)
  <2>1. CASE batch[r] = <<>>
    BY <1>1, <2>1
  <2>2. CASE batch[r] # <<>>
    BY <1>1, <2>2 DEF LoopInv, Placed, Longest
  <2> QED BY <2>1, <2>2
<1> QED BY <1>1, <1>2, <1>3, <1>4

LEMMA StartRunKeeps ==
  ASSUME LoopInv, UNCHANGED session, NEW r \in Runs, StartRun(r)
  PROVE  LoopInv'
<1>0. /\ RunTypes /\ ItemTypes /\ NoteTypes /\ StartedInv /\ SeenInv /\ NoteInv
      /\ Placed(r) /\ Tidy(r)
  BY DEF LoopInv
<1>a. at[r] = "idle" /\ r \in DOMAIN session.runs
  BY <1>0 DEF StartRun, StartedInv
<1>1. RunTypes' /\ StartedInv'
  BY <1>0, <1>a DEF StartRun, RunTypes, StartedInv
<1>2. UNCHANGED <<note, asked, heard, taken>> /\ UNCHANGED seen
  BY DEF StartRun
<1>3. NoteTypes' /\ NoteInv' /\ PendingFor(r)' = PendingFor(r) /\ Injected' = Injected
  BY <1>0, <1>2 DEF NoteTypes, NoteInv, Injected, PendingFor
<1>4. SeenInv'
  BY <1>0, <1>2, <1>a DEF StartRun, SeenInv, RunTypes
<1>5. Elsewhere(r)
  BY <1>0, <1>2, <1>a DEF StartRun, Elsewhere, RunTypes, ItemTypes
<1>6. NotesGo(r)
  BY <1>2 DEF NotesGo, PendingFor, Injected
<1>7. ItemTypes'
  BY <1>0, <1>a DEF StartRun, ItemTypes
<1>8. Placed(r)'
  BY <1>0, <1>a DEF StartRun, RunTypes, ItemTypes, Placed, Batches
<1>9. Tidy(r)'
  BY <1>0, <1>a DEF StartRun, RunTypes, ItemTypes, Tidy, Shut
<1>10. r \in DOMAIN session.runs => Budget(r)'
  <2> SUFFICES ASSUME r \in DOMAIN session.runs, NEW b \in Batches(r), Longest(r, b)
               PROVE  Within(r, b)'
    BY <1>0, BudgetOf
  <2> QED BY <1>0, <1>3, <1>a, BudgetFacts DEF StartRun, RunTypes, ItemTypes, Within
<1> QED BY <1>0, <1>1, <1>3, <1>4, <1>5, <1>6, <1>7, <1>8, <1>9, <1>10, Assemble

LEMMA RequeueKeeps ==
  ASSUME LoopInv, UNCHANGED session, NEW r \in Runs, Requeue(r)
  PROVE  LoopInv'
<1>0. /\ RunTypes /\ ItemTypes /\ NoteTypes /\ StartedInv /\ SeenInv /\ NoteInv
      /\ Placed(r) /\ Tidy(r)
  BY DEF LoopInv
<1>1. RunTypes' /\ StartedInv'
  BY <1>0 DEF Requeue, RunTypes, StartedInv
<1>3. NoteTypes' /\ NoteInv' /\ PendingFor(r) \subseteq PendingFor(r)' /\ Injected' = Injected
  BY <1>0 DEF Requeue, NoteTypes, NoteInv, Injected, PendingFor
<1>4. SeenInv'
  BY <1>0 DEF Requeue, SeenInv, NoteTypes, RunTypes
<1>5. Elsewhere(r)
  BY <1>0 DEF Requeue, Elsewhere, RunTypes
<1>6. NotesGo(r)
  BY <1>0 DEF Requeue, NotesGo, PendingFor, Injected, NoteTypes
<1>7. ItemTypes'
  BY <1>0 DEF Requeue, ItemTypes
<1>8. Placed(r)'
  BY <1>0 DEF Requeue, RunTypes, ItemTypes, Placed, Batches
<1>9. Tidy(r)'
  BY <1>0 DEF Requeue, RunTypes, ItemTypes, Tidy, Shut
<1>10. r \in DOMAIN session.runs => Budget(r)'
  <2> SUFFICES ASSUME r \in DOMAIN session.runs, NEW b \in Batches(r), Longest(r, b)
               PROVE  Within(r, b)'
    BY <1>0, BudgetOf
  <2> QED BY <1>0, <1>3, BudgetFacts DEF Requeue, RunTypes, ItemTypes, Within
<1> QED BY <1>0, <1>1, <1>3, <1>4, <1>5, <1>6, <1>7, <1>8, <1>9, <1>10, Assemble

LEMMA OpenTurnKeeps ==
  ASSUME LoopInv, UNCHANGED session, NEW r \in Runs, OpenTurn(r)
  PROVE  LoopInv'
<1>0. /\ RunTypes /\ ItemTypes /\ NoteTypes /\ StartedInv /\ SeenInv /\ NoteInv
      /\ Placed(r) /\ Tidy(r)
  BY DEF LoopInv
<1> DEFINE i == idx[r]
           n == Step("llm", "pending", FALSE)
           s == CreateStep(timeline[r], i, n)
           t == StartAt(s, i)
<1>a. /\ timeline[r] \in Seq(StepRow) /\ Len(timeline[r]) \in Nat
      /\ i \in Nat /\ i <= Len(timeline[r])
  BY <1>0 DEF OpenTurn, ItemTypes, Placed, ItemIndex
<1>b. n \in StepRow /\ n = [kind |-> "llm", status |-> "pending", call |-> FALSE]
  BY DEF Step, StepRow
<1> HIDE DEF i, n
<1>x. /\ s \in Seq(StepRow) /\ i < Len(s)
      /\ \/ i < Len(timeline[r]) /\ s = timeline[r]
         \/ /\ i = Len(timeline[r]) /\ Len(s) = Len(timeline[r]) + 1 /\ s[i + 1] = n
            /\ \A k \in 1 .. Len(timeline[r]) : s[k] = timeline[r][k]
  BY <1>a, <1>b DEF CreateStep
<1> HIDE DEF s
<1>c. s \in Seq(StepRow) /\ i < Len(s) /\ Len(timeline[r]) <= Len(s) /\ Len(s) \in Nat
  BY <1>a, <1>x
<1>d. \A k \in 1 .. Len(s) : k # i + 1 =>
        k \in 1 .. Len(timeline[r]) /\ s[k] = timeline[r][k]
  BY <1>a, <1>x
<1>e. /\ t \in Seq(StepRow) /\ Len(t) = Len(s)
      /\ \A k \in 1 .. Len(s) : k # i + 1 => t[k] = s[k]
  BY <1>a, <1>c, StartKeeps
<1>f. timeline' = [timeline EXCEPT ![r] = t]
  BY DEF OpenTurn, i, n, s
<1> HIDE DEF t
<1>g. i = idx[r]
  BY DEF i
<1>1. RunTypes' /\ StartedInv'
  BY <1>0 DEF OpenTurn, RunTypes, StartedInv
<1>2. UNCHANGED <<note, asked, heard, taken>> /\ UNCHANGED seen
  BY DEF OpenTurn
<1>3. NoteTypes' /\ NoteInv' /\ PendingFor(r)' = PendingFor(r) /\ Injected' = Injected
  BY <1>0, <1>2 DEF NoteTypes, NoteInv, Injected, PendingFor
<1>4. SeenInv'
  BY <1>0, <1>2 DEF OpenTurn, SeenInv, RunTypes
<1>5. Elsewhere(r)
  BY <1>0, <1>2 DEF OpenTurn, Elsewhere, RunTypes, ItemTypes
<1>6. NotesGo(r)
  BY <1>2 DEF NotesGo, PendingFor, Injected
<1>7. ItemTypes'
  BY <1>0, <1>c, <1>e, <1>f, <1>g DEF OpenTurn, ItemTypes
<1>8. Placed(r)'
  <2>1. /\ timeline'[r] = t /\ idx'[r] = idx[r] /\ at'[r] = "read" /\ at[r] = "llm"
        /\ batch'[r] = batch[r] /\ pos'[r] = pos[r] /\ waiting'[r] = waiting[r]
    BY <1>0, <1>f DEF OpenTurn, ItemTypes, RunTypes
  <2>2. /\ Batches(r)' = Batches(r) /\ idx[r] < Len(t) /\ waiting[r] = {}
    BY <1>0, <1>a, <1>c, <1>e, <1>g, <2>1 DEF Placed, Batches
  <2> QED BY <1>0, <1>a, <1>g, <2>1, <2>2 DEF Placed
<1>9. Tidy(r)'
  <2>1. timeline'[r] = t /\ idx'[r] = idx[r] /\ at'[r] = "read" /\ at[r] = "llm"
    BY <1>0, <1>f DEF OpenTurn, ItemTypes, RunTypes
  <2> QED BY <1>0, <1>c, <1>d, <1>e, <1>g, <2>1 DEF Tidy, Shut
<1>10. r \in DOMAIN session.runs => Budget(r)'
  <2> SUFFICES ASSUME r \in DOMAIN session.runs, NEW b \in Batches(r), Longest(r, b)
               PROVE  Within(r, b)'
    BY <1>0, BudgetOf
  <2> QED BY <1>0, <1>3, BudgetFacts DEF OpenTurn, RunTypes, ItemTypes, Within
<1> QED BY <1>0, <1>1, <1>3, <1>4, <1>5, <1>6, <1>7, <1>8, <1>9, <1>10, Assemble

LEMMA ReadNotesKeeps ==
  ASSUME LoopInv, UNCHANGED session, NEW r \in Runs, ReadNotes(r)
  PROVE  LoopInv'
<1>0. /\ RunTypes /\ ItemTypes /\ NoteTypes /\ StartedInv /\ SeenInv /\ NoteInv
      /\ Placed(r) /\ Tidy(r)
  BY DEF LoopInv
<1>1. RunTypes' /\ StartedInv'
  BY <1>0 DEF ReadNotes, RunTypes, StartedInv
<1>2. /\ seen' = [seen EXCEPT ![r] = PendingFor(r)] /\ heard' = heard \cup PendingFor(r)
      /\ UNCHANGED <<note, asked, taken>> /\ PendingFor(r) \subseteq Msgs
  BY DEF ReadNotes, PendingFor
<1>3. NoteTypes' /\ NoteInv' /\ PendingFor(r)' = PendingFor(r) /\ Injected' = Injected
  <2>1. PendingFor(r)' = PendingFor(r) /\ Injected' = Injected
    BY <1>2 DEF PendingFor, Injected
  <2>2. NoteTypes'
    BY <1>0, <1>2 DEF NoteTypes
  <2>3. NoteInv'
    BY <1>0, <1>2, <2>1 DEF NoteInv
  <2> QED BY <2>1, <2>2, <2>3
<1>4. SeenInv'
  <2>1. at' = [at EXCEPT ![r] = "await"] /\ at[r] = "read"
    BY DEF ReadNotes
  <2>2. \A q \in Runs : \A m \in seen'[q] :
          m \in seen[q] \/ (q = r /\ m \in PendingFor(r))
    BY <1>0, <1>2 DEF NoteTypes
  <2> QED BY <1>0, <1>2, <2>1, <2>2 DEF SeenInv, PendingFor, RunTypes
<1>5. Elsewhere(r)
  BY <1>0, <1>2 DEF ReadNotes, Elsewhere, RunTypes, NoteTypes
<1>6. NotesGo(r)
  BY <1>2 DEF NotesGo, PendingFor, Injected
<1>7. ItemTypes'
  BY <1>0 DEF ReadNotes, ItemTypes
<1>8. Placed(r)'
  BY <1>0 DEF ReadNotes, RunTypes, ItemTypes, Placed, Batches
<1>9. Tidy(r)'
  BY <1>0 DEF ReadNotes, RunTypes, ItemTypes, Tidy, Shut
<1>10. r \in DOMAIN session.runs => Budget(r)'
  <2> SUFFICES ASSUME r \in DOMAIN session.runs, NEW b \in Batches(r), Longest(r, b)
               PROVE  Within(r, b)'
    BY <1>0, BudgetOf
  <2>1. seen'[r] = PendingFor(r) /\ at[r] = "read" /\ at'[r] = "await" /\ idx'[r] = idx[r]
    BY <1>0, <1>2 DEF ReadNotes, NoteTypes, RunTypes
  <2> QED BY <1>0, <1>3, <2>1, BudgetFacts DEF ReadNotes, RunTypes, ItemTypes, Within
<1> QED BY <1>0, <1>1, <1>3, <1>4, <1>5, <1>6, <1>7, <1>8, <1>9, <1>10, Assemble

LEMMA EndTurnKeeps ==
  ASSUME LoopInv, UNCHANGED session, NEW r \in Runs, EndTurn(r)
  PROVE  LoopInv'
<1>0. /\ RunTypes /\ ItemTypes /\ NoteTypes /\ StartedInv /\ SeenInv /\ NoteInv
      /\ Placed(r) /\ Tidy(r)
  BY DEF LoopInv
<1> DEFINE t == CompleteAt(timeline[r], idx[r], "completed")
<1>a. timeline[r] \in Seq(StepRow) /\ idx[r] \in Nat /\ idx[r] < Len(timeline[r])
  BY <1>0 DEF EndTurn, ItemTypes, Placed
<1>b. /\ t \in Seq(StepRow) /\ Len(t) = Len(timeline[r]) /\ Shut(t, idx[r] + 1)
      /\ \A k \in 1 .. Len(timeline[r]) : k # idx[r] + 1 => t[k] = timeline[r][k]
  <2>1. "completed" \in StepTerminal
    OBVIOUS
  <2> QED BY <1>a, <2>1, CompleteKeeps
<1>c. timeline' = [timeline EXCEPT ![r] = t]
  BY DEF EndTurn
<1> HIDE DEF t
<1>d. PICK calls \in {<<>>} \cup Batches(r) : batch' = [batch EXCEPT ![r] = calls]
  BY DEF EndTurn
<1>e. calls \in Seq(ItemKind)
  <2>1. r \in DOMAIN session.runs
    BY <1>0 DEF EndTurn, StartedInv
  <2>2. \A c \in Batches(r) : c \in Seq(ItemKind)
    BY <1>0, <2>1, SessionFacts
  <2>3. <<>> \in Seq(ItemKind)
    OBVIOUS
  <2> QED BY <2>2, <2>3, <1>d
<1>f. \A m \in seen[r] : /\ m \in Msgs /\ note[m].status = "pending" /\ note[m].run = r
                         /\ m \in heard /\ taken[m] = 0
  BY <1>0 DEF SeenInv, NoteTypes, NoteInv, Injected
<1>g. \A m \in Msgs : IF m \in seen[r]
                      THEN /\ note'[m] = [note[m] EXCEPT !.status = "injected"]
                           /\ taken'[m] = taken[m] + 1
                      ELSE note'[m] = note[m] /\ taken'[m] = taken[m]
  BY DEF EndTurn, Consume
<1>1. RunTypes' /\ StartedInv'
  BY <1>0 DEF EndTurn, Consume, RunTypes, StartedInv
<1>2. seen' = [seen EXCEPT ![r] = {}] /\ UNCHANGED <<asked, heard>>
  BY DEF EndTurn
<1>h. /\ \A m \in Msgs : m \notin seen[r] => note'[m] = note[m] /\ taken'[m] = taken[m]
      /\ \A m \in seen[r] : note'[m].status = "injected" /\ note'[m].run = r /\ taken'[m] = 1
  <2>1. ASSUME NEW m \in Msgs, m \notin seen[r] PROVE note'[m] = note[m] /\ taken'[m] = taken[m]
    BY <1>g, <2>1
  <2>2. ASSUME NEW m \in seen[r]
        PROVE  note'[m].status = "injected" /\ note'[m].run = r /\ taken'[m] = 1
    <3>1. m \in Msgs /\ note[m] \in [status : NoteStatus, run : Runs \cup {NoMsgRun}]
      BY <1>0, <1>f DEF NoteTypes
    <3>2. note'[m] = [note[m] EXCEPT !.status = "injected"] /\ taken'[m] = taken[m] + 1
      BY <1>g, <3>1
    <3>3. note[m].run = r /\ taken[m] = 0
      BY <1>f
    <3>4. note'[m].status = "injected" /\ note'[m].run = r
      BY <3>1, <3>2, <3>3
    <3>5. taken'[m] = 1
      BY <3>2, <3>3
    <3> QED BY <3>4, <3>5
  <2> QED BY <2>1, <2>2
<1>3. NoteTypes' /\ NoteInv' /\ Injected' = Injected \cup seen[r]
  <2>1. Injected' = Injected \cup seen[r]
    BY <1>f, <1>h DEF Injected
  <2>2. NoteTypes'
    <3>1. DOMAIN note' = Msgs /\ DOMAIN taken' = Msgs
      BY DEF EndTurn, Consume
    <3>2. \A m \in Msgs : note'[m] \in [status : NoteStatus, run : Runs \cup {NoMsgRun}]
      BY <1>0, <1>g DEF NoteTypes
    <3>3. \A m \in Msgs : taken'[m] \in Nat
      <4>1. \A m \in Msgs : m \notin seen[r] => taken'[m] \in Nat
        BY <1>0, <1>h DEF NoteTypes
      <4>2. \A m \in seen[r] : taken'[m] \in Nat
        BY <1>h
      <4> QED BY <4>1, <4>2
    <3>4. /\ note' = [m \in Msgs |-> note'[m]] /\ taken' = [m \in Msgs |-> taken'[m]]
      BY DEF EndTurn, Consume
    <3> QED BY <1>0, <1>2, <3>2, <3>3, <3>4 DEF NoteTypes
  <2>3. NoteInv'
    BY <1>0, <1>2, <1>f, <1>h, <2>1 DEF NoteInv, Injected
  <2> QED BY <2>1, <2>2, <2>3
<1>4. SeenInv'
  <2>1. \A q \in Runs \ {r} : \A m \in seen[q] : m \in Msgs /\ m \notin seen[r]
    BY <1>0, <1>f DEF SeenInv, NoteTypes
  <2>2. \A q \in Runs : at'[q] = IF q = r THEN "route" ELSE at[q]
    BY <1>0 DEF EndTurn, RunTypes
  <2> QED BY <1>0, <1>2, <1>h, <2>1, <2>2 DEF SeenInv, NoteTypes
<1>5. Elsewhere(r)
  BY <1>0, <1>2 DEF EndTurn, Elsewhere, RunTypes, ItemTypes, NoteTypes
<1>6. NotesGo(r)
  BY <1>3, <1>f, <1>h DEF NotesGo, PendingFor
<1>7. ItemTypes'
  BY <1>0, <1>a, <1>b, <1>c, <1>d, <1>e DEF EndTurn, ItemTypes
<1>8. Placed(r)'
  <2>1. /\ timeline'[r] = t /\ idx'[r] = idx[r] + 1 /\ batch'[r] = calls /\ pos'[r] = 1
        /\ at'[r] = "route" /\ at[r] = "await" /\ waiting'[r] = waiting[r]
    BY <1>0, <1>c, <1>d DEF EndTurn, RunTypes, ItemTypes
  <2>2. waiting[r] = {}
    BY <1>0, <2>1 DEF Placed
  <2> QED BY <1>a, <1>b, <1>d, <1>e, <2>1, <2>2 DEF Placed, Batches
<1>9. Tidy(r)'
  <2>1. timeline'[r] = t
    BY <1>0, <1>c DEF ItemTypes
  <2> QED BY <1>0, <1>a, <1>b, <2>1 DEF Tidy, Shut
<1>10. r \in DOMAIN session.runs => Budget(r)'
  <2> SUFFICES ASSUME r \in DOMAIN session.runs, NEW b \in Batches(r), Longest(r, b)
               PROVE  Within(r, b)'
    BY <1>0, BudgetOf
  <2>1. idx'[r] = idx[r] + 1 /\ at[r] = "await" /\ at'[r] = "route" /\ r \in Runs
    BY <1>0, <1>a DEF EndTurn, RunTypes, ItemTypes
  <2>2. /\ Cardinality(Injected)' \in Nat /\ Cardinality(Injected) <= Cardinality(Injected)'
        /\ seen[r] # {} => Cardinality(Injected) < Cardinality(Injected)'
    <3>1. /\ Injected \in SUBSET Msgs /\ Injected \cup seen[r] \in SUBSET Msgs
          /\ seen[r] # {} => Injected \cup seen[r] # Injected
      BY <1>f DEF Injected
    <3> QED BY <1>3, <3>1, CountGrows
  <2> QED BY <1>0, <1>3, <2>1, <2>2, BudgetFacts DEF EndTurn, Consume, RunTypes, ItemTypes, Within
<1> QED BY <1>0, <1>1, <1>3, <1>4, <1>5, <1>6, <1>7, <1>8, <1>9, <1>10, Assemble

LEMMA FailTurnKeeps ==
  ASSUME LoopInv, UNCHANGED session, NEW r \in Runs, FailTurn(r)
  PROVE  LoopInv'
<1>0. /\ RunTypes /\ ItemTypes /\ NoteTypes /\ StartedInv /\ SeenInv /\ NoteInv
      /\ Placed(r) /\ Tidy(r)
  BY DEF LoopInv
<1> DEFINE t == CompleteAt(timeline[r], idx[r], "failed")
<1>a. timeline[r] \in Seq(StepRow) /\ idx[r] \in Nat /\ idx[r] < Len(timeline[r])
  BY <1>0 DEF FailTurn, ItemTypes, Placed
<1>b. /\ t \in Seq(StepRow) /\ Len(t) = Len(timeline[r]) /\ Shut(t, idx[r] + 1)
      /\ \A k \in 1 .. Len(timeline[r]) : k # idx[r] + 1 => t[k] = timeline[r][k]
  <2>1. "failed" \in StepTerminal
    OBVIOUS
  <2> QED BY <1>a, <2>1, CompleteKeeps
<1>c. timeline' = [timeline EXCEPT ![r] = t]
  BY DEF FailTurn
<1> HIDE DEF t
<1>1. RunTypes' /\ StartedInv'
  BY <1>0 DEF FailTurn, RunTypes, StartedInv
<1>2. seen' = [seen EXCEPT ![r] = {}] /\ UNCHANGED <<note, asked, heard, taken>>
  BY DEF FailTurn
<1>3. NoteTypes' /\ NoteInv' /\ PendingFor(r)' = PendingFor(r) /\ Injected' = Injected
  BY <1>0, <1>2 DEF NoteTypes, NoteInv, Injected, PendingFor
<1>4. SeenInv'
  BY <1>0, <1>2 DEF FailTurn, SeenInv, RunTypes, NoteTypes
<1>5. Elsewhere(r)
  BY <1>0, <1>2, <1>c DEF FailTurn, Elsewhere, RunTypes, ItemTypes, NoteTypes
<1>6. NotesGo(r)
  BY <1>2 DEF NotesGo, PendingFor, Injected
<1>7. ItemTypes'
  BY <1>0, <1>b, <1>c DEF FailTurn, ItemTypes
<1>8. Placed(r)'
  BY <1>0, <1>a, <1>b, <1>c DEF FailTurn, RunTypes, ItemTypes, Placed, Batches
<1>9. Tidy(r)'
  <2>1. timeline'[r] = t
    BY <1>0, <1>c DEF ItemTypes
  <2> QED BY <1>0, <1>a, <1>b, <2>1 DEF Tidy, Shut
<1>10. r \in DOMAIN session.runs => Budget(r)'
  <2> SUFFICES ASSUME r \in DOMAIN session.runs, NEW b \in Batches(r), Longest(r, b)
               PROVE  Within(r, b)'
    BY <1>0, BudgetOf
  <2>1. waiting'[r] = {} /\ at'[r] = "state" /\ idx'[r] = idx[r]
    BY <1>0 DEF FailTurn, RunTypes, Placed
  <2> QED BY <1>0, <1>3, <2>1, BudgetFacts DEF FailTurn, RunTypes, ItemTypes, Within
<1> QED BY <1>0, <1>1, <1>3, <1>4, <1>5, <1>6, <1>7, <1>8, <1>9, <1>10, Assemble

LEMMA RouteKeeps ==
  ASSUME LoopInv, UNCHANGED session, NEW r \in Runs, Route(r)
  PROVE  LoopInv'
<1>0. /\ RunTypes /\ ItemTypes /\ NoteTypes /\ StartedInv /\ SeenInv /\ NoteInv
      /\ Placed(r) /\ Tidy(r)
  BY DEF LoopInv
<1>1. RunTypes' /\ StartedInv'
  BY <1>0 DEF Route, MustFail, Kinds, RunTypes, StartedInv
<1>2. UNCHANGED <<note, asked, heard, taken>> /\ UNCHANGED seen
  BY DEF Route, MustFail, Kinds
<1>3. NoteTypes' /\ NoteInv' /\ PendingFor(r)' = PendingFor(r) /\ Injected' = Injected
  BY <1>0, <1>2 DEF NoteTypes, NoteInv, Injected, PendingFor
<1>4. SeenInv'
  BY <1>0, <1>2 DEF Route, MustFail, Kinds, SeenInv, RunTypes
<1>5. Elsewhere(r)
  BY <1>0, <1>2 DEF Route, MustFail, Kinds, Elsewhere, RunTypes, ItemTypes
<1>6. NotesGo(r)
  BY <1>2 DEF NotesGo, PendingFor, Injected
<1>7. ItemTypes'
  BY <1>0 DEF Route, MustFail, Kinds, ItemTypes
<1>8. Placed(r)'
  BY <1>0 DEF Route, MustFail, Kinds, RunTypes, ItemTypes, Placed, Batches
<1>9. Tidy(r)'
  BY <1>0 DEF Route, MustFail, Kinds, RunTypes, ItemTypes, Tidy, Shut
<1>10. r \in DOMAIN session.runs => Budget(r)'
  <2> SUFFICES ASSUME r \in DOMAIN session.runs, NEW b \in Batches(r), Longest(r, b)
               PROVE  Within(r, b)'
    BY <1>0, BudgetOf
  <2>1. idx'[r] = idx[r] /\ r \in Runs /\ at[r] = "route" /\ waiting[r] = {}
    BY <1>0, BudgetFacts DEF Route, Placed
  <2>2. waiting'[r] = {} /\ PendingFor(r)' = PendingFor(r)
    BY <1>3, <2>1 DEF Route
  <2>3. \/ at'[r] = "llm" /\ PendingFor(r) # {}
        \/ at'[r] = "state"
        \/ at'[r] \in {"tools", "suspend"} /\ idx[r] < MaxSteps(r)
    <3>1. at' = [at EXCEPT ![r] = at'[r]]
      BY <1>0 DEF Route, RunTypes
    <3>2. CASE batch[r] = <<>>
      BY <1>0, <3>2 DEF Route, RunTypes
    <3>3. CASE batch[r] # <<>> /\ MustFail(r)
      BY <1>0, <3>3 DEF Route, RunTypes
    <3>4. CASE batch[r] # <<>> /\ ~MustFail(r)
      <4>1. at'[r] \in {"tools", "suspend"}
        BY <1>0, <3>4 DEF Route, RunTypes
      <4>2. idx[r] < MaxSteps(r)
        BY <3>4, BudgetFacts DEF MustFail
      <4> QED BY <4>1, <4>2
    <3> QED BY <3>2, <3>3, <3>4
  <2> QED BY <1>3, <2>1, <2>2, <2>3, BudgetFacts DEF Within
<1> QED BY <1>0, <1>1, <1>3, <1>4, <1>5, <1>6, <1>7, <1>8, <1>9, <1>10, Assemble

\* The step of an item was written: the node goes on to the next one, or its task dies.
LEMMA ItemKeeps ==
  ASSUME LoopInv, UNCHANGED session, NEW r \in Runs, at[r] \in {"tools", "suspend"},
         HasItem(r), NEW u \in Seq(StepRow), timeline' = [timeline EXCEPT ![r] = u],
         Len(timeline[r]) <= Len(u), ItemIndex(r) < Len(u), \A k \in 1 .. Len(u) : Shut(u, k),
         UNCHANGED <<status, idx, batch, rejected, error, turns, noteVars>>,
         \/ UNCHANGED at /\ pos' = [pos EXCEPT ![r] = @ + 1]
         \/ at' = [at EXCEPT ![r] = "dead"] /\ UNCHANGED pos,
         \/ UNCHANGED waiting
         \/ at[r] = "suspend" /\ waiting' = [waiting EXCEPT ![r] = @ \cup {pos[r]}]
  PROVE  LoopInv'
<1>0. /\ RunTypes /\ ItemTypes /\ NoteTypes /\ StartedInv /\ SeenInv /\ NoteInv
      /\ Placed(r) /\ Tidy(r)
  BY DEF LoopInv
<1>1. RunTypes' /\ StartedInv'
  BY <1>0 DEF ItemIndex, HasItem, RunTypes, StartedInv
<1>2. UNCHANGED <<note, asked, heard, taken>> /\ UNCHANGED seen
  BY DEF ItemIndex, HasItem
<1>3. NoteTypes' /\ NoteInv' /\ PendingFor(r)' = PendingFor(r) /\ Injected' = Injected
  BY <1>0, <1>2 DEF NoteTypes, NoteInv, Injected, PendingFor
<1>4. SeenInv'
  BY <1>0, <1>2 DEF ItemIndex, HasItem, SeenInv, RunTypes
<1>5. Elsewhere(r)
  BY <1>0, <1>2 DEF ItemIndex, HasItem, Elsewhere, RunTypes, ItemTypes
<1>6. NotesGo(r)
  BY <1>2 DEF NotesGo, PendingFor, Injected
<1>7. ItemTypes'
  <2>1. pos' \in [Runs -> Nat \ {0}]
    <3>1. pos \in [Runs -> Nat \ {0}] /\ pos[r] + 1 \in Nat \ {0}
      BY <1>0 DEF ItemTypes
    <3>2. pos' = pos \/ pos' = [pos EXCEPT ![r] = pos[r] + 1]
      OBVIOUS
    <3> QED BY <3>1, <3>2
  <2>2. waiting' \in [Runs -> SUBSET Nat]
    <3>1. waiting \in [Runs -> SUBSET Nat] /\ waiting[r] \cup {pos[r]} \in SUBSET Nat
      BY <1>0 DEF ItemTypes
    <3>2. waiting' = waiting \/ waiting' = [waiting EXCEPT ![r] = waiting[r] \cup {pos[r]}]
      OBVIOUS
    <3> QED BY <3>1, <3>2
  <2> QED BY <1>0, <2>1, <2>2 DEF ItemTypes
<1>8. Placed(r)'
  <2>1. /\ idx[r] \in Nat /\ pos[r] \in Nat \ {0} /\ batch[r] \in Seq(ItemKind)
        /\ Len(batch[r]) \in Nat /\ Len(timeline[r]) \in Nat /\ Len(u) \in Nat
    BY <1>0 DEF ItemTypes
  <2>2. /\ timeline'[r] = u /\ idx'[r] = idx[r] /\ batch'[r] = batch[r]
        /\ Batches(r)' = Batches(r)
    BY <1>0 DEF ItemTypes, Batches
  <2>3. /\ pos[r] <= Len(batch[r]) /\ idx[r] + pos[r] - 1 < Len(u)
        /\ idx[r] <= Len(timeline[r])
    BY <1>0 DEF HasItem, ItemIndex, Placed
  <2>4. \/ at'[r] = at[r] /\ pos'[r] = pos[r] + 1
        \/ at'[r] = "dead" /\ pos'[r] = pos[r]
    BY <1>0 DEF RunTypes, ItemTypes
  <2>5. waiting'[r] \subseteq waiting[r] \cup {pos[r]}
    BY <1>0 DEF ItemTypes
  <2>6. waiting'[r] # {} => at[r] = "suspend"
    BY <1>0 DEF ItemTypes, Placed
  <2>7. waiting'[r] \subseteq 1 .. Len(batch[r])
    BY <1>0, <2>1, <2>3, <2>5 DEF Placed
  <2>8. batch[r] # <<>> => batch[r] \in Batches(r)
    BY <1>0 DEF Placed
  <2> QED BY <2>1, <2>2, <2>3, <2>4, <2>6, <2>7, <2>8 DEF Placed
<1>9. Tidy(r)'
  <2>1. timeline'[r] = u
    BY <1>0 DEF ItemTypes
  <2> QED BY <2>1 DEF Tidy, Shut
<1>10. r \in DOMAIN session.runs => Budget(r)'
  <2> SUFFICES ASSUME r \in DOMAIN session.runs, NEW b \in Batches(r), Longest(r, b)
               PROVE  Within(r, b)'
    BY <1>0, BudgetOf
  <2> QED BY <1>0, <1>3, BudgetFacts DEF ItemIndex, HasItem, RunTypes, ItemTypes, Within
<1> QED BY <1>0, <1>1, <1>3, <1>4, <1>5, <1>6, <1>7, <1>8, <1>9, <1>10, Assemble

LEMMA RunItemKeeps ==
  ASSUME LoopInv, UNCHANGED session, NEW r \in Runs, RunItem(r)
  PROVE  LoopInv'
<1>0. ItemTypes /\ Placed(r) /\ Tidy(r)
  BY DEF LoopInv
<1> DEFINE i == ItemIndex(r)
           n == Step("tool", "pending", FALSE)
           s == CreateStep(timeline[r], i, n)
           t == StartAt(s, i)
<1>z. at[r] \in {"tools", "suspend"} /\ HasItem(r)
  BY DEF RunItem
<1>a. /\ timeline[r] \in Seq(StepRow) /\ Len(timeline[r]) \in Nat
      /\ i \in Nat /\ i <= Len(timeline[r])
  BY <1>0, <1>z DEF RunItem, ItemTypes, Placed, ItemIndex, HasItem
<1>b. n \in StepRow /\ n = [kind |-> "tool", status |-> "pending", call |-> FALSE]
  BY DEF Step, StepRow
<1> HIDE DEF i, n
<1>x. /\ s \in Seq(StepRow) /\ i < Len(s)
      /\ \/ i < Len(timeline[r]) /\ s = timeline[r]
         \/ /\ i = Len(timeline[r]) /\ Len(s) = Len(timeline[r]) + 1 /\ s[i + 1] = n
            /\ \A k \in 1 .. Len(timeline[r]) : s[k] = timeline[r][k]
  BY <1>a, <1>b DEF CreateStep
<1> HIDE DEF s
<1>c. s \in Seq(StepRow) /\ i < Len(s) /\ Len(timeline[r]) <= Len(s) /\ Len(s) \in Nat
  BY <1>a, <1>x
<1>d. \A k \in 1 .. Len(s) : k # i + 1 =>
        k \in 1 .. Len(timeline[r]) /\ s[k] = timeline[r][k]
  BY <1>a, <1>x
<1>e. /\ t \in Seq(StepRow) /\ Len(t) = Len(s)
      /\ \A k \in 1 .. Len(s) : k # i + 1 => t[k] = s[k]
  BY <1>a, <1>c, StartKeeps
<1>g. \A k \in 1 .. Len(t) : k # i + 1 => Shut(t, k)
  <2>1. \A k \in 1 .. Len(timeline[r]) : Shut(timeline[r], k)
    BY <1>0, <1>z DEF Tidy
  <2> QED BY <1>d, <1>e, <2>1 DEF Shut
<1> HIDE DEF t
<1>1. \E u \in Seq(StepRow) :
        /\ timeline' = [timeline EXCEPT ![r] = u] /\ Len(u) = Len(s)
        /\ \A k \in 1 .. Len(u) : Shut(u, k)
        /\ \/ UNCHANGED at /\ pos' = [pos EXCEPT ![r] = @ + 1]
           \/ at' = [at EXCEPT ![r] = "dead"] /\ UNCHANGED pos
  <2>1. CASE /\ timeline' = [timeline EXCEPT ![r] = CompleteAt(t, i, "cancelled")]
             /\ NextItem(r)
    <3> DEFINE u == CompleteAt(t, i, "cancelled")
    <3>1. "cancelled" \in StepTerminal
      OBVIOUS
    <3>2. /\ u \in Seq(StepRow) /\ Len(u) = Len(t) /\ Shut(u, i + 1)
          /\ \A k \in 1 .. Len(t) : k # i + 1 => u[k] = t[k]
      BY <1>a, <1>c, <1>e, <3>1, CompleteKeeps
    <3> HIDE DEF u
    <3>3. \A k \in 1 .. Len(u) : Shut(u, k)
      BY <1>g, <3>2 DEF Shut
    <3>4. timeline' = [timeline EXCEPT ![r] = u]
      BY <2>1 DEF u
    <3> QED BY <1>e, <2>1, <3>2, <3>3, <3>4 DEF NextItem
  <2>2. CASE /\ timeline' = [timeline EXCEPT ![r] =
                  CompleteAt([t EXCEPT ![i + 1].call = TRUE], i, "completed")]
             /\ NextItem(r)
    <3> DEFINE v == [t EXCEPT ![i + 1].call = TRUE]
               u == CompleteAt(v, i, "completed")
    <3>1. "completed" \in StepTerminal
      OBVIOUS
    <3>2. /\ v \in Seq(StepRow) /\ Len(v) = Len(t)
          /\ \A k \in 1 .. Len(t) : v[k].kind = t[k].kind /\ v[k].status = t[k].status
      BY <1>a, <1>c, <1>e, CallKeeps
    <3> HIDE DEF v
    <3>3. /\ u \in Seq(StepRow) /\ Len(u) = Len(v) /\ Shut(u, i + 1)
          /\ \A k \in 1 .. Len(v) : k # i + 1 => u[k] = v[k]
      BY <1>a, <1>c, <1>e, <3>1, <3>2, CompleteKeeps
    <3> HIDE DEF u
    <3>4. \A k \in 1 .. Len(u) : Shut(u, k)
      BY <1>g, <3>2, <3>3 DEF Shut
    <3>5. timeline' = [timeline EXCEPT ![r] = u]
      BY <2>2 DEF u, v
    <3> QED BY <1>e, <2>2, <3>2, <3>3, <3>4, <3>5 DEF NextItem
  <2>3. CASE OwnsCall(t, i) /\ timeline' = [timeline EXCEPT ![r] = t] /\ Die(r)
    <3>1. i + 1 \in 1 .. Len(s) /\ i + 1 \in 1 .. Len(t)
      BY <1>a, <1>c, <1>e
    <3>2. s[i + 1].call
      <4>1. t[i + 1].call = s[i + 1].call
        BY <1>a, <1>c, <3>1, StartKeeps DEF t
      <4> QED BY <2>3, <4>1 DEF OwnsCall
    <3>3. s = timeline[r]
      BY <1>b, <1>x, <3>2
    <3>4. Shut(s, i + 1)
      BY <1>0, <1>z, <3>1, <3>3 DEF Tidy
    <3>5. Shut(t, i + 1)
      BY <1>a, <1>c, <3>1, <3>4, StartKeeps DEF t
    <3>6. \A k \in 1 .. Len(t) : Shut(t, k)
      BY <1>g, <3>5
    <3> QED BY <1>e, <2>3, <3>6 DEF Die
  <2> QED BY <2>1, <2>2, <2>3 DEF RunItem, t, s, i, n
<1>2. PICK u \in Seq(StepRow) :
        /\ timeline' = [timeline EXCEPT ![r] = u] /\ Len(u) = Len(s)
        /\ \A k \in 1 .. Len(u) : Shut(u, k)
        /\ \/ UNCHANGED at /\ pos' = [pos EXCEPT ![r] = @ + 1]
           \/ at' = [at EXCEPT ![r] = "dead"] /\ UNCHANGED pos
  BY <1>1
<1>3. UNCHANGED <<status, idx, batch, rejected, error, turns, noteVars>> /\ UNCHANGED waiting
  BY DEF RunItem, NextItem, Die
<1>4. Len(timeline[r]) <= Len(u) /\ ItemIndex(r) < Len(u)
  BY <1>2, <1>c DEF i
<1> QED BY <1>z, <1>2, <1>3, <1>4, ItemKeeps

LEMMA RefuseItemKeeps ==
  ASSUME LoopInv, UNCHANGED session, NEW r \in Runs, RefuseItem(r)
  PROVE  LoopInv'
<1>0. ItemTypes /\ Placed(r) /\ Tidy(r)
  BY DEF LoopInv
<1> DEFINE i == ItemIndex(r)
           n == Step("tool", "pending", FALSE)
           s == CreateStep(timeline[r], i, n)
           t == StartAt(s, i)
<1>z. at[r] \in {"tools", "suspend"} /\ HasItem(r)
  BY DEF RefuseItem
<1>a. /\ timeline[r] \in Seq(StepRow) /\ Len(timeline[r]) \in Nat
      /\ i \in Nat /\ i <= Len(timeline[r])
  BY <1>0, <1>z DEF RefuseItem, ItemTypes, Placed, ItemIndex, HasItem
<1>b. n \in StepRow /\ n = [kind |-> "tool", status |-> "pending", call |-> FALSE]
  BY DEF Step, StepRow
<1> HIDE DEF i, n
<1>x. /\ s \in Seq(StepRow) /\ i < Len(s)
      /\ \/ i < Len(timeline[r]) /\ s = timeline[r]
         \/ /\ i = Len(timeline[r]) /\ Len(s) = Len(timeline[r]) + 1 /\ s[i + 1] = n
            /\ \A k \in 1 .. Len(timeline[r]) : s[k] = timeline[r][k]
  BY <1>a, <1>b DEF CreateStep
<1> HIDE DEF s
<1>c. s \in Seq(StepRow) /\ i < Len(s) /\ Len(timeline[r]) <= Len(s) /\ Len(s) \in Nat
  BY <1>a, <1>x
<1>d. \A k \in 1 .. Len(s) : k # i + 1 =>
        k \in 1 .. Len(timeline[r]) /\ s[k] = timeline[r][k]
  BY <1>a, <1>x
<1>e. /\ t \in Seq(StepRow) /\ Len(t) = Len(s)
      /\ \A k \in 1 .. Len(s) : k # i + 1 => t[k] = s[k]
  BY <1>a, <1>c, StartKeeps
<1>g. \A k \in 1 .. Len(t) : k # i + 1 => Shut(t, k)
  <2>1. \A k \in 1 .. Len(timeline[r]) : Shut(timeline[r], k)
    BY <1>0, <1>z DEF Tidy
  <2> QED BY <1>d, <1>e, <2>1 DEF Shut
<1> HIDE DEF t
<1> DEFINE u == CompleteAt(t, i, "failed")
<1>1. /\ u \in Seq(StepRow) /\ Len(u) = Len(t) /\ Shut(u, i + 1)
      /\ \A k \in 1 .. Len(t) : k # i + 1 => u[k] = t[k]
  <2>1. "failed" \in StepTerminal
    OBVIOUS
  <2> QED BY <1>a, <1>c, <1>e, <2>1, CompleteKeeps
<1>2. timeline' = [timeline EXCEPT ![r] = u]
  BY DEF RefuseItem, t, s, i, n
<1> HIDE DEF u
<1>3. \A k \in 1 .. Len(u) : Shut(u, k)
  BY <1>g, <1>1 DEF Shut
<1>4. UNCHANGED <<status, idx, batch, rejected, error, turns, noteVars>> /\ UNCHANGED waiting
  BY DEF RefuseItem, NextItem
<1>5. UNCHANGED at /\ pos' = [pos EXCEPT ![r] = @ + 1]
  BY DEF RefuseItem, NextItem
<1>6. Len(timeline[r]) <= Len(u) /\ ItemIndex(r) < Len(u)
  BY <1>1, <1>c, <1>e DEF i
<1> QED BY <1>z, <1>1, <1>2, <1>3, <1>4, <1>5, <1>6, ItemKeeps

LEMMA AskForItemKeeps ==
  ASSUME LoopInv, UNCHANGED session, NEW r \in Runs, AskForItem(r)
  PROVE  LoopInv'
<1>0. ItemTypes /\ Placed(r) /\ Tidy(r)
  BY DEF LoopInv
<1> DEFINE i == ItemIndex(r)
           n == Step("approval", "waiting_approval", FALSE)
           s == CreateStep(timeline[r], i, n)
<1>z. at[r] \in {"tools", "suspend"} /\ HasItem(r)
  BY DEF AskForItem
<1>a. /\ timeline[r] \in Seq(StepRow) /\ Len(timeline[r]) \in Nat
      /\ i \in Nat /\ i <= Len(timeline[r])
  BY <1>0, <1>z DEF AskForItem, ItemTypes, Placed, ItemIndex, HasItem
<1>b. n \in StepRow /\ n = [kind |-> "approval", status |-> "waiting_approval", call |-> FALSE]
  BY DEF Step, StepRow
<1> HIDE DEF i, n
<1>x. /\ s \in Seq(StepRow) /\ i < Len(s)
      /\ \/ i < Len(timeline[r]) /\ s = timeline[r]
         \/ /\ i = Len(timeline[r]) /\ Len(s) = Len(timeline[r]) + 1 /\ s[i + 1] = n
            /\ \A k \in 1 .. Len(timeline[r]) : s[k] = timeline[r][k]
  BY <1>a, <1>b DEF CreateStep
<1> HIDE DEF s
<1>c. s \in Seq(StepRow) /\ i < Len(s) /\ Len(timeline[r]) <= Len(s) /\ Len(s) \in Nat
  BY <1>a, <1>x
<1>d. \A k \in 1 .. Len(s) : k # i + 1 =>
        k \in 1 .. Len(timeline[r]) /\ s[k] = timeline[r][k]
  BY <1>a, <1>x
<1>g. \A k \in 1 .. Len(s) : Shut(s, k)
  <2>1. \A k \in 1 .. Len(timeline[r]) : Shut(timeline[r], k)
    BY <1>0, <1>z DEF Tidy
  <2>2. s = timeline[r] \/ Shut(s, i + 1)
    BY <1>b, <1>x DEF Shut
  <2>3. \A k \in 1 .. Len(s) : k # i + 1 => Shut(s, k)
    BY <1>d, <2>1 DEF Shut
  <2> QED BY <2>1, <2>2, <2>3
<1>1. CASE OwnsCall(s, i)
  <2>1. Die(r) /\ UNCHANGED timeline
    BY <1>1 DEF AskForItem, s, i, n
  <2>2. s = timeline[r]
    BY <1>1, <1>b, <1>x DEF OwnsCall
  <2>3. timeline' = [timeline EXCEPT ![r] = s]
    BY <1>0, <2>1, <2>2 DEF ItemTypes
  <2>4. /\ UNCHANGED <<status, idx, batch, rejected, error, turns, noteVars>>
        /\ UNCHANGED waiting /\ UNCHANGED pos /\ at' = [at EXCEPT ![r] = "dead"]
    BY <2>1 DEF Die
  <2>5. Len(timeline[r]) <= Len(s) /\ ItemIndex(r) < Len(s)
    BY <1>c DEF i
  <2> QED BY <1>z, <1>c, <1>g, <2>3, <2>4, <2>5, ItemKeeps
<1>2. CASE ~OwnsCall(s, i)
  <2> DEFINE u == [s EXCEPT ![i + 1].call = TRUE]
  <2>1. /\ timeline' = [timeline EXCEPT ![r] = u] /\ NextItem(r)
        /\ waiting' = [waiting EXCEPT ![r] = @ \cup {pos[r]}] /\ at[r] = "suspend"
    BY <1>2 DEF AskForItem, s, i, n
  <2>2. /\ u \in Seq(StepRow) /\ Len(u) = Len(s)
        /\ \A k \in 1 .. Len(s) : u[k].kind = s[k].kind /\ u[k].status = s[k].status
    BY <1>a, <1>c, CallKeeps
  <2> HIDE DEF u
  <2>3. \A k \in 1 .. Len(u) : Shut(u, k)
    BY <1>g, <2>2 DEF Shut
  <2>4. /\ UNCHANGED <<status, idx, batch, rejected, error, turns, noteVars>>
        /\ UNCHANGED at /\ pos' = [pos EXCEPT ![r] = @ + 1]
    BY <2>1 DEF NextItem
  <2>5. Len(timeline[r]) <= Len(u) /\ ItemIndex(r) < Len(u)
    BY <1>c, <2>2 DEF i
  <2> QED BY <1>z, <2>1, <2>2, <2>3, <2>4, <2>5, ItemKeeps
<1> QED BY <1>1, <1>2

LEMMA EndItemsKeeps ==
  ASSUME LoopInv, UNCHANGED session, NEW r \in Runs, EndItems(r)
  PROVE  LoopInv'
<1>0. /\ RunTypes /\ ItemTypes /\ NoteTypes /\ StartedInv /\ SeenInv /\ NoteInv
      /\ Placed(r) /\ Tidy(r)
  BY DEF LoopInv
<1>a. /\ idx[r] \in Nat /\ pos[r] \in Nat \ {0} /\ Len(batch[r]) \in Nat
      /\ Len(timeline[r]) \in Nat /\ batch[r] \in Seq(ItemKind)
  BY <1>0 DEF ItemTypes
<1>b. at[r] \in {"tools", "suspend"} /\ idx[r] + Len(batch[r]) <= Len(timeline[r])
  <2>1. /\ at[r] \in {"tools", "suspend"} /\ pos[r] > Len(batch[r])
        /\ pos[r] <= Len(batch[r]) + 1 /\ idx[r] + pos[r] - 1 <= Len(timeline[r])
    BY <1>0, <1>a DEF EndItems, HasItem, Placed
  <2> QED BY <1>a, <2>1
<1>c. \/ /\ at[r] = "tools" /\ at'[r] = "llm" /\ waiting[r] = {}
         /\ idx'[r] = idx[r] + Len(batch[r])
      \/ at[r] = "suspend" /\ at'[r] = "state" /\ idx'[r] = idx[r]
  BY <1>0, <1>b DEF EndItems, RunTypes, ItemTypes, Placed
<1>d. /\ timeline'[r] = timeline[r] /\ batch'[r] = batch[r] /\ pos'[r] = pos[r]
      /\ waiting'[r] = waiting[r] /\ Batches(r)' = Batches(r)
  BY DEF EndItems, Batches
<1>1. RunTypes' /\ StartedInv'
  BY <1>0, <1>a, <1>b, <1>c, <1>d DEF EndItems, RunTypes, StartedInv
<1>2. UNCHANGED <<note, asked, heard, taken>> /\ UNCHANGED seen
  BY DEF EndItems
<1>3. NoteTypes' /\ NoteInv' /\ PendingFor(r)' = PendingFor(r) /\ Injected' = Injected
  BY <1>0, <1>2 DEF NoteTypes, NoteInv, Injected, PendingFor
<1>4. SeenInv'
  BY <1>0, <1>2, <1>a, <1>b, <1>c, <1>d DEF EndItems, SeenInv, RunTypes
<1>5. Elsewhere(r)
  BY <1>0, <1>2, <1>a, <1>b, <1>c, <1>d DEF EndItems, Elsewhere, RunTypes, ItemTypes
<1>6. NotesGo(r)
  BY <1>2 DEF NotesGo, PendingFor, Injected
<1>7. ItemTypes'
  <2>1. idx' \in [Runs -> Nat]
    <3>1. idx \in [Runs -> Nat] /\ idx[r] + Len(batch[r]) \in Nat
      BY <1>0, <1>a DEF ItemTypes
    <3>2. idx' = idx \/ idx' = [idx EXCEPT ![r] = idx[r] + Len(batch[r])]
      BY DEF EndItems
    <3> QED BY <3>1, <3>2
  <2> QED BY <1>0, <2>1 DEF EndItems, ItemTypes
<1>8. Placed(r)'
  BY <1>0, <1>a, <1>b, <1>c, <1>d DEF Placed
<1>9. Tidy(r)'
  BY <1>0, <1>b, <1>c, <1>d DEF Tidy, Shut
<1>10. r \in DOMAIN session.runs => Budget(r)'
  <2> SUFFICES ASSUME r \in DOMAIN session.runs, NEW b \in Batches(r), Longest(r, b)
               PROVE  Within(r, b)'
    BY <1>0, BudgetOf
  <2>1. Within(r, b) /\ idx[r] < MaxSteps(r)
    BY <1>b, BudgetFacts DEF Within
  <2> QED BY <1>3, <1>a, <1>c, <1>d, <2>1, BudgetFacts DEF Within
<1> QED BY <1>0, <1>1, <1>3, <1>4, <1>5, <1>6, <1>7, <1>8, <1>9, <1>10, Assemble

LEMMA FailRunKeeps ==
  ASSUME LoopInv, UNCHANGED session, NEW r \in Runs, FailRun(r)
  PROVE  LoopInv'
<1>0. /\ RunTypes /\ ItemTypes /\ NoteTypes /\ StartedInv /\ SeenInv /\ NoteInv
      /\ Placed(r) /\ Tidy(r)
  BY DEF LoopInv
<1>a. at[r] = "state" /\ at'[r] = "done"
  BY <1>0 DEF FailRun, RunTypes
<1>b. \A m \in Msgs :
        \/ note'[m] = note[m]
        \/ m \in PendingFor(r) /\ note'[m] = [note[m] EXCEPT !.status = "undelivered"]
  BY <1>0 DEF FailRun, NoteTypes
<1>c. PICK u \in Seq(StepRow) :
        /\ timeline' = [timeline EXCEPT ![r] = u] /\ Len(timeline[r]) <= Len(u)
        /\ \A k \in 1 .. Len(u) : Shut(u, k)
  <2> DEFINE n == Step("error", "failed", FALSE)
             u == AppendStep(timeline[r], n)
  <2>1. timeline[r] \in Seq(StepRow) /\ \A k \in 1 .. Len(timeline[r]) : Shut(timeline[r], k)
    BY <1>0, <1>a DEF ItemTypes, Tidy
  <2>2. n \in StepRow /\ n.status = "failed"
    BY DEF Step, StepRow
  <2> HIDE DEF n
  <2>3. /\ u \in Seq(StepRow) /\ Len(timeline[r]) <= Len(u)
        /\ \A k \in 1 .. Len(u) : Shut(u, k)
    BY <2>1, <2>2 DEF AppendStep, Shut
  <2> HIDE DEF u
  <2>4. \/ timeline' = [timeline EXCEPT ![r] = timeline[r]]
        \/ timeline' = [timeline EXCEPT ![r] = u]
    BY <1>0 DEF FailRun, ItemTypes, u, n
  <2> QED BY <2>1, <2>3, <2>4
<1>1. RunTypes' /\ StartedInv'
  BY <1>0 DEF FailRun, UpdateRunStatus, RunTypes, StartedInv
<1>2. UNCHANGED <<asked, seen, heard, taken>> /\ DOMAIN note' = Msgs
  BY <1>0 DEF FailRun, NoteTypes
<1>d. \A m \in Msgs : m \notin PendingFor(r) => note'[m] = note[m]
  BY <1>b
<1>e. \A m \in PendingFor(r) :
        /\ note'[m].status \in {"pending", "undelivered"} /\ note'[m].run = r
        /\ note[m].status = "pending"
  BY <1>0, <1>b DEF NoteTypes, PendingFor
<1>3. NoteTypes' /\ NoteInv' /\ Injected' = Injected
  <2>1. Injected' = Injected
    BY <1>d, <1>e DEF Injected, PendingFor
  <2>2. \A m \in Msgs : note'[m] \in [status : NoteStatus, run : Runs \cup {NoMsgRun}]
    <3>1. \A x \in [status : NoteStatus, run : Runs \cup {NoMsgRun}] :
            [x EXCEPT !.status = "undelivered"] \in [status : NoteStatus,
                                                    run : Runs \cup {NoMsgRun}]
      BY DEF NoteStatus
    <3>2. \A m \in Msgs : note[m] \in [status : NoteStatus, run : Runs \cup {NoMsgRun}]
      BY <1>0 DEF NoteTypes
    <3> QED BY <1>b, <3>1, <3>2
  <2>3. NoteTypes'
    <3>1. note' = [m \in Msgs |-> note'[m]]
      BY <1>0 DEF FailRun, NoteTypes
    <3> QED BY <1>0, <1>2, <2>2, <3>1 DEF NoteTypes
  <2>4. \A m \in Msgs : note[m].status = "absent" => note'[m].status = "absent"
    BY <1>d DEF PendingFor
  <2>5. \A m \in Msgs : note'[m].status # "absent" => note[m].status # "absent"
    BY <2>4
  <2> QED BY <1>0, <1>2, <2>1, <2>3, <2>5 DEF NoteInv
<1>4. SeenInv'
  <2>1. \A q \in Runs : \A m \in seen[q] : q # r /\ m \in Msgs /\ m \notin PendingFor(r)
    BY <1>0, <1>a DEF SeenInv, NoteTypes, PendingFor
  <2>2. \A q \in Runs \ {r} : at'[q] = at[q]
    BY <1>0 DEF FailRun, RunTypes
  <2> QED BY <1>0, <1>2, <1>d, <2>1, <2>2 DEF SeenInv
<1>5. Elsewhere(r)
  BY <1>0, <1>2, <1>c DEF FailRun, Elsewhere, RunTypes, ItemTypes
<1>6. NotesGo(r)
  BY <1>3, <1>d DEF NotesGo, PendingFor
<1>7. ItemTypes'
  BY <1>0, <1>c DEF FailRun, UpdateRunStatus, ItemTypes
<1>8. Placed(r)'
  <2>1. /\ timeline'[r] = u /\ idx'[r] = idx[r] /\ batch'[r] = batch[r] /\ pos'[r] = pos[r]
        /\ waiting'[r] = waiting[r] /\ Batches(r)' = Batches(r)
    BY <1>0, <1>c DEF FailRun, ItemTypes, Batches
  <2>2. idx[r] \in Nat /\ Len(timeline[r]) \in Nat /\ Len(u) \in Nat
    BY <1>0 DEF ItemTypes
  <2> QED BY <1>0, <1>a, <1>c, <2>1, <2>2 DEF Placed
<1>9. Tidy(r)'
  <2>1. timeline'[r] = u
    BY <1>0, <1>c DEF ItemTypes
  <2> QED BY <1>c, <2>1 DEF Tidy, Shut
<1>10. r \in DOMAIN session.runs => Budget(r)'
  <2> SUFFICES ASSUME r \in DOMAIN session.runs, NEW b \in Batches(r), Longest(r, b)
               PROVE  Within(r, b)'
    BY <1>0, BudgetOf
  <2>1. idx'[r] = idx[r] /\ at'[r] = "done"
    BY <1>a DEF FailRun
  <2> QED BY <1>0, <1>3, <2>1, BudgetFacts DEF FailRun, UpdateRunStatus, RunTypes, ItemTypes, Within
<1> QED BY <1>0, <1>1, <1>3, <1>4, <1>5, <1>6, <1>7, <1>8, <1>9, <1>10, Assemble

LEMMA SuspendRunKeeps ==
  ASSUME LoopInv, UNCHANGED session, NEW r \in Runs, SuspendRun(r)
  PROVE  LoopInv'
<1>0. /\ RunTypes /\ ItemTypes /\ NoteTypes /\ StartedInv /\ SeenInv /\ NoteInv
      /\ Placed(r) /\ Tidy(r)
  BY DEF LoopInv
<1>1. RunTypes' /\ StartedInv'
  BY <1>0 DEF SuspendRun, UpdateRunStatus, RunTypes, StartedInv
<1>2. UNCHANGED <<note, asked, heard, taken>> /\ UNCHANGED seen
  BY DEF SuspendRun, UpdateRunStatus
<1>3. NoteTypes' /\ NoteInv' /\ PendingFor(r)' = PendingFor(r) /\ Injected' = Injected
  BY <1>0, <1>2 DEF NoteTypes, NoteInv, Injected, PendingFor
<1>4. SeenInv'
  BY <1>0, <1>2 DEF SuspendRun, UpdateRunStatus, SeenInv, RunTypes
<1>5. Elsewhere(r)
  BY <1>0, <1>2 DEF SuspendRun, UpdateRunStatus, Elsewhere, RunTypes, ItemTypes
<1>6. NotesGo(r)
  BY <1>2 DEF NotesGo, PendingFor, Injected
<1>7. ItemTypes'
  BY <1>0 DEF SuspendRun, UpdateRunStatus, ItemTypes
<1>8. Placed(r)'
  BY <1>0 DEF SuspendRun, UpdateRunStatus, RunTypes, ItemTypes, Placed, Batches
<1>9. Tidy(r)'
  BY <1>0 DEF SuspendRun, UpdateRunStatus, RunTypes, ItemTypes, Tidy, Shut
<1>10. r \in DOMAIN session.runs => Budget(r)'
  <2> SUFFICES ASSUME r \in DOMAIN session.runs, NEW b \in Batches(r), Longest(r, b)
               PROVE  Within(r, b)'
    BY <1>0, BudgetOf
  <2> QED BY <1>0, <1>3, BudgetFacts DEF SuspendRun, UpdateRunStatus, RunTypes, ItemTypes, Within
<1> QED BY <1>0, <1>1, <1>3, <1>4, <1>5, <1>6, <1>7, <1>8, <1>9, <1>10, Assemble

LEMMA CompleteRunKeeps ==
  ASSUME LoopInv, UNCHANGED session, NEW r \in Runs, CompleteRun(r)
  PROVE  LoopInv'
<1>0. /\ RunTypes /\ ItemTypes /\ NoteTypes /\ StartedInv /\ SeenInv /\ NoteInv
      /\ Placed(r) /\ Tidy(r)
  BY DEF LoopInv
<1>1. RunTypes' /\ StartedInv'
  BY <1>0 DEF CompleteRun, UpdateRunStatus, RunTypes, StartedInv
<1>2. UNCHANGED <<note, asked, heard, taken>> /\ UNCHANGED seen
  BY DEF CompleteRun, UpdateRunStatus
<1>3. NoteTypes' /\ NoteInv' /\ PendingFor(r)' = PendingFor(r) /\ Injected' = Injected
  BY <1>0, <1>2 DEF NoteTypes, NoteInv, Injected, PendingFor
<1>4. SeenInv'
  BY <1>0, <1>2 DEF CompleteRun, UpdateRunStatus, SeenInv, RunTypes
<1>5. Elsewhere(r)
  BY <1>0, <1>2 DEF CompleteRun, UpdateRunStatus, Elsewhere, RunTypes, ItemTypes
<1>6. NotesGo(r)
  BY <1>2 DEF NotesGo, PendingFor, Injected
<1>7. ItemTypes'
  BY <1>0 DEF CompleteRun, UpdateRunStatus, ItemTypes
<1>8. Placed(r)'
  BY <1>0 DEF CompleteRun, UpdateRunStatus, RunTypes, ItemTypes, Placed, Batches
<1>9. Tidy(r)'
  BY <1>0 DEF CompleteRun, UpdateRunStatus, RunTypes, ItemTypes, Tidy, Shut
<1>10. r \in DOMAIN session.runs => Budget(r)'
  <2> SUFFICES ASSUME r \in DOMAIN session.runs, NEW b \in Batches(r), Longest(r, b)
               PROVE  Within(r, b)'
    BY <1>0, BudgetOf
  <2> QED BY <1>0, <1>3, BudgetFacts DEF CompleteRun, UpdateRunStatus, RunTypes, ItemTypes, Within
<1> QED BY <1>0, <1>1, <1>3, <1>4, <1>5, <1>6, <1>7, <1>8, <1>9, <1>10, Assemble

\* What cancel_run and mark_timed_out_runs do, in a session of their own.
LEMMA CloseKeeps ==
  ASSUME LoopInv, UNCHANGED session, NEW r \in Runs,
         NEW st \in {"cancelled", "timed_out"}, CloseRun(r, st)
  PROVE  LoopInv'
<1>0. /\ RunTypes /\ ItemTypes /\ NoteTypes /\ StartedInv /\ SeenInv /\ NoteInv
      /\ Placed(r) /\ Tidy(r)
  BY DEF LoopInv
<1>a. PICK u \in Seq(StepRow) :
        /\ timeline' = [timeline EXCEPT ![r] = u] /\ Len(u) = Len(timeline[r])
        /\ \A k \in 1 .. Len(u) : Shut(u, k)
  <2> DEFINE s == timeline[r]
             u == CloseSteps(s, st)
  <2>1. s \in Seq(StepRow) /\ st \in StepTerminal
    BY <1>0 DEF ItemTypes
  <2>2. timeline' = [timeline EXCEPT ![r] = u]
    BY DEF CloseRun
  <2> HIDE DEF s
  <2>3. u \in Seq(StepRow) /\ Len(u) = Len(s) /\ \A k \in 1 .. Len(s) : Shut(u, k)
    BY <2>1, CloseAllKeeps
  <2> HIDE DEF u
  <2> QED BY <2>2, <2>3 DEF s
<1>b. at'[r] = IF at[r] = "waiting" THEN "done" ELSE at[r]
  BY <1>0 DEF CloseRun, RunTypes
<1>1. RunTypes' /\ StartedInv'
  BY <1>0, <1>b DEF CloseRun, RunTypes, StartedInv
<1>2. UNCHANGED <<note, asked, heard, taken>> /\ UNCHANGED seen
  BY DEF CloseRun
<1>3. NoteTypes' /\ NoteInv' /\ PendingFor(r)' = PendingFor(r) /\ Injected' = Injected
  BY <1>0, <1>2 DEF NoteTypes, NoteInv, Injected, PendingFor
<1>4. SeenInv'
  BY <1>0, <1>2, <1>b DEF CloseRun, SeenInv, RunTypes
<1>5. Elsewhere(r)
  BY <1>0, <1>2, <1>b, <1>a DEF CloseRun, Elsewhere, RunTypes, ItemTypes
<1>6. NotesGo(r)
  BY <1>2 DEF NotesGo, PendingFor, Injected
<1>7. ItemTypes'
  BY <1>0, <1>b, <1>a DEF CloseRun, ItemTypes
<1>8. Placed(r)'
  <2>1. /\ timeline'[r] = u /\ idx'[r] = idx[r] /\ batch'[r] = batch[r] /\ pos'[r] = pos[r]
        /\ waiting'[r] = {} /\ Batches(r)' = Batches(r)
    BY <1>0, <1>a DEF CloseRun, ItemTypes, Batches
  <2> QED BY <1>0, <1>a, <1>b, <2>1 DEF Placed
<1>9. Tidy(r)'
  <2>1. timeline'[r] = u
    BY <1>0, <1>a DEF ItemTypes
  <2> QED BY <1>a, <2>1 DEF Tidy, Shut
<1>10. r \in DOMAIN session.runs => Budget(r)'
  <2> SUFFICES ASSUME r \in DOMAIN session.runs, NEW b \in Batches(r), Longest(r, b)
               PROVE  Within(r, b)'
    BY <1>0, BudgetOf
  <2> QED BY <1>0, <1>3, <1>b, BudgetFacts DEF CloseRun, RunTypes, ItemTypes, Within
<1> QED BY <1>0, <1>1, <1>3, <1>4, <1>5, <1>6, <1>7, <1>8, <1>9, <1>10, Assemble

\* An answer to a request closes its step and may add one; the last answer resumes.
LEMMA AnswerKeeps ==
  ASSUME LoopInv, UNCHANGED session, NEW r \in Runs, NEW i \in waiting[r], NEW u \in Seq(StepRow),
         Len(timeline[r]) <= Len(u), \A k \in 1 .. Len(u) : Shut(u, k),
         NEW refused \in BOOLEAN, Answer(r, i, u, refused)
  PROVE  LoopInv'
<1>0. /\ RunTypes /\ ItemTypes /\ NoteTypes /\ StartedInv /\ SeenInv /\ NoteInv
      /\ Placed(r) /\ Tidy(r)
  BY DEF LoopInv
<1>a. /\ idx[r] \in Nat /\ pos[r] \in Nat \ {0} /\ Len(batch[r]) \in Nat
      /\ Len(timeline[r]) \in Nat /\ batch[r] \in Seq(ItemKind) /\ Len(u) \in Nat
  BY <1>0 DEF ItemTypes
<1>b. at[r] = "waiting" /\ timeline' = [timeline EXCEPT ![r] = u]
  BY DEF Answer
<1>c. \/ /\ at'[r] = "llm" /\ waiting'[r] = {} /\ idx'[r] = idx[r] + Len(batch[r])
      \/ at'[r] = "waiting" /\ waiting'[r] \subseteq waiting[r] /\ idx'[r] = idx[r]
  BY <1>0, <1>b DEF Answer, ResumeGraph, RunTypes, ItemTypes
<1>d. /\ timeline'[r] = u /\ batch'[r] = batch[r] /\ pos'[r] = pos[r]
      /\ Batches(r)' = Batches(r)
  BY <1>0, <1>b DEF Answer, ItemTypes, Batches
<1>1. RunTypes' /\ StartedInv'
  <2>1. /\ status' \in [Runs -> RunStatus \cup {"absent"}] /\ at' \in [Runs -> At]
        /\ UNCHANGED <<error, turns>>
    BY <1>0 DEF Answer, ResumeGraph, UpdateRunStatus, RunTypes
  <2>2. rejected' \in [Runs -> BOOLEAN]
    BY <1>0, Zenon DEF Answer, ResumeGraph, RunTypes
  <2>3. StartedInv'
    <3>1. \A q \in Runs : at'[q] # "idle" => at[q] # "idle"
      BY <1>0, <1>b DEF Answer, ResumeGraph, RunTypes
    <3>2. \A q \in Runs : status'[q] = "absent" => status[q] = "absent"
      BY <1>0 DEF Answer, ResumeGraph, UpdateRunStatus, RunTypes
    <3> QED BY <1>0, <3>1, <3>2 DEF StartedInv
  <2> QED BY <1>0, <2>1, <2>2, <2>3 DEF RunTypes
<1>2. UNCHANGED <<note, asked, heard, taken>> /\ UNCHANGED seen
  BY DEF Answer, ResumeGraph, UpdateRunStatus
<1>3. NoteTypes' /\ NoteInv' /\ PendingFor(r)' = PendingFor(r) /\ Injected' = Injected
  BY <1>0, <1>2 DEF NoteTypes, NoteInv, Injected, PendingFor
<1>4. SeenInv'
  BY <1>0, <1>2, <1>b, <1>c DEF Answer, ResumeGraph, UpdateRunStatus, SeenInv, RunTypes
<1>5. Elsewhere(r)
  BY <1>0, <1>2, <1>b, <1>c DEF Answer, ResumeGraph, UpdateRunStatus, Elsewhere, RunTypes, ItemTypes
<1>6. NotesGo(r)
  BY <1>2 DEF NotesGo, PendingFor, Injected
<1>7. ItemTypes'
  <2>1. idx' \in [Runs -> Nat]
    <3>1. idx \in [Runs -> Nat] /\ idx[r] + Len(batch[r]) \in Nat
      BY <1>0, <1>a DEF ItemTypes
    <3>2. idx' = idx \/ idx' = [idx EXCEPT ![r] = idx[r] + Len(batch[r])]
      BY DEF Answer, ResumeGraph
    <3> QED BY <3>1, <3>2
  <2>2. waiting' \in [Runs -> SUBSET Nat]
    <3>1. waiting \in [Runs -> SUBSET Nat] /\ waiting[r] \ {i} \in SUBSET Nat
      BY <1>0 DEF ItemTypes
    <3>2. waiting' = [waiting EXCEPT ![r] = waiting[r] \ {i}]
      BY DEF Answer
    <3> QED BY <3>1, <3>2
  <2>3. timeline' \in [Runs -> Seq(StepRow)] /\ batch' = batch /\ pos' = pos
    BY <1>0, <1>b DEF Answer, ItemTypes
  <2> QED BY <1>0, <2>1, <2>2, <2>3 DEF ItemTypes
<1>8. Placed(r)'
  BY <1>0, <1>a, <1>b, <1>c, <1>d DEF Placed
<1>9. Tidy(r)'
  BY <1>d DEF Tidy, Shut
<1>10. r \in DOMAIN session.runs => Budget(r)'
  <2> SUFFICES ASSUME r \in DOMAIN session.runs, NEW b \in Batches(r), Longest(r, b)
               PROVE  Within(r, b)'
    BY <1>0, BudgetOf
  <2>1. Within(r, b) /\ idx[r] < MaxSteps(r)
    BY <1>b, BudgetFacts DEF Within
  <2> QED BY <1>3, <1>a, <1>c, <2>1, BudgetFacts DEF Within
<1> QED BY <1>0, <1>1, <1>3, <1>4, <1>5, <1>6, <1>7, <1>8, <1>9, <1>10, Assemble

\* Where the approval step of an item that waits lies.
LEMMA AnswerPlace ==
  ASSUME LoopInv, NEW r \in Runs, NEW i \in waiting[r], at[r] = "waiting"
  PROVE  /\ timeline[r] \in Seq(StepRow)
         /\ idx[r] + i - 1 \in Nat /\ idx[r] + i - 1 < Len(timeline[r])
         /\ \A k \in 1 .. Len(timeline[r]) : Shut(timeline[r], k)
<1>1. Placed(r) /\ Tidy(r) /\ ItemTypes
  BY DEF LoopInv
<1>2. /\ timeline[r] \in Seq(StepRow) /\ idx[r] \in Nat /\ Len(batch[r]) \in Nat
      /\ Len(timeline[r]) \in Nat
  BY <1>1 DEF ItemTypes
<1>3. i \in 1 .. Len(batch[r]) /\ idx[r] + Len(batch[r]) <= Len(timeline[r])
  BY <1>1 DEF Placed
<1> QED BY <1>1, <1>2, <1>3 DEF Tidy

LEMMA RejectKeeps ==
  ASSUME LoopInv, UNCHANGED session, NEW r \in Runs, NEW i \in waiting[r], Reject(r, i)
  PROVE  LoopInv'
<1> DEFINE a == idx[r] + i - 1
           u == CompleteAt(timeline[r], a, "failed")
<1>1. Answer(r, i, u, TRUE)
  BY DEF Reject
<1>2. /\ timeline[r] \in Seq(StepRow) /\ a \in Nat /\ a < Len(timeline[r])
      /\ \A k \in 1 .. Len(timeline[r]) : Shut(timeline[r], k)
  <2>1. at[r] = "waiting"
    BY <1>1 DEF Answer
  <2> QED BY <2>1, AnswerPlace
<1> HIDE DEF a
<1>3. /\ u \in Seq(StepRow) /\ Len(u) = Len(timeline[r]) /\ Shut(u, a + 1)
      /\ \A k \in 1 .. Len(timeline[r]) : k # a + 1 => u[k] = timeline[r][k]
  <2>1. "failed" \in StepTerminal
    OBVIOUS
  <2> QED BY <1>2, <2>1, CompleteKeeps
<1> HIDE DEF u
<1>4. Len(timeline[r]) <= Len(u) /\ \A k \in 1 .. Len(u) : Shut(u, k)
  BY <1>2, <1>3 DEF Shut
<1> QED BY <1>1, <1>3, <1>4, AnswerKeeps

LEMMA ApproveKeeps ==
  ASSUME LoopInv, UNCHANGED session, NEW r \in Runs, NEW i \in waiting[r], Approve(r, i)
  PROVE  LoopInv'
<1> DEFINE a == idx[r] + i - 1
           c == CompleteAt(timeline[r], a, "completed")
           f == [c EXCEPT ![a + 1].call = FALSE]
           n == Step("tool", "completed", TRUE)
           u == AppendStep(f, n)
<1>1. Answer(r, i, u, FALSE)
  BY DEF Approve
<1>2. /\ timeline[r] \in Seq(StepRow) /\ a \in Nat /\ a < Len(timeline[r])
      /\ \A k \in 1 .. Len(timeline[r]) : Shut(timeline[r], k)
  <2>1. at[r] = "waiting"
    BY <1>1 DEF Answer
  <2> QED BY <2>1, AnswerPlace
<1>3. n \in StepRow /\ n.status = "completed"
  BY DEF Step, StepRow
<1> HIDE DEF a, n
<1>4. /\ c \in Seq(StepRow) /\ Len(c) = Len(timeline[r]) /\ Shut(c, a + 1)
      /\ \A k \in 1 .. Len(timeline[r]) : k # a + 1 => c[k] = timeline[r][k]
  <2>1. "completed" \in StepTerminal
    OBVIOUS
  <2> QED BY <1>2, <2>1, CompleteKeeps
<1> HIDE DEF c
<1>5. /\ f \in Seq(StepRow) /\ Len(f) = Len(c)
      /\ \A k \in 1 .. Len(c) : f[k].kind = c[k].kind /\ f[k].status = c[k].status
  BY <1>2, <1>4, CallKeeps
<1> HIDE DEF f
<1>6. \A k \in 1 .. Len(f) : Shut(f, k)
  BY <1>2, <1>4, <1>5 DEF Shut
<1>7. /\ u \in Seq(StepRow) /\ Len(timeline[r]) <= Len(u)
      /\ \A k \in 1 .. Len(u) : Shut(u, k)
  BY <1>2, <1>3, <1>4, <1>5, <1>6 DEF AppendStep, Shut
<1> HIDE DEF u
<1> QED BY <1>1, <1>7, AnswerKeeps

\* An operator who writes disturbs no run, and the messages of a run grow.
LEMMA OperatorsKeep ==
  ASSUME LoopInv, UNCHANGED session, UNCHANGED runVars, UNCHANGED seen,
         RunTypes', ItemTypes', NoteTypes', StartedInv', SeenInv', NoteInv',
         Injected' = Injected, \A q \in Runs : PendingFor(q) \subseteq PendingFor(q)'
  PROVE  LoopInv'
<1>1. \A q \in Runs : Placed(q)' /\ Tidy(q)'
  <2> SUFFICES ASSUME NEW q \in Runs PROVE Placed(q)' /\ Tidy(q)'
    OBVIOUS
  <2>1. Placed(q) /\ Tidy(q)
    BY DEF LoopInv
  <2> QED BY <2>1 DEF Placed, Tidy, Shut, Batches
<1>2. \A q \in DOMAIN session.runs : Budget(q)'
  <2> SUFFICES ASSUME NEW q \in DOMAIN session.runs PROVE Budget(q)'
    BY DEF Batches
  <2> SUFFICES ASSUME NEW b \in Batches(q), Longest(q, b) PROVE Within(q, b)'
    BY BudgetOf DEF LoopInv
  <2>1. Within(q, b) /\ MaxSteps(q)' = MaxSteps(q) /\ PendingFor(q) \subseteq PendingFor(q)'
    BY BudgetFacts
  <2> QED BY <2>1 DEF Within
<1> QED BY <1>1, <1>2 DEF LoopInv

LEMMA NoteTypeKeeps ==
  ASSUME NoteTypes, NEW m \in Msgs,
         \/ UNCHANGED note /\ \E r \in Runs : asked' = [asked EXCEPT ![m] = r]
         \/ /\ UNCHANGED asked
            /\ note' = [note EXCEPT ![m] = [status |-> "pending", run |-> asked[m]]],
         UNCHANGED <<seen, heard, taken>>
  PROVE  NoteTypes'
<1>1. [status |-> "pending", run |-> asked[m]] \in [status : NoteStatus, run : Runs \cup {NoMsgRun}]
  BY DEF NoteTypes
<1> QED BY <1>1 DEF NoteTypes

\* A message that is queued was absent, so no prompt contains it.
LEMMA QueueNoteKeeps ==
  ASSUME LoopInv, UNCHANGED session, NEW m \in Msgs, QueueNote(m)
  PROVE  LoopInv'
<1>0. RunTypes /\ ItemTypes /\ NoteTypes /\ StartedInv /\ SeenInv /\ NoteInv
  BY DEF LoopInv
<1>1. /\ UNCHANGED <<runVars, asked, seen, heard, taken>> /\ note[m].status = "absent"
      /\ asked[m] \in Runs
      /\ note' = [note EXCEPT ![m] = [status |-> "pending", run |-> asked[m]]]
  BY <1>0 DEF QueueNote, NoteTypes
<1>2. RunTypes' /\ ItemTypes' /\ StartedInv'
  BY <1>0, <1>1 DEF RunTypes, ItemTypes, StartedInv
<1>3. NoteTypes'
  BY <1>0, <1>1, NoteTypeKeeps
<1>4. /\ \A x \in Msgs \ {m} : note'[x] = note[x]
      /\ note'[m].status = "pending"
  BY <1>0, <1>1 DEF NoteTypes
<1>5. Injected' = Injected /\ \A q \in Runs : PendingFor(q) \subseteq PendingFor(q)'
  BY <1>1, <1>4 DEF Injected, PendingFor
<1>6. SeenInv'
  <2>1. \A q \in Runs : \A x \in seen[q] : x \in Msgs \ {m}
    BY <1>0, <1>1 DEF SeenInv, NoteTypes
  <2> QED BY <1>0, <1>1, <1>4, <2>1 DEF SeenInv
<1>7. NoteInv'
  <2>1. m \in session.notes
    BY <1>0, <1>1 DEF NoteInv, QueueNote
  <2>2. /\ \A x \in Msgs \ {m} : note'[x].status = note[x].status
        /\ \A x \in Msgs : asked'[x] = asked[x]
    BY <1>1, <1>4
  <2> QED BY <1>0, <1>1, <1>4, <1>5, <2>1, <2>2 DEF NoteInv
<1> QED BY <1>1, <1>2, <1>3, <1>5, <1>6, <1>7, OperatorsKeep

LEMMA AskToQueueKeeps ==
  ASSUME LoopInv, UNCHANGED session, NEW m \in Msgs, NEW r \in Runs, AskToQueue(m, r)
  PROVE  LoopInv'
<1>0. RunTypes /\ ItemTypes /\ NoteTypes /\ StartedInv /\ SeenInv /\ NoteInv
  BY DEF LoopInv
<1>1. /\ UNCHANGED <<runVars, note, seen, heard, taken>> /\ m \in session.notes
      /\ asked' = [asked EXCEPT ![m] = r]
  BY DEF AskToQueue
<1>2. RunTypes' /\ ItemTypes' /\ StartedInv'
  BY <1>0, <1>1 DEF RunTypes, ItemTypes, StartedInv
<1>3. NoteTypes'
  BY <1>0, <1>1, NoteTypeKeeps
<1>4. Injected' = Injected /\ \A q \in Runs : PendingFor(q) \subseteq PendingFor(q)'
  BY <1>1 DEF Injected, PendingFor
<1>5. SeenInv'
  BY <1>0, <1>1 DEF SeenInv
<1>6. NoteInv'
  <2>1. \A x \in Msgs \ {m} : asked'[x] = asked[x]
    BY <1>0, <1>1 DEF NoteTypes
  <2> QED BY <1>0, <1>1, <1>4, <2>1 DEF NoteInv
<1> QED BY <1>1, <1>2, <1>3, <1>4, <1>5, <1>6, OperatorsKeep

LEMMA StutterKeeps ==
  ASSUME LoopInv, UNCHANGED <<loopVars, session>>
  PROVE  LoopInv'
<1>1. RunTypes' /\ ItemTypes' /\ NoteTypes' /\ StartedInv'
  BY DEF LoopInv, loopVars, RunTypes, ItemTypes, NoteTypes, StartedInv
<1>2. SeenInv' /\ NoteInv' /\ Injected' = Injected
  BY DEF LoopInv, loopVars, SeenInv, NoteInv, Injected
<1>3. \A q \in Runs : PendingFor(q) \subseteq PendingFor(q)'
  BY DEF loopVars, PendingFor
<1> QED BY <1>1, <1>2, <1>3, OperatorsKeep DEF loopVars

LEMMA InitInv == LoopInit => LoopInv
<1> SUFFICES ASSUME LoopInit PROVE LoopInv
  OBVIOUS
<1>1. RunTypes /\ ItemTypes /\ NoteTypes
  <2>1. <<>> \in Seq(StepRow) /\ <<>> \in Seq(ItemKind)
    OBVIOUS
  <2>2. ItemTypes
    BY <2>1 DEF LoopInit, ItemTypes
  <2>3. RunTypes /\ NoteTypes
    BY DEF LoopInit, RunTypes, NoteTypes
  <2> QED BY <2>2, <2>3
<1>2. StartedInv /\ SeenInv /\ NoteInv
  BY LoopAssumption DEF LoopInit, StartedInv, SeenInv, NoteInv, Injected
<1>3. ASSUME NEW r \in Runs PROVE Placed(r) /\ Tidy(r)
  BY DEF LoopInit, Placed, Tidy
<1>4. ASSUME NEW r \in DOMAIN session.runs PROVE Budget(r)
  <2>1. r \in Runs /\ MaxSteps(r) \in Nat \ {0} /\ \A b \in Batches(r) : Len(b) \in Nat
    BY <1>1, <1>4, SessionFacts
  <2>2. Cardinality(Injected) \in Nat
    BY CountGrows DEF Injected
  <2>3. idx[r] = 0 /\ at[r] = "idle"
    BY <2>1 DEF LoopInit
  <2> QED BY <2>1, <2>2, <2>3 DEF Budget, Within
<1> QED BY <1>1, <1>2, <1>3, <1>4 DEF LoopInv

LEMMA TaskKeeps ==
  ASSUME LoopInv, UNCHANGED session, NEW r \in Runs, Task(r)
  PROVE  LoopInv'
BY RequeueKeeps, OpenTurnKeeps, ReadNotesKeeps, EndTurnKeeps, FailTurnKeeps, RouteKeeps,
   RunItemKeeps, RefuseItemKeeps, AskForItemKeeps, EndItemsKeeps, FailRunKeeps,
   SuspendRunKeeps, CompleteRunKeeps DEF Task

LEMMA StepKeeps == LoopInv /\ [LoopNext]_<<loopVars, session>> => LoopInv'
<1> SUFFICES ASSUME LoopInv, LoopNext PROVE LoopInv'
  BY StutterKeeps
<1>0. UNCHANGED session
  BY DEF LoopNext
<1>1. ASSUME NEW r \in Runs, StartRun(r) PROVE LoopInv'
  BY <1>0, <1>1, StartRunKeeps
<1>2. ASSUME NEW r \in Runs, Task(r) PROVE LoopInv'
  BY <1>0, <1>2, TaskKeeps
<1>3. ASSUME NEW r \in Runs, Cancel(r) \/ Sweep(r) PROVE LoopInv'
  <2>1. PICK st \in {"cancelled", "timed_out"} : CloseRun(r, st)
    BY <1>3 DEF Cancel, Sweep
  <2> QED BY <1>0, <2>1, CloseKeeps
<1>4. ASSUME NEW r \in Runs, NEW i \in waiting[r], Approve(r, i) \/ Reject(r, i)
      PROVE  LoopInv'
  BY <1>0, <1>4, ApproveKeeps, RejectKeeps
<1>5. ASSUME NEW m \in Msgs, QueueNote(m) PROVE LoopInv'
  BY <1>0, <1>5, QueueNoteKeeps
<1>6. ASSUME NEW m \in Msgs, NEW r \in Runs, AskToQueue(m, r) PROVE LoopInv'
  BY <1>0, <1>6, AskToQueueKeeps
<1> QED BY <1>1, <1>2, <1>3, <1>4, <1>5, <1>6 DEF LoopNext

\* In every reachable state the timelines and the messages of the runs are in order and
\* no run has passed its budget.
THEOREM LoopInvariant == LoopSpec => []LoopInv
BY InitInv, StepKeeps, PTL DEF LoopSpec

\* Every row and every task of the loop stays within its values: no run of a session
\* counts past the end of its timeline.
THEOREM LoopTypesHold == LoopSpec => []LoopTypeOK
<1>1. LoopInv => LoopTypeOK
  <2> SUFFICES ASSUME LoopInv PROVE LoopTypeOK
    OBVIOUS
  <2>1. RunTypes /\ ItemTypes /\ NoteTypes
    BY DEF LoopInv
  <2>2. ASSUME NEW r \in Runs
        PROVE  /\ idx[r] \in 0 .. Len(timeline[r])
               /\ batch[r] # <<>> => batch[r] \in Batches(r)
               /\ pos[r] \in 1 .. Len(batch[r]) + 1
               /\ waiting[r] \subseteq DOMAIN batch[r]
    <3>1. Placed(r)
      BY DEF LoopInv
    <3>2. /\ idx[r] \in Nat /\ pos[r] \in Nat \ {0} /\ batch[r] \in Seq(ItemKind)
          /\ timeline[r] \in Seq(StepRow)
      BY <2>1 DEF ItemTypes
    <3> QED BY <3>1, <3>2 DEF Placed
  <2>3. timeline \in [Runs -> Seq([kind : StepKind, status : StepStatus, call : BOOLEAN])]
    BY <2>1 DEF ItemTypes, StepRow
  <2> QED BY <2>1, <2>2, <2>3 DEF RunTypes, NoteTypes, LoopTypeOK
<1> QED BY <1>1, LoopInvariant, PTL

\* mark_interventions_injected marks no message that no prompt contained, although it
\* asks neither for the status nor for the run of a message.
THEOREM InjectedWereHeard == LoopSpec => []InjectedWasHeard
<1>1. LoopInv => InjectedWasHeard
  BY DEF LoopInv, NoteInv, Injected, InjectedWasHeard
<1> QED BY <1>1, LoopInvariant, PTL

\* A message is consumed by one completed turn at most, of whatever run.
THEOREM ConsumedAtMostOnce == LoopSpec => []ConsumedOnce
<1>1. LoopInv => ConsumedOnce
  BY DEF LoopInv, NoteInv, ConsumedOnce
<1> QED BY <1>1, LoopInvariant, PTL

\* The task of a run closes every model and tool step it opened, whenever the run was
\* closed by another session.
THEOREM NoStepStaysOpen == LoopSpec => []NoStepLeftOpen
<1>1. LoopInv => NoStepLeftOpen
  <2> SUFFICES ASSUME LoopInv, NEW r \in Runs, at[r] = "done", NEW k \in DOMAIN timeline[r],
                      timeline[r][k].kind # "approval"
               PROVE  timeline[r][k].status \notin StepOpen
    BY DEF NoStepLeftOpen
  <2>1. k \in 1 .. Len(timeline[r]) /\ Tidy(r)
    BY DEF LoopInv, ItemTypes
  <2> QED BY <2>1 DEF Tidy, Shut
<1> QED BY <1>1, LoopInvariant, PTL

\* The router's limit holds up to the last batch and one turn for each message.
THEOREM StepsAreBounded == LoopSpec => []StepBudget
<1>1. LoopInv => StepBudget
  <2> SUFFICES ASSUME LoopInv, NEW r \in DOMAIN session.runs, NEW b \in Batches(r),
                      Longest(r, b)
               PROVE  idx[r] <= MaxSteps(r) + Len(b) + Cardinality(session.notes)
    BY DEF StepBudget, Longest
  <2>1. /\ Within(r, b) /\ MaxSteps(r) \in Nat /\ Len(b) \in Nat /\ idx[r] \in Nat
    <3>1. RunTypes /\ ItemTypes /\ Budget(r)
      BY DEF LoopInv
    <3>2. r \in Runs /\ MaxSteps(r) \in Nat /\ Len(b) \in Nat
      BY <3>1, SessionFacts
    <3> QED BY <3>1, <3>2 DEF Budget, ItemTypes
  <2>2. Injected \subseteq session.notes /\ session.notes \in SUBSET Msgs
    BY LoopAssumption DEF LoopInv, NoteInv, Injected, RunTypes, SessionType
  <2>3. /\ Cardinality(Injected) \in Nat /\ Cardinality(session.notes) \in Nat
        /\ Cardinality(Injected) <= Cardinality(session.notes)
    BY <2>2, CountGrows DEF Injected
  <2> QED BY <2>1, <2>3 DEF Within
<1> QED BY <1>1, LoopInvariant, PTL

\* The transitions in the docstring of InterventionStatus: only a pending message is
\* consumed or given back, and only one that was given back is queued again.
THEOREM LifecycleIsKept == LoopSpec => InterventionLifecycle
<1> DEFINE Legal(m) == note'[m] # note[m] =>
             <<note[m].status, note'[m].status>> \in
               {<<"absent", "pending">>, <<"pending", "injected">>,
                <<"pending", "undelivered">>, <<"undelivered", "pending">>}
<1>1. ASSUME LoopInv, [LoopNext]_<<loopVars, session>>, NEW m \in Msgs PROVE Legal(m)
  <2>1. NoteTypes /\ SeenInv
    BY <1>1 DEF LoopInv
  <2>2. note[m] \in [status : NoteStatus, run : Runs \cup {NoMsgRun}]
    BY <2>1 DEF NoteTypes
  <2>3. CASE UNCHANGED note
    BY <2>3
  <2>4. ASSUME NEW r \in Runs, Requeue(r) PROVE Legal(m)
    BY <2>1, <2>2, <2>4 DEF Requeue, NoteTypes
  <2>5. ASSUME NEW r \in Runs, EndTurn(r) PROVE Legal(m)
    <3>1. m \in seen[r] => note[m].status = "pending"
      BY <2>1 DEF SeenInv
    <3> QED BY <2>1, <2>2, <2>5, <3>1 DEF EndTurn, Consume, NoteTypes
  <2>6. ASSUME NEW r \in Runs, FailRun(r) PROVE Legal(m)
    <3>1. \/ note'[m] = note[m]
          \/ note[m].status = "pending" /\ note'[m] = [note[m] EXCEPT !.status = "undelivered"]
      BY <2>6 DEF FailRun, PendingFor
    <3> QED BY <2>2, <3>1
  <2>7. ASSUME NEW x \in Msgs, QueueNote(x) PROVE Legal(m)
    BY <2>1, <2>2, <2>7 DEF QueueNote, NoteTypes
  <2>8. \/ UNCHANGED note
        \/ \E r \in Runs : Requeue(r) \/ EndTurn(r) \/ FailRun(r)
        \/ \E x \in Msgs : QueueNote(x)
    <3>1. ASSUME NEW r \in Runs, Task(r), note' # note
          PROVE  Requeue(r) \/ EndTurn(r) \/ FailRun(r)
      BY <3>1 DEF Task, OpenTurn, ReadNotes, FailTurn, Route, RunItem, RefuseItem, AskForItem,
                  EndItems, SuspendRun, CompleteRun, NextItem, Die
    <3>2. ASSUME NEW r \in Runs, StartRun(r) \/ Cancel(r) \/ Sweep(r) PROVE UNCHANGED note
      BY <3>2 DEF StartRun, Cancel, Sweep, CloseRun
    <3>3. ASSUME NEW r \in Runs, NEW i \in waiting[r], Approve(r, i) \/ Reject(r, i)
          PROVE  UNCHANGED note
      BY <3>3 DEF Approve, Reject, Answer
    <3>4. ASSUME NEW x \in Msgs, NEW r \in Runs, AskToQueue(x, r) PROVE UNCHANGED note
      BY <3>4 DEF AskToQueue
    <3> QED BY <1>1, <3>1, <3>2, <3>3, <3>4 DEF LoopNext, loopVars
  <2> QED BY <2>3, <2>4, <2>5, <2>6, <2>7, <2>8
<1>2. LoopInv /\ [LoopNext]_<<loopVars, session>> => [\A m \in Msgs : Legal(m)]_loopVars
  BY <1>1
<1> QED BY <1>2, LoopInvariant, PTL DEF LoopSpec, InterventionLifecycle
-----------------------------------------------------------------------------
(***************************************************************************)
(* The mailbox, action by action.                                          *)
(***************************************************************************)
LEMMA MailTypes ==
  ASSUME LoopInv
  PROVE  /\ note \in [Msgs -> [status : NoteStatus, run : Runs \cup {NoMsgRun}]]
         /\ seen \in [Runs -> SUBSET Msgs] /\ taken \in [Msgs -> Nat]
         /\ asked \in [Msgs -> Runs \cup {NoMsgRun}]
         /\ \A r \in Runs : /\ Box!WaitingFor(r) = PendingFor(r)
                            /\ seen[r] \subseteq PendingFor(r)
                            /\ at[r] # "await" => seen[r] = {}
<1>1. NoteTypes /\ SeenInv
  BY DEF LoopInv
<1>2. \A m \in Msgs : note[m] \in [status : NoteStatus, run : Runs \cup {NoMsgRun}]
  BY <1>1 DEF NoteTypes
<1>3. ASSUME NEW r \in Runs PROVE Box!WaitingFor(r) = PendingFor(r)
  <2>1. \A m \in Msgs : note[m] = [status |-> "pending", run |-> r] <=>
                          note[m].status = "pending" /\ note[m].run = r
    BY <1>2
  <2> QED BY <2>1 DEF Box!WaitingFor, PendingFor
<1>4. ASSUME NEW r \in Runs PROVE seen[r] \subseteq PendingFor(r) /\ (at[r] # "await" => seen[r] = {})
  BY <1>1 DEF SeenInv, NoteTypes, PendingFor
<1> QED BY <1>1, <1>3, <1>4 DEF NoteTypes

\* A record with another status is the letter in another place.
LEMMA Relabelled ==
  ASSUME NEW x \in [status : NoteStatus, run : Runs \cup {NoMsgRun}], NEW st
  PROVE  [x EXCEPT !.status = st] = [status |-> st, run |-> x.run]
OBVIOUS

LEMMA RequeueMaps == ASSUME LoopInv, NEW r \in Runs, Requeue(r) PROVE Box!TakeOver(r)
<1>1. seen[r] = {} /\ UNCHANGED <<seen, taken>>
  BY MailTypes DEF Requeue
<1>2. Box!Becomes(Box!LeftBehind, "pending", r)
  BY MailTypes DEF Requeue, Box!Becomes, Box!LeftBehind
<1> QED BY <1>1, <1>2 DEF Box!TakeOver

LEMMA ReadNotesMaps == ASSUME LoopInv, NEW r \in Runs, ReadNotes(r) PROVE Box!Show(r)
<1>1. seen[r] = {} /\ Box!WaitingFor(r) = PendingFor(r)
  BY MailTypes DEF ReadNotes
<1> QED BY <1>1 DEF ReadNotes, Box!Show

LEMMA EndTurnMaps == ASSUME LoopInv, NEW r \in Runs, EndTurn(r) PROVE Box!Open(r)
<1>1. seen[r] \subseteq PendingFor(r) /\ Box!WaitingFor(r) = PendingFor(r)
  BY MailTypes
<1>2. \A m \in seen[r] : [note[m] EXCEPT !.status = "injected"] = [status |-> "injected", run |-> r]
  <2> TAKE m \in seen[r]
  <2>1. note[m].run = r /\ note[m] \in [status : NoteStatus, run : Runs \cup {NoMsgRun}]
    BY <1>1, MailTypes DEF PendingFor
  <2> QED BY <2>1, Relabelled
<1>3. Box!Becomes(seen[r], "injected", r)
  BY <1>2 DEF EndTurn, Consume, Box!Becomes
<1>4. /\ taken' = [m \in Msgs |-> IF m \in seen[r] THEN taken[m] + 1 ELSE taken[m]]
      /\ seen' = [seen EXCEPT ![r] = {}]
  BY DEF EndTurn, Consume
<1> QED BY <1>1, <1>3, <1>4 DEF Box!Open

LEMMA FailTurnMaps == ASSUME NEW r \in Runs, FailTurn(r) PROVE Box!Forget(r)
BY DEF FailTurn, Box!Forget

LEMMA FailRunMaps ==
  ASSUME LoopInv, NEW r \in Runs, FailRun(r), note' # note PROVE Box!GiveBack(r)
<1>1. seen[r] = {} /\ UNCHANGED <<seen, taken>> /\ Box!WaitingFor(r) = PendingFor(r)
  BY MailTypes DEF FailRun
<1>2. \A m \in PendingFor(r) :
        [note[m] EXCEPT !.status = "undelivered"] = [status |-> "undelivered", run |-> r]
  <2> TAKE m \in PendingFor(r)
  <2>1. note[m].run = r /\ note[m] \in [status : NoteStatus, run : Runs \cup {NoMsgRun}]
    BY MailTypes DEF PendingFor
  <2> QED BY <2>1, Relabelled
<1>3. note' = [m \in Msgs |-> IF m \in PendingFor(r)
                              THEN [note[m] EXCEPT !.status = "undelivered"] ELSE note[m]]
  BY DEF FailRun
<1>4. Box!Becomes(PendingFor(r), "undelivered", r)
  BY <1>2, <1>3 DEF Box!Becomes
<1> QED BY <1>1, <1>4 DEF Box!GiveBack

LEMMA QueueNoteMaps ==
  ASSUME LoopInv, NEW m \in Msgs, QueueNote(m) PROVE \E r \in Runs : Box!Post(m, r)
<1>1. asked[m] \in Runs
  BY MailTypes DEF QueueNote
<1>2. Box!Becomes({m}, "pending", asked[m])
  BY MailTypes DEF QueueNote, Box!Becomes
<1>3. Box!Post(m, asked[m])
  BY <1>2 DEF QueueNote, Box!Post
<1> QED BY <1>1, <1>3

(***************************************************************************)
(* The loop implements the mailbox, for any sessions, messages and limits: *)
(* a completed turn consumes the messages of its own prompt, which were    *)
(* all still pending for its run, and each of them once.                   *)
(***************************************************************************)
THEOREM LoopImplementsMailbox == LoopSpec => ImplementsMailbox
<1>1. LoopInit => Box!MailInit
  BY DEF LoopInit, Box!MailInit
<1>2. ASSUME LoopInv, [LoopNext]_<<loopVars, session>>
      PROVE  [Box!MailNext]_(Box!mailState)
  <2>1. ASSUME NEW r \in Runs, Task(r) PROVE Box!MailNext \/ UNCHANGED Box!mailState
    <3>1. CASE Requeue(r)
      BY <1>2, <3>1, RequeueMaps DEF Box!MailNext
    <3>2. CASE ReadNotes(r)
      BY <1>2, <3>2, ReadNotesMaps DEF Box!MailNext
    <3>3. CASE EndTurn(r)
      BY <1>2, <3>3, EndTurnMaps DEF Box!MailNext
    <3>4. CASE FailTurn(r)
      BY <3>4, FailTurnMaps DEF Box!MailNext
    <3>5. CASE FailRun(r)
      <4>1. CASE note' = note
        BY <3>5, <4>1 DEF FailRun, Box!mailState
      <4> QED BY <1>2, <3>5, <4>1, FailRunMaps DEF Box!MailNext
    <3>6. CASE \/ OpenTurn(r) \/ Route(r) \/ RunItem(r) \/ RefuseItem(r) \/ AskForItem(r)
               \/ EndItems(r) \/ SuspendRun(r) \/ CompleteRun(r)
      BY <3>6 DEF OpenTurn, Route, RunItem, RefuseItem, AskForItem, EndItems, SuspendRun,
                  CompleteRun, NextItem, Die, noteVars, Box!mailState
    <3> QED BY <2>1, <3>1, <3>2, <3>3, <3>4, <3>5, <3>6 DEF Task
  <2>2. ASSUME NEW r \in Runs, StartRun(r) \/ Cancel(r) \/ Sweep(r) PROVE UNCHANGED Box!mailState
    BY <2>2 DEF StartRun, Cancel, Sweep, CloseRun, noteVars, Box!mailState
  <2>3. ASSUME NEW r \in Runs, NEW i \in waiting[r], Approve(r, i) \/ Reject(r, i)
        PROVE  UNCHANGED Box!mailState
    BY <2>3 DEF Approve, Reject, Answer, noteVars, Box!mailState
  <2>4. ASSUME NEW m \in Msgs, NEW r \in Runs, AskToQueue(m, r) PROVE UNCHANGED Box!mailState
    BY <2>4 DEF AskToQueue, Box!mailState
  <2>5. ASSUME NEW m \in Msgs, QueueNote(m) PROVE Box!MailNext
    BY <1>2, <2>5, QueueNoteMaps DEF Box!MailNext
  <2>6. CASE UNCHANGED loopVars
    BY <2>6 DEF loopVars, noteVars, Box!mailState
  <2> QED BY <1>2, <2>1, <2>2, <2>3, <2>4, <2>5, <2>6 DEF LoopNext
<1> QED BY <1>1, <1>2, LoopInvariant, PTL DEF LoopSpec, ImplementsMailbox, Box!MailSpec
=============================================================================
