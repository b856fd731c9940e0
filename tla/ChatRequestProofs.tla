------------------------- MODULE ChatRequestProofs -------------------------
(***************************************************************************)
(* What holds of chat requests for any number of requests, threads,        *)
(* providers and messages: the numbering of messages, the types of the     *)
(* variables, and the prompts.  For the prompts, lemmas about sums of      *)
(* tokens and compaction come first; they are proved by induction.         *)
(***************************************************************************)
EXTENDS ChatRequest, FiniteSetTheorems, WellFoundedInduction, TLAPS

ChatRow     == Row(Requests \cup {NoRun}, Nat \ {0})
ChatMessage == Message(Requests \cup {NoRun}, Nat \ {0})

SaveState == [at : {"idle", "lock", "max", "insert"}, max : Nat,
              msg : ChatMessage \cup {<<>>}, row : Nat]

StoreTypes ==
  /\ rows \in Seq(ChatRow)
  /\ save \in [Writers -> SaveState]
  /\ \A w \in Writers : Saving(w) => save[w].msg \in ChatMessage

\* One writer at most is behind the lock, and what it read is still true.
OneBehindTheLock ==
  /\ \A v, w \in Writers : Holds(v) /\ Holds(w) => v = w
  /\ \A w \in Writers : save[w].at = "insert" => save[w].max = Len(rows)

StoreInv == StoreTypes /\ OneBehindTheLock /\ NumberedInOrder

LEMMA MaxIsLength == ASSUME rows \in Seq(ChatRow), \A i \in DOMAIN rows : rows[i].no = i
                     PROVE  MaxNo = Len(rows)
<1> DEFINE S == {rows[i].no : i \in DOMAIN rows} \cup {0}
<1>1. DOMAIN rows = 1 .. Len(rows) /\ Len(rows) \in Nat
  OBVIOUS
<1>2. S = 0 .. Len(rows)
  BY <1>1
<1>3. Len(rows) \in S /\ \A y \in S : Len(rows) >= y
  BY <1>1, <1>2
<1>4. \A n \in Nat : \A x \in 0 .. n : x >= n => x = n
  OBVIOUS
<1> HIDE DEF S
<1>5. Max(S) = Len(rows)
  BY <1>1, <1>2, <1>3, <1>4 DEF Max
<1> QED
  BY <1>5 DEF MaxNo, S

\* A statement of save_message keeps the invariant: the writer behind the lock
\* is the only one who appends.
LEMMA StatementStep == ASSUME StoreInv, NEW w \in Writers, Statement(w)
                       PROVE  StoreInv'
<1> USE DEF StoreInv, StoreTypes, OneBehindTheLock, NumberedInOrder, SaveState, Holds, Saving
<1>1. CASE AcquireLock(w)
  BY <1>1 DEF AcquireLock
<1>2. CASE ReadMax(w)
  <2>1. MaxNo = Len(rows)
    BY MaxIsLength
  <2>2. save[w].at = "max" /\ save'[w].at = "insert" /\ save'[w].max = Len(rows)
    BY <1>2, <2>1 DEF ReadMax
  <2>3. \A v \in Writers : v # w => save'[v] = save[v]
    BY <1>2 DEF ReadMax
  <2>4. save'[w].msg = save[w].msg /\ UNCHANGED <<rows, refused>>
    BY <1>2 DEF ReadMax
  <2>7. save' \in [Writers -> SaveState]
    <3>2. save[w] \in SaveState /\ Len(rows) \in Nat
      BY DEF StoreTypes
    <3>1. [save[w] EXCEPT !.at = "insert", !.max = Len(rows)] \in SaveState
      BY <3>2
    <3> QED
      BY <1>2, <2>1, <3>1 DEF ReadMax
  <2>5. StoreTypes'
    BY <2>2, <2>3, <2>4, <2>7
  <2>6. OneBehindTheLock'
    BY <2>2, <2>3, <2>4
  <2> QED
    BY <2>4, <2>5, <2>6
<1>3. CASE Insert(w)
  <2> DEFINE m == save[w].msg
             new == [no |-> save[w].max + 1, role |-> m.role, run |-> m.run,
                     status |-> m.status, size |-> m.size]
  <2>1. save[w].max = Len(rows) /\ m \in ChatMessage
    BY <1>3 DEF Insert
  <2>2. new \in ChatRow
    BY <2>1 DEF ChatRow, ChatMessage, Row, Message
  <2>3. ~ \E i \in DOMAIN rows : rows[i].no = save[w].max + 1
    BY <2>1
  <2>4. rows' = Append(rows, new) /\ refused' = refused
    BY <1>3, <2>3 DEF Insert
  <2>5. save' = [save EXCEPT ![w] = [Idle EXCEPT !.row = Len(rows) + 1]]
    BY <1>3 DEF Insert
  <2>6. save'[w].at = "idle" /\ \A v \in Writers : v # w => save'[v] = save[v]
    BY <2>5 DEF Idle
  <2>7. save' \in [Writers -> SaveState]
    BY <2>5 DEF Idle
  <2>8. rows' \in Seq(ChatRow)
    BY <2>2, <2>4
  <2>9. StoreTypes'
    BY <2>6, <2>7, <2>8
  <2>10. Holds(w)
    BY <1>3 DEF Insert
  <2>11. OneBehindTheLock'
    BY <2>6, <2>10
  <2>12. \A i \in DOMAIN rows' : rows'[i].no = i
    BY <2>1, <2>2, <2>4
  <2> QED
    BY <2>4, <2>9, <2>11, <2>12
<1> QED
  BY <1>1, <1>2, <1>3 DEF Statement

\* save_message is called by a writer that is not in it.
LEMMA AskStep == ASSUME StoreInv, NEW w \in Writers, NEW m \in ChatMessage, ~Saving(w),
                        AskToSave(w, m), UNCHANGED <<rows, refused>>
                 PROVE  StoreInv'
<1> USE DEF StoreInv, StoreTypes, OneBehindTheLock, NumberedInOrder, SaveState, Holds, Saving
<1>1. save'[w] = [at |-> "lock", max |-> 0, msg |-> m, row |-> 0]
  BY DEF AskToSave, Idle
<1>2. \A v \in Writers : v # w => save'[v] = save[v]
  BY DEF AskToSave
<1>3. save' \in [Writers -> SaveState]
  BY <1>1 DEF AskToSave, Idle
<1>4. \A v \in Writers : Saving(v)' => save'[v].msg \in ChatMessage
  <2> TAKE v \in Writers
  <2>1. CASE v = w
    BY <1>1, <2>1
  <2>2. CASE v # w
    BY <1>2, <2>2
  <2> QED
    BY <2>1, <2>2
<1>6. StoreTypes'
  BY <1>3, <1>4
<1>5. OneBehindTheLock'
  BY <1>1, <1>2
<1> QED
  BY <1>5, <1>6

\* Updates of other columns.
LEMMA RelabelStep == ASSUME StoreInv, UNCHANGED <<save, refused>>, rows' \in Seq(ChatRow),
                            Len(rows') = Len(rows), \A i \in DOMAIN rows : rows'[i].no = rows[i].no
                     PROVE  StoreInv'
BY DEF StoreInv, StoreTypes, OneBehindTheLock, NumberedInOrder, Holds, Saving

LEMMA Idling == ASSUME StoreInv, UNCHANGED storeVars PROVE StoreInv'
BY DEF StoreInv, StoreTypes, OneBehindTheLock, NumberedInOrder, Holds, Saving, storeVars

LEMMA NewMessageType ==
  ASSUME NEW role \in {"user", "assistant"}, NEW r \in Requests \cup {NoRun},
         NEW st \in {"plain", "pending"}
  PROVE  NewMessage(role, r, st) \in ChatMessage
BY DEF NewMessage, ChatMessage, Message, Intervention

LEMMA MarkRows ==
  ASSUME rows \in Seq(ChatRow), NEW which, NEW st \in Intervention
  PROVE  /\ Mark(which, st) \in Seq(ChatRow) /\ Len(Mark(which, st)) = Len(rows)
         /\ \A i \in DOMAIN rows : Mark(which, st)[i].no = rows[i].no
<1> DEFINE Marked(x) == [x EXCEPT !.status = st]
<1>0. \A x \in ChatRow : Marked(x) \in ChatRow /\ Marked(x).no = x.no
  BY DEF ChatRow, Row, Intervention
<1>1. \A i \in DOMAIN rows : rows[i] \in ChatRow /\ Marked(rows[i]) \in ChatRow
  BY <1>0
<1>2. \A i \in DOMAIN rows : Marked(rows[i]).no = rows[i].no
  BY <1>0, <1>1
<1>3. Mark(which, st) \in [1 .. Len(rows) -> ChatRow] /\ Len(rows) \in Nat
  BY <1>1 DEF Mark
<1>4. Mark(which, st) \in Seq(ChatRow) /\ Len(Mark(which, st)) = Len(rows)
  BY <1>3
<1>5. \A i \in DOMAIN rows : Mark(which, st)[i].no = rows[i].no
  BY <1>2 DEF Mark
<1> QED
  BY <1>4, <1>5

LEMMA RequeueRows ==
  ASSUME rows \in Seq(ChatRow), NEW r \in Requests, NEW own
  PROVE  /\ Requeue(r, own) \in Seq(ChatRow) /\ Len(Requeue(r, own)) = Len(rows)
         /\ \A i \in DOMAIN rows : Requeue(r, own)[i].no = rows[i].no
<1> DEFINE Taken(x) == [[x EXCEPT !.run = r] EXCEPT !.status = "pending"]
<1>0. \A x : [x EXCEPT !.run = r, !.status = "pending"] = Taken(x)
  OBVIOUS
<1>1. \A x \in ChatRow : /\ [x EXCEPT !.run = r] \in ChatRow /\ Taken(x) \in ChatRow
                         /\ [x EXCEPT !.run = r].no = x.no /\ Taken(x).no = x.no
  BY DEF ChatRow, Row, Intervention
<1>2. \A i \in DOMAIN rows : rows[i] \in ChatRow
  OBVIOUS
<1> DEFINE new == [i \in DOMAIN rows |->
                    IF i \in UndeliveredRows THEN Taken(rows[i])
                    ELSE IF i = own THEN [rows[i] EXCEPT !.run = r] ELSE rows[i]]
<1>3. Requeue(r, own) = new
  BY <1>0 DEF Requeue
<1>4. \A i \in DOMAIN rows : new[i] \in ChatRow /\ new[i].no = rows[i].no
  BY <1>1, <1>2
<1>5. new \in [1 .. Len(rows) -> ChatRow] /\ Len(rows) \in Nat
  <2> HIDE DEF Taken
  <2> QED
    BY <1>4
<1> HIDE DEF new
<1>6. new \in Seq(ChatRow) /\ Len(new) = Len(rows)
  BY <1>5
<1> QED
  BY <1>3, <1>4, <1>6

LEMMA FailRunStore == ASSUME StoreInv, NEW r \in Requests, FailRun(r), UNCHANGED <<save, refused>>
                      PROVE  StoreInv'
<1>1. rows \in Seq(ChatRow) /\ "undelivered" \in Intervention
  BY DEF StoreInv, StoreTypes, Intervention
<1>2. rows' = rows \/ rows' = Mark(PendingFor(r), "undelivered")
  BY DEF FailRun, MarkUndelivered
<1>3. CASE rows' = rows
  BY <1>3, Idling DEF storeVars
<1>4. CASE rows' = Mark(PendingFor(r), "undelivered")
  BY <1>1, <1>4, MarkRows, RelabelStep
<1> QED
  BY <1>2, <1>3, <1>4

\* What a task of the event loop does to the messages.
LEMMA TaskStore == ASSUME StoreInv, NEW r \in Requests, LoopFree, TaskStep(r) PROVE StoreInv'
<1>1. r \in Writers /\ ~Saving(r) /\ rows \in Seq(ChatRow)
  BY ChatAssumption DEF LoopFree, StoreInv, StoreTypes
<1>2. CASE StartTask(r)
  <2>1. CASE AskToSave(r, NewMessage("user", NoRun, "plain"))
    BY <1>1, <1>2, <2>1, NewMessageType, AskStep DEF StartTask
  <2>2. CASE UNCHANGED save
    BY <1>2, <2>2, Idling DEF StartTask, storeVars
  <2> QED
    BY <1>2, <2>1, <2>2 DEF StartTask
<1>3. CASE BeginRun(r)
  BY <1>1, <1>3, RequeueRows, RelabelStep DEF BeginRun
<1>4. CASE FinishAnswer(r)
  <2>1. rows' = Mark(heard[r], "injected") /\ UNCHANGED <<save, refused>>
    BY <1>4 DEF FinishAnswer, MarkInjected
  <2> QED
    BY <1>1, <2>1, MarkRows, RelabelStep DEF Intervention
<1>5. CASE GraphRaises(r)
  BY <1>5, FailRunStore DEF GraphRaises
<1>6. CASE Finalize(r)
  <2>1. UNCHANGED refused
    BY <1>6 DEF Finalize
  <2>2. CASE FailRun(r) /\ UNCHANGED save
    BY <2>1, <2>2, FailRunStore
  <2>3. CASE UNCHANGED <<rows, save>>
    BY <2>1, <2>3, Idling DEF storeVars
  <2>4. CASE AskToSave(r, NewMessage("assistant", r, "plain")) /\ UNCHANGED rows
    BY <1>1, <2>1, <2>4, NewMessageType, AskStep
  <2> QED
    BY <1>6, <2>2, <2>3, <2>4 DEF Finalize
<1>7. CASE StartTurn(r) \/ Compact(r) \/ StreamText(r) \/ ProviderFails(r) \/ Route(r)
           \/ RunTools(r) \/ Complete(r) \/ MakeTitle(r)
  BY <1>7, Idling DEF StartTurn, Compact, StreamText, ProviderFails, Route, RunTools, Complete,
                      MakeTitle
<1> QED
  BY <1>2, <1>3, <1>4, <1>5, <1>6, <1>7 DEF TaskStep

LEMMA StoreNext == ASSUME StoreInv, [ChatNext]_chatVars PROVE StoreInv'
<1>1. ASSUME NEW r \in Requests, OnLoop(r) PROVE StoreInv'
  BY <1>1, TaskStore DEF OnLoop
<1>2. ASSUME NEW r \in Requests, BrowserStep(r) \/ CloseRun(r) PROVE StoreInv'
  BY <1>2, Idling DEF BrowserStep, Arrive, StartStream, BrowserLeaves, BrowserReads, CloseRun
<1>3. ASSUME NEW t \in Threads, NEW r \in Requests, PostIntervention(t, r) PROVE StoreInv'
  <2>1. t \in Writers /\ ~Saving(t)
    BY <1>3, ChatAssumption DEF PostIntervention, Saving, Idle
  <2> QED
    BY <1>3, <2>1, NewMessageType, AskStep DEF PostIntervention
<1>4. ASSUME NEW w \in Writers, SaveMessage(w) PROVE StoreInv'
  BY <1>4, StatementStep DEF SaveMessage
<1>5. CASE UNCHANGED chatVars
  BY <1>5, Idling DEF chatVars
<1> QED
  BY <1>1, <1>2, <1>3, <1>4, <1>5 DEF ChatNext

LEMMA StoreStart == ChatInit => StoreInv
<1> SUFFICES ASSUME ChatInit PROVE StoreInv
  OBVIOUS
<1>1. case \in Cases /\ rows = case.history /\ refused = {} /\ save = [w \in Writers |-> Idle]
  BY DEF ChatInit, StoreInit
<1>2. rows \in Seq(ChatRow) /\ \A i \in DOMAIN rows : rows[i].no = i
  BY <1>1, ChatAssumption DEF ChatRow
<1>3. save \in [Writers -> SaveState] /\ \A w \in Writers : save[w].at = "idle"
  BY <1>1 DEF SaveState, Idle
<1> QED
  BY <1>1, <1>2, <1>3 DEF StoreInv, StoreTypes, OneBehindTheLock, NumberedInOrder, Holds, Saving

(***************************************************************************)
(* For any number of requests, threads and messages: the messages of a     *)
(* session are numbered without a gap and no insert of save_message meets  *)
(* the unique constraint.                                                  *)
(***************************************************************************)
THEOREM MessagesAreNumbered == ChatSpec => []NumberedInOrder
<1>1. StoreInv => NumberedInOrder
  BY DEF StoreInv
<1> QED
  BY <1>1, StoreStart, StoreNext, PTL DEF ChatSpec
-----------------------------------------------------------------------------
(***************************************************************************)
(* Types.                                                                  *)
(***************************************************************************)
CallType == [order : Seq(Registered), next : Nat, parts : Nat]

NoProvider == {"absent", "new", "rejected"}

TypeInv ==
  /\ ChatTypeOK
  /\ call \in [Requests -> CallType]
  /\ \A r \in Requests : at[r] \notin NoProvider => provider[r] \in Registered

\* The others are all the providers but the first one asked.
LEMMA OrderType == ASSUME NEW p \in Registered
                   PROVE  /\ ProviderOrder(p) \in Seq(Registered)
                          /\ 1 \in DOMAIN ProviderOrder(p)
<1>1. Adapters \in Seq(Registered) /\ Adapters \in Seq(STRING)
  BY AdaptersAssumption DEF Registered, ToSet
<1>2. PICK k \in 1 .. Len(Adapters) : Adapters[k] = p
  BY <1>1 DEF Registered, ToSet
<1> DEFINE I == {i \in 1 .. Len(Adapters) : Adapters[i] = p}
<1>3. I = {k}
  BY <1>1, <1>2, AdaptersAssumption DEF IsInjective
<1>4. SelectInSeq(Adapters, LAMBDA v : v = p) = k
  <2>1. \A S : S = {k} => Min(S) = k
    BY <1>1, <1>2 DEF Min
  <2> QED
    BY <1>2, <1>3, <2>1 DEF SelectInSeq
<1>5. RemoveFirst(Adapters, p) =
        SubSeq(Adapters, 1, k - 1) \o SubSeq(Adapters, k + 1, Len(Adapters))
  BY <1>2, <1>4 DEF RemoveFirst, RemoveAt
<1>6. RemoveFirst(Adapters, p) \in Seq(Registered)
  <2>1. /\ SubSeq(Adapters, 1, k - 1) \in Seq(Registered)
        /\ SubSeq(Adapters, k + 1, Len(Adapters)) \in Seq(Registered)
    BY <1>1, <1>2
  <2> QED
    BY <1>5, <2>1
<1>7. ProviderOrder(p) \in Seq(Registered) /\ Len(ProviderOrder(p)) >= 1
  BY <1>6 DEF ProviderOrder
<1> QED
  BY <1>7

\* The calls of the gateway: the provider that is asked is on its list.
LEMMA OpenStreamType ==
  ASSUME call \in [Requests -> CallType], NEW r \in Requests, NEW p \in Registered, OpenStream(r, p)
  PROVE  /\ call' \in [Requests -> CallType] /\ call'[r].parts = 0
         /\ call'[r].next \in DOMAIN call'[r].order
         /\ \A q \in Requests : q # r => call'[q] = call[q]
<1> DEFINE opened == [order |-> ProviderOrder(p), next |-> 1, parts |-> 0]
<1>1. opened \in CallType /\ opened.next \in DOMAIN opened.order /\ opened.parts = 0
  BY OrderType DEF CallType
<1>2. call' = [call EXCEPT ![r] = opened]
  BY DEF OpenStream
<1> HIDE DEF opened
<1> QED
  BY <1>1, <1>2

LEMMA FallBackType ==
  ASSUME call \in [Requests -> CallType], NEW r \in Requests, call[r].next \in DOMAIN call[r].order,
         NEW error, FallBack(r, error)
  PROVE  /\ call' \in [Requests -> CallType] /\ call'[r].parts = 0
         /\ call'[r].next \in DOMAIN call'[r].order
         /\ \A q \in Requests : q # r => call'[q] = call[q]
<1> DEFINE Asked(x) == [order |-> x.order, next |-> x.next + 1, parts |-> 0]
<1>1. \A x \in CallType : /\ Asked(x) \in CallType /\ Asked(x).parts = 0
                          /\ Asked(x).order = x.order /\ Asked(x).next = x.next + 1
  BY DEF CallType
<1>3. call' = [call EXCEPT ![r] = Asked(call[r])]
  BY DEF FallBack
<1>4. call[r].next # Len(call[r].order) /\ call[r].order \in Seq(Registered)
  BY DEF FallBack, Raises, CallType
<1> HIDE DEF Asked
<1>5. call'[r] = Asked(call[r])
  BY <1>3
<1>6. call'[r].next \in DOMAIN call'[r].order
  BY <1>1, <1>4, <1>5
<1> QED
  BY <1>1, <1>3, <1>5, <1>6

LEMMA CaseFacts == ASSUME case \in Cases
                   PROVE  /\ case.parts \in Nat /\ case.providers \subseteq Registered
                          /\ case.calls \subseteq {"none", "auto_execute", "require_approval"}
                          /\ case.closes \subseteq Closed /\ case.requests \subseteq Requests
                          /\ case.traced \subseteq BOOLEAN
BY ChatAssumption DEF Closed

\* Rows are never deleted.
LEMMA RowsStay == ASSUME StoreInv, [ChatNext]_chatVars PROVE DOMAIN rows \subseteq DOMAIN rows'
<1>1. DOMAIN rows = 1 .. Len(rows) /\ rows \in Seq(ChatRow)
  BY DEF StoreInv, StoreTypes
<1>2. ASSUME NEW w \in Writers, Statement(w) PROVE DOMAIN rows \subseteq DOMAIN rows'
  <2>1. CASE rows' = rows
    BY <2>1
  <2>2. ASSUME NEW m, rows' = Append(rows, m) PROVE DOMAIN rows \subseteq DOMAIN rows'
    BY <1>1, <2>2
  <2> QED
    BY <1>2, <2>1, <2>2 DEF Statement, AcquireLock, ReadMax, Insert
<1>3. ASSUME NEW r \in Requests, TaskStep(r) PROVE DOMAIN rows \subseteq DOMAIN rows'
  <2>1. CASE rows' = rows
    BY <2>1
  <2>2. ASSUME NEW which, NEW st, rows' = Mark(which, st) PROVE DOMAIN rows \subseteq DOMAIN rows'
    BY <2>2 DEF Mark
  <2>3. ASSUME NEW own, rows' = Requeue(r, own) PROVE DOMAIN rows \subseteq DOMAIN rows'
    BY <2>3 DEF Requeue
  <2> QED
    BY <1>3, <2>1, <2>2, <2>3
       DEF TaskStep, StartTask, BeginRun, StartTurn, Compact, StreamText, FinishAnswer,
           ProviderFails, Route, RunTools, GraphRaises, Finalize, Complete, MakeTitle, FailRun,
           MarkInjected, MarkUndelivered, storeVars
<1> QED
  BY <1>2, <1>3 DEF ChatNext, OnLoop, BrowserStep, Arrive, StartStream, BrowserLeaves,
                    BrowserReads, CloseRun, PostIntervention, SaveMessage, chatVars, storeVars

LEMMA AnswerType == ASSUME TypeInv, NEW r \in Requests, at[r] = "stream", NEW calls \in case.calls
                    PROVE  Answered(r, calls) \in Answer /\ Answered(r, calls).parts = call[r].parts
<1>1. call[r] \in CallType /\ call[r].next \in DOMAIN call[r].order
  BY DEF TypeInv, ChatTypeOK
<1>2. Speaker(r) \in Registered
  BY <1>1 DEF Speaker, CallType
<1> QED
  BY <1>1, <1>2, CaseFacts DEF Answered, Answer, CallType, TypeInv, ChatTypeOK

\* The types but for what relates the variables of one request.
Globals ==
  /\ case \in Cases
  /\ at \in [Requests -> Place] /\ run \in [Requests -> RunStatus]
  /\ provider \in [Requests -> Registered \cup {"none"}]
  /\ steps \in [Requests -> Nat] /\ heard \in [Requests -> SUBSET DOMAIN rows]
  /\ answer \in [Requests -> Answer] /\ failed \in SUBSET Requests
  /\ roots \in SUBSET Requests /\ untitled \in SUBSET Requests /\ title \in BOOLEAN
  /\ call \in [Requests -> CallType]

Local(r) ==
  /\ answer[r].parts <= case.parts /\ call[r].parts <= case.parts
  /\ IF at[r] = "stream" THEN call[r].next \in DOMAIN call[r].order ELSE call[r] = NoCall
  /\ Saving(r) => at[r] \in {"save_user", "save_answer"}
  /\ at[r] \notin NoProvider => provider[r] \in Registered

LEMMA TypeParts == TypeInv <=> Globals /\ \A r \in Requests : Local(r)
BY DEF TypeInv, ChatTypeOK, Globals, Local

\* What an action leaves to the other requests.
Apart(r) ==
  \A q \in Requests \ {r} :
    /\ at'[q] = at[q] /\ answer'[q] = answer[q] /\ call'[q] = call[q]
    /\ provider'[q] = provider[q] /\ save'[q] = save[q]

LEMMA OneMoves == ASSUME TypeInv, NEW r \in Requests, Apart(r), UNCHANGED case, Globals', Local(r)'
                  PROVE  TypeInv'
<1>1. ASSUME NEW q \in Requests PROVE Local(q)'
  <2>1. CASE q = r
    BY <2>1
  <2>2. CASE q # r
    BY <2>2, TypeParts DEF Apart, Local, Saving, Globals
  <2> QED
    BY <2>1, <2>2
<1>2. TypeInv' <=> Globals' /\ \A q \in Requests : Local(q)'
  BY DEF TypeInv, ChatTypeOK, Globals, Local
<1> QED
  BY <1>1, <1>2

LEMMA HeardStays == ASSUME Globals, DOMAIN rows \subseteq DOMAIN rows'
                    PROVE  heard \in [Requests -> SUBSET DOMAIN rows']
BY DEF Globals

LEMMA TaskTypes ==
  ASSUME TypeInv, StoreInv, DOMAIN rows \subseteq DOMAIN rows', NEW r \in Requests, LoopFree,
         TaskStep(r)
  PROVE  TypeInv'
<1> USE DEF Goes, Place, CallType, traceVars, storeVars
<1>0. /\ Globals /\ Local(r) /\ ~Saving(r) /\ r \in Writers /\ Requests \subseteq Writers
      /\ NoCall \in CallType /\ NoCall.parts = 0 /\ case.parts \in Nat
      /\ save \in [Writers -> SaveState] /\ heard \in [Requests -> SUBSET DOMAIN rows']
  BY TypeParts, HeardStays, ChatAssumption, CaseFacts
     DEF LoopFree, NoCall, Globals, StoreInv, StoreTypes
<1>1. CASE StartTask(r)
  <2>1. Apart(r) /\ UNCHANGED case
    BY <1>0, <1>1 DEF Apart, Globals, StartTask, AskToSave, Ends
  <2>2. Globals'
    BY <1>0, <1>1 DEF Globals, StartTask, AskToSave, Ends
  <2>3. Local(r)'
    BY <1>0, <1>1 DEF Globals, Local, Saving, NoProvider, StartTask, AskToSave, Ends
  <2> QED
    BY <2>1, <2>2, <2>3, OneMoves
<1>2. CASE BeginRun(r)
  <2>1. Apart(r) /\ UNCHANGED case
    BY <1>0, <1>2 DEF Apart, Globals, BeginRun, TraceStarts, RunStatus
  <2>2. Globals'
    BY <1>0, <1>2 DEF Globals, BeginRun, TraceStarts, RunStatus
  <2>3. Local(r)'
    BY <1>0, <1>2 DEF Globals, Local, Saving, NoProvider, BeginRun, TraceStarts, RunStatus
  <2> QED
    BY <2>1, <2>2, <2>3, OneMoves
<1>3. CASE StartTurn(r)
  <2>0. /\ provider[r] \in Registered /\ ProviderOrder(provider[r]) \in Seq(Registered)
        /\ 1 \in DOMAIN ProviderOrder(provider[r])
    BY <1>0, <1>3, OrderType DEF Local, NoProvider, StartTurn
  <2>1. Apart(r) /\ UNCHANGED case
    BY <1>0, <1>3 DEF Apart, Globals, StartTurn, OpenStream, PendingFor
  <2>4. /\ call' \in [Requests -> CallType] /\ heard' \in [Requests -> SUBSET DOMAIN rows']
        /\ at' \in [Requests -> Place]
    <3>1. PendingFor(r) \subseteq DOMAIN rows'
      BY DEF PendingFor
    <3>3. call' = call \/ OpenStream(r, provider[r])
      BY <1>3 DEF StartTurn
    <3>4. call' \in [Requests -> CallType]
      BY <1>0, <2>0, <3>3, OpenStreamType DEF Globals
    <3>5. heard' \in [Requests -> SUBSET DOMAIN rows']
      BY <1>0, <1>3, <3>1 DEF StartTurn
    <3>6. at' \in [Requests -> Place]
      BY <1>0, <1>3 DEF Globals, StartTurn
    <3> QED
      BY <3>4, <3>5, <3>6
  <2>2. Globals'
    BY <1>0, <1>3, <2>4 DEF Globals, StartTurn
  <2>3. Local(r)'
    BY <1>0, <1>3, <2>0
       DEF Globals, Local, Saving, NoProvider, StartTurn, OpenStream, PendingFor
  <2> QED
    BY <2>1, <2>2, <2>3, OneMoves
<1>4. CASE Compact(r)
  <2>0. /\ provider[r] \in Registered /\ ProviderOrder(provider[r]) \in Seq(Registered)
        /\ 1 \in DOMAIN ProviderOrder(provider[r])
    BY <1>0, <1>4, OrderType DEF Local, NoProvider, Compact
  <2>1. Apart(r) /\ UNCHANGED case
    BY <1>0, <1>4 DEF Apart, Globals, Compact, OpenStream, streamVars
  <2>2. Globals'
    BY <1>0, <1>4, <2>0 DEF Globals, Compact, OpenStream, streamVars
  <2>3. Local(r)'
    BY <1>0, <1>4, <2>0 DEF Globals, Local, Saving, NoProvider, Compact, OpenStream, streamVars
  <2> QED
    BY <2>1, <2>2, <2>3, OneMoves
<1>5. CASE StreamText(r)
  <2>1. Apart(r) /\ UNCHANGED case
    BY <1>0, <1>5 DEF Apart, Globals, StreamText, Emit, requestVars
  <2>0. call[r] \in CallType
    BY <1>0 DEF Globals
  <2>2. Globals'
    <3>1. [call[r] EXCEPT !.parts = call[r].parts + 1] \in CallType
      BY <2>0
    <3>2. call' \in [Requests -> CallType]
      BY <1>0, <1>5, <3>1 DEF Globals, StreamText, Emit
    <3> QED
      BY <1>0, <1>5, <3>2 DEF Globals, StreamText, requestVars
  <2>3. Local(r)'
    BY <1>0, <1>5 DEF Globals, Local, Saving, NoProvider, StreamText, Emit, requestVars
  <2> QED
    BY <2>1, <2>2, <2>3, OneMoves
<1>6. CASE FinishAnswer(r)
  <2>1. Apart(r) /\ UNCHANGED case
    BY <1>0, <1>6 DEF Apart, Globals, FinishAnswer, CloseStream
  <2>2. Globals'
    BY <1>0, <1>6, AnswerType DEF Globals, FinishAnswer, CloseStream
  <2>3. Local(r)'
    BY <1>0, <1>6, AnswerType DEF Globals, Local, Saving, NoProvider, FinishAnswer, CloseStream
  <2> QED
    BY <2>1, <2>2, <2>3, OneMoves
<1>7. CASE ProviderFails(r)
  <2>1. Apart(r) /\ UNCHANGED case
    BY <1>0, <1>7 DEF Apart, Globals, ProviderFails, FallBack, Raises, CloseStream, requestVars
  <2>2. CASE \E error \in case.errors : FallBack(r, error) /\ UNCHANGED <<requestVars, streamVars>>
    <3>1. call \in [Requests -> CallType] /\ call[r].next \in DOMAIN call[r].order
      BY <1>0, <1>7 DEF Globals, Local, ProviderFails
    <3>2. /\ call' \in [Requests -> CallType] /\ call'[r].parts = 0
          /\ call'[r].next \in DOMAIN call'[r].order
      BY <2>2, <3>1, FallBackType
    <3>7. Globals'
      BY <1>0, <1>7, <2>2, <3>2 DEF Globals, ProviderFails, requestVars
    <3>8. Local(r)'
      BY <1>0, <1>7, <2>2, <3>2 DEF Local, Saving, ProviderFails, requestVars
    <3> QED
      BY <2>1, <3>7, <3>8, OneMoves
  <2>3. CASE CloseStream(r) /\ Goes(r, "finalize") /\ ~ UNCHANGED requestVars
    <3>1. Globals'
      BY <1>0, <1>7, <2>3 DEF Globals, ProviderFails, CloseStream
    <3>2. Local(r)'
      BY <1>0, <1>7, <2>3 DEF Globals, Local, Saving, NoProvider, ProviderFails, CloseStream
    <3> QED
      BY <2>1, <3>1, <3>2, OneMoves
  <2> QED
    BY <1>0, <1>7, <2>2, <2>3 DEF ProviderFails, requestVars, Globals
<1>8. CASE Route(r)
  <2>1. Apart(r) /\ UNCHANGED case
    BY <1>0, <1>8 DEF Apart, Globals, Route
  <2>2. Globals'
    BY <1>0, <1>8 DEF Globals, Route
  <2>3. Local(r)'
    BY <1>0, <1>8 DEF Globals, Local, Saving, NoProvider, Route
  <2> QED
    BY <2>1, <2>2, <2>3, OneMoves
<1>9. CASE RunTools(r)
  <2>1. Apart(r) /\ UNCHANGED case
    BY <1>0, <1>9 DEF Apart, Globals, RunTools
  <2>2. Globals'
    BY <1>0, <1>9 DEF Globals, RunTools
  <2>3. Local(r)'
    BY <1>0, <1>9 DEF Globals, Local, Saving, NoProvider, RunTools
  <2> QED
    BY <2>1, <2>2, <2>3, OneMoves
<1>10. CASE GraphRaises(r)
  <2>1. Apart(r) /\ UNCHANGED case
    BY <1>0, <1>10 DEF Apart, Globals, GraphRaises, FailRun, Updated, TraceEnds, Ends, RunStatus
  <2>2. Globals'
    BY <1>0, <1>10 DEF Globals, GraphRaises, FailRun, Updated, TraceEnds, Ends, RunStatus
  <2>3. Local(r)'
    BY <1>0, <1>10
       DEF Globals, Local, Saving, NoProvider, GraphRaises, FailRun, Updated, TraceEnds,
           Ends, RunStatus
  <2> QED
    BY <2>1, <2>2, <2>3, OneMoves
<1>11. CASE Finalize(r)
  <2>1. Apart(r) /\ UNCHANGED case
    BY <1>0, <1>11
       DEF Apart, Globals, Finalize, FailRun, Updated, TraceEnds, Ends, RunStatus, AskToSave,
           Idle
  <2>2. Globals'
    BY <1>0, <1>11
       DEF Globals, Finalize, FailRun, Updated, TraceEnds, Ends, RunStatus, AskToSave, Idle
  <2>3. Local(r)'
    BY <1>0, <1>11
       DEF Globals, Local, Saving, NoProvider, Finalize, FailRun, Updated, TraceEnds, Ends,
           RunStatus, AskToSave, Idle
  <2> QED
    BY <2>1, <2>2, <2>3, OneMoves
<1>12. CASE Complete(r)
  <2>1. Apart(r) /\ UNCHANGED case
    BY <1>0, <1>12 DEF Apart, Globals, Complete, TraceEnds, Ends
  <2>2. Globals'
    BY <1>0, <1>12 DEF Globals, Complete, TraceEnds, Ends
  <2>3. Local(r)'
    BY <1>0, <1>12 DEF Globals, Local, Saving, NoProvider, Complete, TraceEnds, Ends
  <2> QED
    BY <2>1, <2>2, <2>3, OneMoves
<1>13. CASE MakeTitle(r)
  <2>1. Apart(r) /\ UNCHANGED case
    BY <1>0, <1>13 DEF Apart, Globals, MakeTitle, Ends
  <2>2. Globals'
    BY <1>0, <1>13 DEF Globals, MakeTitle, Ends
  <2>3. Local(r)'
    BY <1>0, <1>13 DEF Globals, Local, Saving, NoProvider, MakeTitle, Ends
  <2> QED
    BY <2>1, <2>2, <2>3, OneMoves
<1> QED
  BY <1>1, <1>2, <1>3, <1>4, <1>5, <1>6, <1>7, <1>8, <1>9, <1>10, <1>11, <1>12, <1>13
     DEF TaskStep

\* The request and its browser.
LEMMA BrowserTypes ==
  ASSUME TypeInv, StoreInv, NEW r \in Requests, BrowserStep(r) \/ CloseRun(r) PROVE TypeInv'
<1> USE DEF Goes, traceVars, storeVars
<1>0. /\ Globals /\ Local(r) /\ case.providers \subseteq Registered /\ case.closes \subseteq Closed
      /\ r \in Writers /\ Requests \subseteq Writers
  BY TypeParts, ChatAssumption, CaseFacts DEF Globals
<1>1. UNCHANGED <<case, rows, call, save, answer>>
  BY DEF BrowserStep, Arrive, StartStream, BrowserLeaves, BrowserReads, CloseRun, requestVars
<1>2. Apart(r)
  BY <1>0
     DEF BrowserStep, Arrive, StartStream, BrowserLeaves, BrowserReads, CloseRun,
         requestVars,
              Apart, Globals
<1>3. Globals'
  <2>1. CASE Arrive(r)
    BY <1>0, <1>1, <2>1 DEF Arrive, Globals, Place
  <2>2. CASE StartStream(r)
    BY <1>0, <1>1, <2>2 DEF StartStream, Globals, Place
  <2>3. CASE BrowserLeaves(r)
    BY <1>0, <1>1, <2>3 DEF BrowserLeaves, Globals, Place
  <2>4. CASE BrowserReads(r)
    BY <1>0, <1>1, <2>4 DEF BrowserReads, Globals, requestVars
  <2>5. CASE CloseRun(r)
    BY <1>0, <1>1, <2>5 DEF CloseRun, Globals, RunStatus, Closed
  <2> QED
    BY <2>1, <2>2, <2>3, <2>4, <2>5 DEF BrowserStep
<1>4. Local(r)'
  <2>1. CASE Arrive(r)
    BY <1>0, <1>1, <2>1 DEF Arrive, Globals, Local, Saving, NoProvider
  <2>2. CASE StartStream(r)
    BY <1>0, <1>1, <2>2 DEF StartStream, Globals, Local, Saving, NoProvider
  <2>3. CASE BrowserLeaves(r)
    BY <1>0, <1>1, <2>3 DEF BrowserLeaves, Globals, Local, Saving, NoProvider
  <2>4. CASE BrowserReads(r)
    BY <1>0, <1>1, <2>4 DEF BrowserReads, Local, Saving, requestVars
  <2>5. CASE CloseRun(r)
    BY <1>0, <1>1, <2>5 DEF CloseRun, Local, Saving
  <2> QED
    BY <2>1, <2>2, <2>3, <2>4, <2>5 DEF BrowserStep
<1> QED
  BY <1>1, <1>2, <1>3, <1>4, OneMoves

LEMMA TypesNext == ASSUME TypeInv, StoreInv, [ChatNext]_chatVars PROVE TypeInv'
<1>1. DOMAIN rows \subseteq DOMAIN rows'
  BY RowsStay
<1>2. ASSUME NEW r \in Requests, OnLoop(r) PROVE TypeInv'
  BY <1>1, <1>2, TaskTypes DEF OnLoop
<1>3. ASSUME NEW r \in Requests, BrowserStep(r) \/ CloseRun(r) PROVE TypeInv'
  BY <1>3, BrowserTypes
<1>4. ASSUME UNCHANGED <<requestVars, traceVars, call>>,
             \A q \in Requests : Saving(q)' => Saving(q)
      PROVE  TypeInv'
  <2>1. Globals'
    BY <1>1, <1>4, TypeParts, HeardStays DEF Globals, requestVars, traceVars
  <2>2. ASSUME NEW q \in Requests PROVE Local(q)'
    BY <1>4, TypeParts DEF Local, requestVars, traceVars
  <2> QED
    BY <2>1, <2>2 DEF TypeInv, ChatTypeOK, Globals, Local
<1>5. ASSUME NEW t \in Threads, NEW r \in Requests, PostIntervention(t, r) PROVE TypeInv'
  <2>1. \A q \in Requests : q \in Writers /\ q # t
    BY ChatAssumption
  <2>2. \A q \in Requests : Saving(q)' => Saving(q)
    BY <1>5, <2>1 DEF PostIntervention, AskToSave, Saving, StoreInv, StoreTypes
  <2> QED
    BY <1>4, <1>5, <2>2 DEF PostIntervention
<1>6. ASSUME NEW w \in Writers, SaveMessage(w) PROVE TypeInv'
  <2>1. \A q \in Requests : q \in Writers
    BY ChatAssumption
  <2>2. \A q \in Requests : Saving(q)' => Saving(q)
    BY <1>6, <2>1
       DEF SaveMessage, Statement, AcquireLock, ReadMax, Insert, Saving, StoreInv, StoreTypes
  <2> QED
    BY <1>4, <1>6, <2>2 DEF SaveMessage
<1>7. CASE UNCHANGED chatVars
  BY <1>4, <1>7 DEF chatVars, storeVars, Saving
<1> QED
  BY <1>2, <1>3, <1>5, <1>6, <1>7 DEF ChatNext

LEMMA TypesStart == ChatInit => TypeInv
<1> SUFFICES ASSUME ChatInit PROVE TypeInv
  OBVIOUS
<1>1. NoCall \in CallType /\ NoAnswer \in Answer /\ NoCall.parts = 0 /\ NoAnswer.parts = 0
  BY DEF NoCall, CallType, NoAnswer, Answer
<1>2. Globals
  BY <1>1 DEF Globals, ChatInit, GatewayInit, Place, RunStatus
<1>3. ASSUME NEW q \in Requests PROVE Local(q)
  <2>1. q \in Writers
    BY ChatAssumption
  <2> QED
    BY <1>1, <2>1, CaseFacts
       DEF Local, ChatInit, GatewayInit, StoreInit, Saving, Idle, NoProvider
<1> QED
  BY <1>2, <1>3, TypeParts

(***************************************************************************)
(* The variables of the requests keep their types: a request waits for a   *)
(* provider exactly while it streams, that provider is on its list, and a  *)
(* message is being saved only at the two places that wait for it.         *)
(***************************************************************************)
THEOREM ChatTypesHold == ChatSpec => []ChatTypeOK
<1>1. TypeInv => ChatTypeOK
  BY DEF TypeInv
<1>2. ChatInit => StoreInv /\ TypeInv
  BY StoreStart, TypesStart
<1>3. StoreInv /\ TypeInv /\ [ChatNext]_chatVars => (StoreInv /\ TypeInv)'
  BY StoreNext, TypesNext
<1> QED
  BY <1>1, <1>2, <1>3, PTL DEF ChatSpec
-----------------------------------------------------------------------------
(***************************************************************************)
(* Sums and compaction.                                                    *)
(***************************************************************************)

\* Induction over a set of numbers, by the well-foundedness of < on Nat.
LEMMA NatSets == ASSUME NEW T, T \subseteq Nat, 0 \in T, \A n \in T : n + 1 \in T
                 PROVE  T = Nat
<1> DEFINE R == {p \in Nat \X Nat : p[1] < p[2]}
           U == Nat \ T
<1>1. IsWellFoundedOn(R, Nat)
  BY NatLessThanWellFounded DEF OpToRel
<1>2. ASSUME NEW m \in Nat, NEW n \in Nat, m < n PROVE <<m, n>> \in R
  <2>1. <<m, n>> \in Nat \X Nat /\ <<m, n>>[1] = m /\ <<m, n>>[2] = n
    OBVIOUS
  <2> QED
    BY <1>2, <2>1
<1> HIDE DEF R
<1> SUFFICES ASSUME U # {} PROVE FALSE
  OBVIOUS
<1>3. U \subseteq Nat
  OBVIOUS
<1>4. PICK n \in U : \A m \in U : ~ (<<m, n>> \in R)
  <2> HIDE DEF R, U
  <2> QED
    BY <1>1, <1>3, WFMin
<1>5. n \in Nat /\ n # 0
  BY <1>3, <1>4
<1>7. n - 1 \in Nat /\ n - 1 < n
  BY <1>5
<1>6. n - 1 \notin U
  BY <1>2, <1>4, <1>5, <1>7
<1>8. n - 1 + 1 = n
  BY <1>5
<1> QED
  BY <1>4, <1>5, <1>6, <1>7, <1>8

\* A set of numbers below a bound has a maximum, which is what Max chooses.
LEMMA MaxOf == ASSUME NEW b \in Nat, NEW S, S \subseteq 0 .. b, S # {}
               PROVE  Max(S) \in S /\ \A x \in S : Max(S) >= x
<1> DEFINE T == {n \in Nat : \A U \in SUBSET (0 .. n) : U # {} => \E x \in U : \A y \in U : x >= y}
<1>1. 0 \in T
  <2>1. \A U \in SUBSET (0 .. 0) : U # {} => \E x \in U : \A y \in U : x >= y
    <3>1. 0 .. 0 = {0}
      OBVIOUS
    <3>2. 0 >= 0
      OBVIOUS
    <3> QED
      BY <3>1, <3>2
  <2> QED
    BY <2>1
<1>2. ASSUME NEW n \in T PROVE n + 1 \in T
  <2> SUFFICES ASSUME NEW U \in SUBSET (0 .. n + 1), U # {}
               PROVE  \E x \in U : \A y \in U : x >= y
    OBVIOUS
  <2>1. CASE n + 1 \in U
    BY <2>1
  <2>2. CASE n + 1 \notin U
    BY <2>2
  <2> QED
    BY <2>1, <2>2
<1> HIDE DEF T
<1>3. T \subseteq Nat
  BY DEF T
<1>4. T = Nat
  BY <1>1, <1>2, <1>3, NatSets
<1>5. \E x \in S : \A y \in S : x >= y
  BY <1>4 DEF T
<1> QED
  BY <1>5 DEF Max

\* Every set of numbers has a minimum.
LEMMA MinOf == ASSUME NEW S, S \subseteq Nat, S # {}
               PROVE  Min(S) \in S /\ \A x \in S : Min(S) <= x
<1> DEFINE T == {n \in Nat : \A m \in 0 .. n : m \notin S}
<1>1. T \subseteq Nat
  OBVIOUS
<1>2. \E x \in S : \A y \in S : x <= y
  <2> SUFFICES ASSUME \A x \in S : \E y \in S : y < x PROVE FALSE
    BY <1>1
  <2>1. 0 \in T
    BY <1>1
  <2>2. \A n \in T : n + 1 \in T
    BY <1>1
  <2> HIDE DEF T
  <2>3. T = Nat
    BY <1>1, <2>1, <2>2, NatSets
  <2>4. PICK x \in S : TRUE
    OBVIOUS
  <2>5. x \in T /\ x \in 0 .. x
    BY <2>3, <2>4
  <2> QED
    BY <2>4, <2>5 DEF T
<1> QED
  BY <1>2 DEF Min

\* InOrder lists the elements of a set of numbers: each rank has its element.
LEMMA Ordered == ASSUME NEW b \in Nat, NEW S, S \subseteq 1 .. b
                 PROVE  /\ IsFiniteSet(S) /\ Cardinality(S) \in Nat
                        /\ InOrder(S) \in [1 .. Cardinality(S) -> S]
<1> DEFINE Nth(U, k) == \E x \in U : Cardinality({y \in U : y < x}) = k - 1
           T == {n \in Nat : \A U \in SUBSET (1 .. n) :
                   \A k \in 1 .. Cardinality(U) : Nth(U, k)}
<1>1. 0 \in T
  <2>1. \A U \in SUBSET (1 .. 0) : U = {}
    OBVIOUS
  <2> QED
    BY <2>1, FS_EmptySet
<1>2. ASSUME NEW n \in T PROVE n + 1 \in T
  <2> SUFFICES ASSUME NEW U \in SUBSET (1 .. n + 1), NEW k \in 1 .. Cardinality(U)
               PROVE  Nth(U, k)
    OBVIOUS
  <2>0. n \in Nat
    OBVIOUS
  <2>1. CASE n + 1 \notin U
    <3>1. U \in SUBSET (1 .. n)
      BY <2>1
    <3> QED
      BY <3>1
  <2>2. CASE n + 1 \in U
    <3> DEFINE V == U \ {n + 1}
    <3>1. V \in SUBSET (1 .. n)
      OBVIOUS
    <3>2. IsFiniteSet(V) /\ Cardinality(V) \in Nat
      <4>1. IsFiniteSet(1 .. n)
        BY <2>0, FS_Interval
      <4> QED
        BY <3>1, <4>1, FS_Subset, FS_CardinalityType
    <3>3. U = V \cup {n + 1} /\ n + 1 \notin V
      BY <2>2
    <3>4. Cardinality(U) = Cardinality(V) + 1
      BY <3>2, <3>3, FS_AddElement
    <3>5. CASE k = Cardinality(U)
      <4>0. \A y \in U : y \in Nat /\ y <= n + 1
        BY <2>0
      <4>1. \A y \in U : y < n + 1 <=> y # n + 1
        BY <2>0, <4>0
      <4>2. {y \in U : y < n + 1} = V
        BY <4>1
      <4> HIDE DEF V
      <4>3. Cardinality(V) = k - 1
        BY <3>2, <3>4, <3>5
      <4>4. Cardinality({y \in U : y < n + 1}) = k - 1
        BY <4>2, <4>3
      <4> QED
        BY <2>2, <4>4
    <3>6. CASE k # Cardinality(U)
      <4>1. k \in 1 .. Cardinality(V)
        BY <3>2, <3>4, <3>6
      <4>2. PICK x \in V : Cardinality({y \in V : y < x}) = k - 1
        BY <3>1, <4>1
      <4>3. {y \in U : y < x} = {y \in V : y < x}
        BY <3>1, <3>3
      <4> QED
        BY <4>2, <4>3
    <3> QED
      BY <3>5, <3>6
  <2> QED
    BY <2>1, <2>2
<1> HIDE DEF T
<1>3. T = Nat
  BY <1>1, <1>2, NatSets DEF T
<1>4. \A k \in 1 .. Cardinality(S) : Nth(S, k)
  BY <1>3 DEF T
<1>5. IsFiniteSet(S) /\ Cardinality(S) \in Nat
  <2>1. IsFiniteSet(1 .. b)
    BY FS_Interval
  <2> QED
    BY <2>1, FS_Subset, FS_CardinalityType
<1> QED
  BY <1>4, <1>5 DEF InOrder
-----------------------------------------------------------------------------
\* A message with a size.
Sized == [role : {"user", "assistant", "call", "tool", "system"}, size : Nat \ {0}]

\* What MapThenFoldSet of Tokens folds over subsets of 1 .. k.
Adds(s, k, iter) ==
  iter = [S \in SUBSET (1 .. k) |->
            IF S = {} THEN 0 ELSE iter[S \ {Max(S)}] + s[Max(S)].size]

LEMMA MaxOfUpTo == ASSUME NEW n \in Nat, NEW S \in SUBSET (1 .. n + 1), n + 1 \in S
                   PROVE  Max(S) = n + 1
<1>1. S \subseteq 0 .. n + 1 /\ S # {}
  OBVIOUS
<1>2. n + 1 \in Nat
  OBVIOUS
<1>3. Max(S) \in S /\ \A x \in S : Max(S) >= x
  BY <1>1, <1>2, MaxOf
<1>4. Max(S) >= n + 1 /\ Max(S) \in 1 .. n + 1
  BY <1>3
<1> QED
  BY <1>4

\* The function that MapThenFoldSet chooses exists.
LEMMA FoldExists == ASSUME NEW s PROVE \A n \in Nat : \E iter : Adds(s, n, iter)
<1> DEFINE T == {n \in Nat : \E iter : Adds(s, n, iter)}
<1>1. 0 \in T
  <2> DEFINE g == [S \in SUBSET (1 .. 0) |-> 0]
  <2>1. \A S \in SUBSET (1 .. 0) : S = {}
    OBVIOUS
  <2>2. Adds(s, 0, g)
    BY <2>1 DEF Adds
  <2> QED
    BY <2>2
<1>2. ASSUME NEW n \in T PROVE n + 1 \in T
  <2>0. n \in Nat
    OBVIOUS
  <2>1. PICK g : Adds(s, n, g)
    OBVIOUS
  <2> DEFINE h == [S \in SUBSET (1 .. n + 1) |->
                     IF n + 1 \in S THEN g[S \ {n + 1}] + s[n + 1].size ELSE g[S]]
             Value(S) == IF S = {} THEN 0 ELSE h[S \ {Max(S)}] + s[Max(S)].size
  <2>2. ASSUME NEW S \in SUBSET (1 .. n + 1) PROVE h[S] = Value(S)
    <3>1. CASE n + 1 \in S
      <4>1. Max(S) = n + 1
        BY <2>0, <3>1, MaxOfUpTo
      <4>2. S \ {n + 1} \in SUBSET (1 .. n + 1) /\ n + 1 \notin S \ {n + 1} /\ S # {}
        BY <3>1
      <4>3. h[S \ {n + 1}] = g[S \ {n + 1}]
        BY <4>2
      <4> QED
        BY <3>1, <4>1, <4>2, <4>3
    <3>2. CASE n + 1 \notin S
      <4>1. S \in SUBSET (1 .. n)
        BY <2>0, <3>2
      <4>2. g[S] = IF S = {} THEN 0 ELSE g[S \ {Max(S)}] + s[Max(S)].size
        BY <2>1, <4>1 DEF Adds
      <4>3. S \ {Max(S)} \in SUBSET (1 .. n + 1) /\ n + 1 \notin S \ {Max(S)}
        BY <3>2
      <4>4. h[S] = g[S] /\ h[S \ {Max(S)}] = g[S \ {Max(S)}]
        BY <3>2, <4>3
      <4> QED
        BY <4>2, <4>4
    <3> QED
      BY <3>1, <3>2
  <2>3. Adds(s, n + 1, h)
    <3>1. h = [S \in SUBSET (1 .. n + 1) |-> h[S]]
      OBVIOUS
    <3> HIDE DEF h
    <3>2. h = [S \in SUBSET (1 .. n + 1) |-> Value(S)]
      BY <2>2, <3>1
    <3> QED
      BY <3>2 DEF Adds
  <2> QED
    BY <2>0, <2>3
<1> HIDE DEF T
<1>3. T = Nat
  BY <1>1, <1>2, NatSets DEF T
<1> QED
  BY <1>3 DEF T

\* p[k] is what the first k messages have together.
Sums(s, p) ==
  /\ p \in [0 .. Len(s) -> Nat] /\ p[0] = 0
  /\ \A k \in 1 .. Len(s) : p[k] = p[k - 1] + s[k].size

\* Tokens adds the sizes up.
LEMMA TokensAreSums == ASSUME NEW s \in Seq(Sized)
                       PROVE  \E p : Sums(s, p) /\ Tokens(s) = p[Len(s)]
<1> DEFINE L == Len(s)
           iter == CHOOSE iter : Adds(s, L, iter)
<1>1. L \in Nat /\ DOMAIN s = 1 .. L
  OBVIOUS
<1>2. Adds(s, L, iter)
  BY <1>1, FoldExists
<1>3. Tokens(s) = iter[1 .. L]
  BY <1>1 DEF Tokens, FoldLeft, MapThenFoldSet, Adds
<1> DEFINE p == [k \in 0 .. L |-> iter[1 .. k]]
           Q == {k \in Nat : k <= L => p[k] \in Nat}
<1> HIDE DEF iter
<1>4. p[0] = 0
  <2>1. 1 .. 0 = {} /\ 1 .. 0 \in SUBSET (1 .. L)
    OBVIOUS
  <2>2. iter[1 .. 0] = 0
    BY <1>2, <2>1 DEF Adds
  <2> QED
    BY <1>1, <2>2
<1>5. ASSUME NEW k \in 1 .. L PROVE p[k] = p[k - 1] + s[k].size
  <2>1. k \in Nat /\ k - 1 \in Nat /\ k - 1 + 1 = k /\ k \in 0 .. L /\ k - 1 \in 0 .. L
    BY <1>1
  <2>2. Max(1 .. k) = k
    <3>1. 1 .. k \subseteq 0 .. k /\ k \in 1 .. k
      BY <2>1
    <3>2. Max(1 .. k) \in 1 .. k /\ Max(1 .. k) >= k
      BY <2>1, <3>1, MaxOf
    <3> QED
      BY <2>1, <3>2
  <2>3. (1 .. k) \ {k} = 1 .. (k - 1)
    BY <2>1
  <2>4. 1 .. k \in SUBSET (1 .. L) /\ 1 .. k # {}
    BY <1>1
  <2>5. iter[1 .. k] = iter[(1 .. k) \ {Max(1 .. k)}] + s[Max(1 .. k)].size
    BY <1>2, <2>4 DEF Adds
  <2> QED
    BY <2>1, <2>2, <2>3, <2>5
<1> HIDE DEF p
<1>6. Q = Nat
  <2>1. 0 \in Q
    BY <1>4
  <2>2. ASSUME NEW n \in Q PROVE n + 1 \in Q
    <3>1. n \in Nat /\ (n <= L => p[n] \in Nat)
      OBVIOUS
    <3> SUFFICES ASSUME n + 1 <= L PROVE p[n + 1] \in Nat
      BY <3>1
    <3>2. n + 1 \in 1 .. L /\ n + 1 - 1 = n /\ n <= L
      BY <1>1, <3>1
    <3>5. s[n + 1] \in Sized
      BY <1>1, <3>2
    <3>3. s[n + 1].size \in Nat
      BY <3>5 DEF Sized
    <3>4. p[n + 1] = p[n] + s[n + 1].size
      BY <1>5, <3>2
    <3> QED
      BY <3>1, <3>2, <3>3, <3>4
  <2> HIDE DEF Q
  <2> QED
    BY <2>1, <2>2, NatSets DEF Q
<1>7. p \in [0 .. L -> Nat]
  <2>1. p = [k \in 0 .. L |-> p[k]]
    BY DEF p
  <2>2. \A k \in 0 .. L : p[k] \in Nat
    BY <1>1, <1>6
  <2> QED
    BY <2>1, <2>2
<1>8. p[L] = iter[1 .. L]
  BY <1>1 DEF p
<1> QED
  BY <1>3, <1>4, <1>5, <1>7, <1>8 DEF Sums

\* Each message adds something.
LEMMA SumsGrow == ASSUME NEW s \in Seq(Sized), NEW p, Sums(s, p)
                  PROVE  \A k \in 0 .. Len(s) : p[k] >= k
<1> DEFINE T == {k \in Nat : k <= Len(s) => p[k] >= k}
<1>0. Len(s) \in Nat /\ DOMAIN s = 1 .. Len(s)
  OBVIOUS
<1>1. 0 \in T
  BY DEF Sums
<1>2. ASSUME NEW n \in T PROVE n + 1 \in T
  <2>1. n \in Nat /\ (n <= Len(s) => p[n] >= n)
    OBVIOUS
  <2> SUFFICES ASSUME n + 1 <= Len(s) PROVE p[n + 1] >= n + 1
    BY <2>1
  <2>2. n + 1 \in 1 .. Len(s) /\ n \in 0 .. Len(s) /\ n + 1 - 1 = n
    BY <1>0, <2>1
  <2>3. s[n + 1] \in Sized
    BY <1>0, <2>2
  <2>4. s[n + 1].size \in Nat \ {0}
    BY <2>3 DEF Sized
  <2>5. p[n + 1] = p[n] + s[n + 1].size /\ p[n] \in Nat
    BY <2>2 DEF Sums
  <2> QED
    BY <1>0, <2>1, <2>2, <2>4, <2>5
<1> HIDE DEF T
<1>3. T = Nat
  BY <1>1, <1>2, NatSets DEF T
<1> QED
  BY <1>0, <1>3 DEF T

\* The last n elements.
LEMMA LastNType == ASSUME NEW S, NEW s \in Seq(S), NEW n \in 0 .. Len(s)
                   PROVE  /\ LastN(s, n) \in Seq(S) /\ Len(LastN(s, n)) = n
                          /\ \A k \in 1 .. n : LastN(s, n)[k] = s[Len(s) - n + k]
BY DEF LastN

\* What was dropped is what the sums differ in.
LEMMA SuffixSums ==
  ASSUME NEW s \in Seq(Sized), NEW n \in 0 .. Len(s), NEW p, Sums(s, p),
         NEW q, Sums(LastN(s, n), q)
  PROVE  q[n] = p[Len(s)] - p[Len(s) - n]
<1> DEFINE d == Len(s) - n
           u == LastN(s, n)
           T == {k \in Nat : k <= n => q[k] = p[k + d] - p[d]}
<1>0. Len(s) \in Nat /\ n \in Nat /\ d \in Nat /\ n + d = Len(s) /\ Len(u) = n
  BY LastNType
<1>1. 0 \in T
  <2>1. d \in 0 .. Len(s) /\ 0 + d = d
    BY <1>0
  <2>2. p[d] \in Nat /\ q[0] = 0
    BY <2>1 DEF Sums
  <2> QED
    BY <2>1, <2>2
<1> HIDE DEF d
<1>2. ASSUME NEW k \in T PROVE k + 1 \in T
  <2>1. k \in Nat /\ (k <= n => q[k] = p[k + d] - p[d])
    OBVIOUS
  <2> SUFFICES ASSUME k + 1 <= n PROVE q[k + 1] = p[k + 1 + d] - p[d]
    BY <2>1
  <2>2. /\ k + 1 \in 1 .. n /\ k \in 0 .. n /\ k + 1 - 1 = k
        /\ k + 1 + d \in 1 .. Len(s) /\ k + d \in 0 .. Len(s) /\ k + 1 + d - 1 = k + d
        /\ d \in 0 .. Len(s)
    BY <1>0, <2>1
  <2>3. u[k + 1] = s[k + 1 + d]
    <3>1. u[k + 1] = s[Len(s) - n + (k + 1)]
      BY <2>2, LastNType
    <3>2. Len(s) - n + (k + 1) = k + 1 + d
      BY <1>0, <2>1 DEF d
    <3> QED
      BY <3>1, <3>2
  <2>4. s[k + 1 + d] \in Sized
    BY <2>2
  <2>5. s[k + 1 + d].size \in Nat
    BY <2>4 DEF Sized
  <2>6. q[k + 1] = q[k] + s[k + 1 + d].size
    BY <1>0, <2>2, <2>3 DEF Sums
  <2>7. p[k + 1 + d] = p[k + d] + s[k + 1 + d].size
    BY <2>2 DEF Sums
  <2>8. p[k + d] \in Nat /\ p[d] \in Nat
    BY <2>2 DEF Sums
  <2> QED
    BY <2>1, <2>5, <2>6, <2>7, <2>8
<1> HIDE DEF T
<1>3. T = Nat
  BY <1>1, <1>2, NatSets DEF T
<1> QED
  BY <1>0, <1>3 DEF T, d

(***************************************************************************)
(* The end of a context is smaller than the context.                       *)
(***************************************************************************)
LEMMA LessIsLess == ASSUME NEW s \in Seq(Sized), NEW n \in 0 .. Len(s)
                    PROVE  /\ Tokens(s) \in Nat /\ Tokens(LastN(s, n)) \in Nat
                           /\ n < Len(s) => Tokens(LastN(s, n)) < Tokens(s)
<1>1. Len(s) \in Nat /\ LastN(s, n) \in Seq(Sized) /\ Len(LastN(s, n)) = n
  BY LastNType
<1>2. PICK p : Sums(s, p) /\ Tokens(s) = p[Len(s)]
  BY TokensAreSums
<1>3. PICK q : Sums(LastN(s, n), q) /\ Tokens(LastN(s, n)) = q[n]
  BY <1>1, TokensAreSums
<1>4. q[n] = p[Len(s)] - p[Len(s) - n]
  BY <1>2, <1>3, SuffixSums
<1>5. Len(s) - n \in 0 .. Len(s) /\ Len(s) \in 0 .. Len(s) /\ n \in 0 .. n
  BY <1>1
<1>6. p[Len(s)] \in Nat /\ p[Len(s) - n] \in Nat /\ q[n] \in Nat
  BY <1>1, <1>2, <1>3, <1>5 DEF Sums
<1>7. p[Len(s) - n] >= Len(s) - n
  BY <1>2, <1>5, SumsGrow
<1> QED
  BY <1>1, <1>2, <1>3, <1>4, <1>6, <1>7
-----------------------------------------------------------------------------
(***************************************************************************)
(* Compaction.                                                             *)
(***************************************************************************)
LEMMA RetainedIs ==
  ASSUME NEW messages \in Seq(Sized), Retained(messages) # <<>>
  PROVE  \E n \in 1 .. Len(messages) : /\ Retained(messages) = LastN(messages, n)
                                       /\ LastN(messages, n)[1].role = "user"
<1> DEFINE fits == TrimTo(messages, Max({1, Target - Fixed}))
           turn == FromUser(messages)
<1>0. Len(messages) \in Nat
  OBVIOUS
<1>1. fits \subseteq 1 .. Len(messages) /\ turn \subseteq 1 .. Len(messages)
  BY DEF TrimTo, FromUser
<1>2. \A n \in fits \cup turn : LastN(messages, n)[1].role = "user"
  BY DEF TrimTo, FromUser
<1>3. Retained(messages) = CASE fits # {} -> LastN(messages, Max(fits))
                             [] fits = {} /\ turn # {} -> LastN(messages, Min(turn))
                             [] OTHER -> <<>>
  BY DEF Retained
<1> HIDE DEF fits, turn
<1>4. CASE fits # {}
  <2>1. fits \subseteq 0 .. Len(messages)
    BY <1>0, <1>1
  <2>2. Max(fits) \in fits
    BY <1>0, <1>4, <2>1, MaxOf
  <2> QED
    BY <1>1, <1>2, <1>3, <1>4, <2>2
<1>5. CASE fits = {} /\ turn # {}
  <2>1. turn \subseteq Nat
    BY <1>0, <1>1
  <2>2. Min(turn) \in turn
    BY <1>5, <2>1, MinOf
  <2> QED
    BY <1>1, <1>2, <1>3, <1>5, <2>2
<1> QED
  BY <1>3, <1>4, <1>5

\* The summary stands before the messages that were retained.
LEMMA SummaryType ==
  ASSUME NEW size \in Nat, NEW retained \in Seq(Sized)
  PROVE  /\ WithSummary(size, retained) \in Seq(Sized)
         /\ Verbatim(WithSummary(size, retained)) = retained
<1> DEFINE head == [role |-> "system", size |-> Header + size]
<1>1. head \in Sized /\ head.role = "system"
  BY WindowAssumption DEF Sized
<1>2. WithSummary(size, retained) = <<head>> \o retained
  BY DEF WithSummary
<1> HIDE DEF head
<1>3. /\ <<head>> \o retained \in Seq(Sized) /\ (<<head>> \o retained)[1] = head
      /\ <<head>> \o retained # <<>> /\ Tail(<<head>> \o retained) = retained
  BY <1>1
<1> QED
  BY <1>1, <1>2, <1>3 DEF Verbatim

\* The summary is cut to one of the lengths that meet the limit.
LEMMA FitIs ==
  ASSUME NEW size \in Nat, NEW retained \in Seq(Sized), NEW limit,
         Fitting(size, retained, limit) # {}
  PROVE  \E k \in Nat : /\ Fit(size, retained, limit) = WithSummary(k, retained)
                        /\ Estimate(WithSummary(k, retained)) <= limit
<1> DEFINE F == Fitting(size, retained, limit)
<1>1. \A k \in F : k \in 0 .. size + Notice /\ Estimate(WithSummary(k, retained)) <= limit
  BY WindowAssumption DEF Fitting
<1>2. size + Notice \in Nat
  BY WindowAssumption
<1>3. Fit(size, retained, limit) = IF size \in F THEN WithSummary(size, retained)
                                   ELSE WithSummary(Max(F \ {size}), retained)
  BY DEF Fit
<1> HIDE DEF F
<1>4. CASE size \in F
  BY <1>1, <1>3, <1>4
<1>5. CASE size \notin F
  <2>1. F \ {size} = F /\ F # {} /\ F \subseteq 0 .. size + Notice
    BY <1>1, <1>5 DEF F
  <2>2. Max(F) \in F
    BY <1>2, <2>1, MaxOf
  <2>3. Max(F) \in Nat /\ Estimate(WithSummary(Max(F), retained)) <= limit
    BY <1>1, <1>2, <2>2
  <2>4. Fit(size, retained, limit) = WithSummary(Max(F), retained)
    BY <1>3, <1>5, <2>1
  <2> QED
    BY <2>3, <2>4
<1> QED
  BY <1>4, <1>5

(***************************************************************************)
(* Whichever path compaction takes: the messages that were retained are    *)
(* kept word for word, and the result is smaller.                          *)
(***************************************************************************)
LEMMA Compaction ==
  ASSUME NEW messages \in Seq(Sized), \A i \in DOMAIN messages : messages[i].role # "system",
         Len(Retained(messages)) \in 1 .. Len(messages) - 1,
         NEW size \in Nat, NEW result \in {WithinBudget(messages, size), Retained(messages)}
  PROVE  /\ Verbatim(result) = Retained(messages)
         /\ Estimate(result) < Estimate(messages)
<1> DEFINE kept == Retained(messages)
           original == Estimate(messages)
<1>0. kept # <<>>
  OBVIOUS
<1>1. PICK n \in 1 .. Len(messages) : /\ kept = LastN(messages, n)
                                      /\ LastN(messages, n)[1].role = "user"
  BY <1>0, RetainedIs
<1>2. n \in 0 .. Len(messages) /\ n \in Nat
  OBVIOUS
<1>3. kept \in Seq(Sized) /\ Len(kept) = n /\ n < Len(messages)
  BY <1>1, <1>2, LastNType
<1>4. Tokens(messages) \in Nat /\ Tokens(kept) \in Nat /\ Tokens(kept) < Tokens(messages)
  BY <1>1, <1>2, <1>3, LessIsLess
<1>5. original \in Nat /\ Estimate(kept) \in Nat /\ Estimate(kept) < original
  BY <1>4, WindowAssumption DEF Estimate
<1>6. Verbatim(kept) = kept
  BY <1>1, <1>3 DEF Verbatim
<1> HIDE DEF kept, original
<1>7. ASSUME NEW k \in Nat, NEW limit \in Int, limit <= original - 1,
             Estimate(WithSummary(k, kept)) <= limit, result = WithSummary(k, kept)
      PROVE  Verbatim(result) = kept /\ Estimate(result) < original
  <2>1. WithSummary(k, kept) \in Seq(Sized) /\ Verbatim(result) = kept
    BY <1>3, <1>7, SummaryType
  <2>2. Tokens(WithSummary(k, kept)) \in Nat
    BY <2>1, LessIsLess
  <2>3. Estimate(WithSummary(k, kept)) \in Nat
    BY <2>2, WindowAssumption DEF Estimate
  <2> QED
    BY <1>5, <1>7, <2>1, <2>3
<1> DEFINE low == Min({Target, original - 1})
           Meets(limit) == Fitting(size, kept, limit) # {}
<1>8. low \in Int /\ low <= original - 1
  <2>1. Target \in Int /\ original - 1 \in Int
    BY <1>5, WindowAssumption
  <2>2. \E x \in {Target, original - 1} : \A y \in {Target, original - 1} : x <= y
    BY <2>1
  <2>3. low \in {Target, original - 1} /\ \A y \in {Target, original - 1} : low <= y
    BY <2>2 DEF Min
  <2> QED
    BY <2>1, <2>3
<1>9. WithinBudget(messages, size) = CASE Meets(low) -> Fit(size, kept, low)
                                       [] ~Meets(low) /\ Meets(original - 1) ->
                                            Fit(size, kept, original - 1)
                                       [] OTHER -> kept
  BY DEF WithinBudget, kept, original
<1> HIDE DEF low
<1>10. CASE result = kept
  BY <1>5, <1>6, <1>10 DEF kept, original
<1>11. CASE Meets(low) /\ result = Fit(size, kept, low)
  <2>1. PICK k \in Nat : result = WithSummary(k, kept) /\ Estimate(WithSummary(k, kept)) <= low
    BY <1>3, <1>11, FitIs
  <2> QED
    BY <1>7, <1>8, <2>1 DEF kept, original
<1>12. CASE Meets(original - 1) /\ result = Fit(size, kept, original - 1)
  <2>1. PICK k \in Nat : /\ result = WithSummary(k, kept)
                         /\ Estimate(WithSummary(k, kept)) <= original - 1
    BY <1>3, <1>12, FitIs
  <2>2. original - 1 \in Int /\ original - 1 <= original - 1
    BY <1>5
  <2> QED
    BY <1>7, <2>1, <2>2 DEF kept, original
<1>13. result = kept \/ result = WithinBudget(messages, size)
  BY DEF kept
<1> QED
  BY <1>9, <1>10, <1>11, <1>12, <1>13

\* The last n elements are a suffix.
LEMMA SuffixOf == ASSUME NEW S, NEW s \in Seq(S), NEW n \in 0 .. Len(s)
                  PROVE  IsSuffix(LastN(s, n), s) /\ IsSuffix(s, s)
<1> DEFINE u == LastN(s, n)
<1>1. /\ u \in Seq(S) /\ Len(u) = n /\ Len(s) \in Nat /\ n \in Nat
      /\ \A k \in 1 .. n : u[k] = s[Len(s) - n + k]
  BY LastNType
<1> HIDE DEF u
<1>2. /\ Reverse(u) = [i \in 1 .. n |-> u[n - i + 1]]
      /\ Reverse(s) = [i \in 1 .. Len(s) |-> s[Len(s) - i + 1]]
  BY <1>1 DEF Reverse
<1>3. \A i \in 1 .. n : u[n - i + 1] = s[Len(s) - i + 1]
  <2> TAKE i \in 1 .. n
  <2>1. n - i + 1 \in 1 .. n /\ Len(s) - n + (n - i + 1) = Len(s) - i + 1
    BY <1>1
  <2> QED
    BY <1>1, <2>1
<1>4. Len(Reverse(u)) = n /\ Len(Reverse(s)) = Len(s)
  BY <1>1, <1>2
<1>5. SubSeq(Reverse(u), 1, n) = SubSeq(Reverse(s), 1, n)
  BY <1>1, <1>2, <1>3, <1>4
<1> QED
  BY <1>1, <1>4, <1>5 DEF IsSuffix, IsPrefix, u
-----------------------------------------------------------------------------
(***************************************************************************)
(* What the model is sent.                                                 *)
(***************************************************************************)
\* The messages of a run.  A tool result follows the message that asked for
\* it, unless it is the first of a list that was cut.
Said == [role : {"user", "assistant", "call", "tool"}, size : Nat \ {0}]

ToolsFollow(messages, wasCut) ==
  \A i \in DOMAIN messages : messages[i].role = "tool" =>
    \/ i > 1 /\ messages[i - 1].role = "call"
    \/ i = 1 /\ wasCut

Full(messages) == Len(messages) = HistoryLimit

Memory(messages) ==
  /\ messages \in Seq(Said) /\ Len(messages) \in 1 .. HistoryLimit
  /\ ToolsFollow(messages, Full(messages))

InLoop == {"turn", "compact", "stream", "route", "tools"}

SoundFor(all, sent, wasCut) ==
  LET kept == Verbatim(sent)
  IN  /\ IsSuffix(kept, all)
      /\ kept # <<>> /\ (kept # all => kept[1].role = "user")
      /\ sent # all => Estimate(sent) < Estimate(all)
      /\ \A i \in DOMAIN kept : kept[i].role = "tool" =>
           \/ i > 1 /\ kept[i - 1].role = "call"
           \/ i = 1 /\ kept = all /\ wasCut

PromptLocal(r) ==
  /\ at[r] \in InLoop => Memory(convo[r])
  /\ (at[r] = "route" /\ answer[r].calls # "none") \/ at[r] = "tools" =>
       convo[r][Len(convo[r])].role = "call"
  /\ at[r] = "compact" => LET all == Candidates(r, heard[r])
                          IN  Len(Retained(all)) \in 1 .. Len(all) - 1
  /\ at[r] = "stream" => SoundFor(Candidates(r, heard[r]), prompt[r], Full(convo[r]))
  /\ at[r] = "save_user" => IF Saving(r) THEN save[r].msg.status = "plain"
                            ELSE \E i \in DOMAIN rows : rows[i].status = "plain"
  /\ \A i \in heard[r] : rows[i].status # "plain"

PromptInv ==
  /\ DOMAIN convo = Requests /\ DOMAIN prompt = Requests
  /\ \A r \in Requests : PromptLocal(r)

\* Messages of a run have a size, and none is a summary.
LEMMA SaidAreSized == /\ Seq(Said) \subseteq Seq(Sized)
                      /\ \A m \in Seq(Said) : \A i \in DOMAIN m : m[i].role # "system"
<1>1. Said \subseteq Sized /\ \A m \in Said : m.role # "system"
  BY DEF Said, Sized
<1>2. \A m \in Seq(Said) : m \in Seq(Sized)
  <2> TAKE m \in Seq(Said)
  <2>1. m \in [1 .. Len(m) -> Said] /\ Len(m) \in Nat
    OBVIOUS
  <2>2. m \in [1 .. Len(m) -> Sized]
    BY <1>1, <2>1
  <2> QED
    BY <2>1, <2>2
<1> QED
  BY <1>1, <1>2

\* A prompt that was not compacted.
LEMMA WholeIsSound == ASSUME NEW all \in Seq(Said), all # <<>>, NEW wasCut, ToolsFollow(all, wasCut)
                      PROVE  SoundFor(all, all, wasCut)
<1>1. Verbatim(all) = all
  BY SaidAreSized DEF Verbatim
<1>2. IsSuffix(all, all)
  <2>1. 0 \in 0 .. Len(all)
    OBVIOUS
  <2> QED
    BY <2>1, SuffixOf
<1> QED
  BY <1>1, <1>2 DEF SoundFor, ToolsFollow

\* A prompt that was compacted.
LEMMA CompactIsSound ==
  ASSUME NEW all \in Seq(Said), NEW wasCut, ToolsFollow(all, wasCut),
         Len(Retained(all)) \in 1 .. Len(all) - 1,
         NEW size \in Nat, NEW sent \in {WithinBudget(all, size), Retained(all)}
  PROVE  SoundFor(all, sent, wasCut)
<1> DEFINE kept == Retained(all)
<1>1. all \in Seq(Sized) /\ \A i \in DOMAIN all : all[i].role # "system"
  BY SaidAreSized
<1>2. Verbatim(sent) = kept /\ Estimate(sent) < Estimate(all)
  BY <1>1, Compaction
<1>3. kept # <<>>
  OBVIOUS
<1>4. PICK n \in 1 .. Len(all) : kept = LastN(all, n) /\ LastN(all, n)[1].role = "user"
  BY <1>1, <1>3, RetainedIs
<1> HIDE DEF kept
<1>8. Len(all) \in Nat /\ n \in Nat /\ n \in 0 .. Len(all)
  OBVIOUS
<1>5. /\ Len(all) \in Nat /\ n \in Nat /\ n \in 0 .. Len(all) /\ Len(kept) = n
      /\ kept \in Seq(Said) /\ \A k \in 1 .. n : kept[k] = all[Len(all) - n + k]
  BY <1>4, <1>8, LastNType
<1>6. IsSuffix(kept, all)
  BY <1>4, <1>5, SuffixOf
<1>7. \A i \in DOMAIN kept : kept[i].role = "tool" => i > 1 /\ kept[i - 1].role = "call"
  <2> SUFFICES ASSUME NEW i \in DOMAIN kept, kept[i].role = "tool"
               PROVE  i > 1 /\ kept[i - 1].role = "call"
    OBVIOUS
  <2>1. i \in 1 .. n /\ i # 1
    BY <1>4, <1>5
  <2> DEFINE j == Len(all) - n + i
  <2>2. /\ j \in DOMAIN all /\ j # 1 /\ j - 1 = Len(all) - n + (i - 1) /\ i - 1 \in 1 .. n /\ i > 1
    BY <1>5, <2>1
  <2>3. kept[i] = all[j] /\ kept[i - 1] = all[j - 1]
    BY <1>5, <2>1, <2>2
  <2> HIDE DEF j
  <2> QED
    BY <2>2, <2>3 DEF ToolsFollow
<1> QED
  BY <1>2, <1>3, <1>4, <1>6, <1>7 DEF SoundFor, kept

\* append_messages.
LEMMA NewestIs ==
  ASSUME NEW messages \in Seq(Said), messages # <<>>, NEW wasCut, ToolsFollow(messages, wasCut),
         wasCut => Len(messages) >= HistoryLimit
  PROVE  /\ Memory(Newest(messages))
         /\ Newest(messages)[Len(Newest(messages))] = messages[Len(messages)]
<1>0. HistoryLimit \in Nat \ {0} /\ Len(messages) \in Nat \ {0}
  BY ChatAssumption
<1>1. CASE Len(messages) <= HistoryLimit
  <2>1. Newest(messages) = messages
    BY <1>0, <1>1 DEF Newest
  <2> QED
    BY <1>0, <1>1, <2>1 DEF Memory, ToolsFollow, Full
<1>2. CASE Len(messages) > HistoryLimit
  <2> DEFINE n == HistoryLimit
             u == LastN(messages, n)
  <2>0. n \in 0 .. Len(messages)
    BY <1>0, <1>2
  <2>1. /\ u \in Seq(Said) /\ Len(u) = n
        /\ \A k \in 1 .. n : u[k] = messages[Len(messages) - n + k]
    BY <2>0, LastNType
  <2>2. Newest(messages) = u
    BY <1>0, <1>2 DEF Newest
  <2> HIDE DEF u
  <2>3. ToolsFollow(u, TRUE)
    <3> SUFFICES ASSUME NEW i \in DOMAIN u, u[i].role = "tool", i # 1
                 PROVE  i > 1 /\ u[i - 1].role = "call"
      BY DEF ToolsFollow
    <3> DEFINE j == Len(messages) - n + i
    <3>1. i \in 1 .. n
      BY <2>1
    <3>2. /\ j \in DOMAIN messages /\ j # 1 /\ j - 1 = Len(messages) - n + (i - 1)
          /\ i - 1 \in 1 .. n /\ i > 1
      BY <1>0, <1>2, <3>1
    <3>3. u[i] = messages[j] /\ u[i - 1] = messages[j - 1]
      BY <2>1, <3>1, <3>2
    <3> HIDE DEF j
    <3> QED
      BY <3>2, <3>3 DEF ToolsFollow
  <2>4. u[n] = messages[Len(messages)]
    BY <1>0, <1>2, <2>1
  <2> QED
    BY <1>0, <2>1, <2>2, <2>3, <2>4 DEF Memory, ToolsFollow, Full
<1> QED
  BY <1>0, <1>1, <1>2
-----------------------------------------------------------------------------
\* Interventions are user messages.
LEMMA InterventionsType ==
  ASSUME rows \in Seq(ChatRow), NEW ids, ids \subseteq DOMAIN rows
  PROVE  /\ Interventions(ids) \in Seq(Said)
         /\ \A i \in DOMAIN Interventions(ids) : Interventions(ids)[i].role = "user"
<1>1. DOMAIN rows = 1 .. Len(rows) /\ Len(rows) \in Nat /\ ids \subseteq 1 .. Len(rows)
  OBVIOUS
<1>2. Cardinality(ids) \in Nat /\ InOrder(ids) \in [1 .. Cardinality(ids) -> ids]
  BY <1>1, Ordered
<1> DEFINE M(i) == [role |-> "user", size |-> rows[InOrder(ids)[i]].size]
<1>3. \A i \in 1 .. Cardinality(ids) : M(i) \in Said /\ M(i).role = "user"
  <2> TAKE i \in 1 .. Cardinality(ids)
  <2>1. rows[InOrder(ids)[i]] \in ChatRow
    BY <1>1, <1>2
  <2>2. rows[InOrder(ids)[i]].size \in Nat \ {0}
    BY <2>1 DEF ChatRow, Row
  <2> QED
    BY <2>2 DEF Said
<1>4. Interventions(ids) = [i \in 1 .. Cardinality(ids) |-> M(i)]
  BY DEF Interventions
<1> HIDE DEF M
<1> QED
  BY <1>2, <1>3, <1>4

\* The messages of a turn, made of those of the run.
LEMMA CandidatesType ==
  ASSUME rows \in Seq(ChatRow), NEW r, Memory(convo[r]), NEW ids, ids \subseteq DOMAIN rows
  PROVE  /\ Candidates(r, ids) \in Seq(Said) /\ Candidates(r, ids) # <<>>
         /\ ToolsFollow(Candidates(r, ids), Full(convo[r]))
         /\ Len(Candidates(r, ids)) >= Len(convo[r])
<1> DEFINE c == convo[r]
           m == Interventions(ids)
<1>1. m \in Seq(Said) /\ \A i \in DOMAIN m : m[i].role = "user"
  BY InterventionsType
<1>2. c \in Seq(Said) /\ Len(c) >= 1 /\ ToolsFollow(c, Full(c)) /\ Len(c) \in Nat
  BY ChatAssumption DEF Memory
<1>3. Candidates(r, ids) = c \o m
  BY DEF Candidates
<1> HIDE DEF c, m
<1>4. c \o m \in Seq(Said) /\ c \o m # <<>> /\ Len(c \o m) >= Len(c)
  BY <1>1, <1>2
<1>5. \A i \in DOMAIN (c \o m) : IF i <= Len(c) THEN i \in DOMAIN c /\ (c \o m)[i] = c[i]
                                                 ELSE (c \o m)[i].role = "user"
  <2> TAKE i \in DOMAIN (c \o m)
  <2>1. i \in 1 .. Len(c) + Len(m) /\ Len(m) \in Nat
    BY <1>1, <1>2
  <2>2. CASE i <= Len(c)
    BY <1>1, <1>2, <2>1, <2>2
  <2>3. CASE i > Len(c)
    <3>1. i - Len(c) \in DOMAIN m /\ (c \o m)[i] = m[i - Len(c)]
      BY <1>1, <1>2, <2>1, <2>3
    <3> QED
      BY <1>1, <1>2, <2>1, <2>3, <3>1
  <2> QED
    BY <1>2, <2>1, <2>2, <2>3
<1>6. ToolsFollow(c \o m, Full(c))
  <2> SUFFICES ASSUME NEW i \in DOMAIN (c \o m), (c \o m)[i].role = "tool"
               PROVE  \/ i > 1 /\ (c \o m)[i - 1].role = "call"
                      \/ i = 1 /\ Full(c)
    BY DEF ToolsFollow
  <2>1. i \in DOMAIN c /\ (c \o m)[i] = c[i]
    BY <1>5
  <2>2. CASE i = 1
    BY <1>2, <2>1, <2>2 DEF ToolsFollow
  <2>3. CASE i # 1
    <3>1. i > 1 /\ c[i - 1].role = "call"
      BY <1>2, <2>1, <2>3 DEF ToolsFollow
    <3>2. i - 1 \in DOMAIN (c \o m) /\ i - 1 <= Len(c)
      BY <1>1, <1>2, <2>1, <3>1
    <3> QED
      BY <1>5, <3>1, <3>2
  <2> QED
    BY <2>2, <2>3
<1> QED
  BY <1>3, <1>4, <1>6 DEF c

\* What no step does to a message: its size stays, and whether it is an intervention.
RowsKept ==
  /\ DOMAIN rows \subseteq DOMAIN rows'
  /\ \A i \in DOMAIN rows : /\ rows'[i].size = rows[i].size
                            /\ rows'[i].status = "plain" <=> rows[i].status = "plain"

\* A turn's messages do not change behind its back.
LEMMA CandidatesStay ==
  ASSUME rows \in Seq(ChatRow), NEW q, convo'[q] = convo[q],
         NEW ids, ids \subseteq DOMAIN rows, RowsKept
  PROVE  Candidates(q, ids)' = Candidates(q, ids)
<1>1. DOMAIN rows = 1 .. Len(rows) /\ Len(rows) \in Nat /\ ids \subseteq 1 .. Len(rows)
  OBVIOUS
<1>2. Cardinality(ids) \in Nat /\ InOrder(ids) \in [1 .. Cardinality(ids) -> ids]
  BY <1>1, Ordered
<1>3. \A i \in 1 .. Cardinality(ids) : rows'[InOrder(ids)[i]].size = rows[InOrder(ids)[i]].size
  BY <1>2 DEF RowsKept
<1>4. Interventions(ids)' = Interventions(ids)
  BY <1>3 DEF Interventions
<1> QED
  BY <1>4 DEF Candidates

Untouched(q) ==
  /\ at'[q] = at[q] /\ answer'[q] = answer[q] /\ convo'[q] = convo[q] /\ heard'[q] = heard[q]
  /\ prompt'[q] = prompt[q] /\ save'[q] = save[q]

\* What others do leaves the prompt of q sound.
LEMMA OthersKeep ==
  ASSUME rows \in Seq(ChatRow), NEW q \in Requests, heard[q] \subseteq DOMAIN rows, PromptLocal(q),
         RowsKept, Untouched(q)
  PROVE  PromptLocal(q)'
<1>1. Candidates(q, heard[q])' = Candidates(q, heard[q])
  BY CandidatesStay DEF Untouched, Candidates, Interventions
<1>2. (\E i \in DOMAIN rows : rows[i].status = "plain") =>
        \E i \in DOMAIN rows' : rows'[i].status = "plain"
  BY DEF RowsKept
<1>3. \A i \in heard'[q] : rows'[i].status # "plain"
  BY DEF RowsKept, Untouched, PromptLocal
<1> QED
  BY <1>1, <1>2, <1>3 DEF PromptLocal, Untouched, Saving

\* Marking interventions, and taking over those of an earlier run.
LEMMA MarkKeeps == ASSUME rows \in Seq(ChatRow), NEW which, NEW st \in Intervention,
                          \A i \in which : rows[i].status # "plain", rows' = Mark(which, st)
                   PROVE  RowsKept
<1>1. \A x \in ChatRow : /\ [x EXCEPT !.status = st].size = x.size
                         /\ [x EXCEPT !.status = st].status = st
  BY DEF ChatRow, Row
<1>2. \A i \in DOMAIN rows : rows[i] \in ChatRow
  OBVIOUS
<1>3. DOMAIN rows' = DOMAIN rows
  BY DEF Mark
<1>4. \A i \in DOMAIN rows :
        rows'[i] = IF i \in which THEN [rows[i] EXCEPT !.status = st] ELSE rows[i]
  BY DEF Mark
<1>5. st # "plain"
  BY DEF Intervention
<1> QED
  BY <1>1, <1>2, <1>3, <1>4, <1>5 DEF RowsKept

LEMMA RequeueKeeps == ASSUME rows \in Seq(ChatRow), NEW r, NEW own, rows' = Requeue(r, own)
                      PROVE  RowsKept
<1> DEFINE Taken(x) == [x EXCEPT !.run = r, !.status = "pending"]
           Owned(x) == [x EXCEPT !.run = r]
<1>1. \A x \in ChatRow : /\ Taken(x).size = x.size /\ Taken(x).status = "pending"
                         /\ Owned(x).size = x.size /\ Owned(x).status = x.status
  BY DEF ChatRow, Row
<1>2. \A i \in DOMAIN rows : rows[i] \in ChatRow
  OBVIOUS
<1>3. DOMAIN rows' = DOMAIN rows
  BY DEF Requeue
<1>4. \A i \in DOMAIN rows : rows'[i] = IF i \in UndeliveredRows THEN Taken(rows[i])
                                        ELSE IF i = own THEN Owned(rows[i]) ELSE rows[i]
  BY DEF Requeue
<1>5. \A i \in UndeliveredRows : rows[i].status = "undelivered"
  BY DEF UndeliveredRows
<1> HIDE DEF Taken, Owned
<1> QED
  BY <1>1, <1>2, <1>3, <1>4, <1>5 DEF RowsKept

LEMMA SameRowsKept == UNCHANGED rows => RowsKept
BY DEF RowsKept

LEMMA InsertKeeps == ASSUME rows \in Seq(ChatRow), NEW w, Insert(w) PROVE RowsKept
<1>1. rows' = rows \/ \E x : rows' = Append(rows, x)
  BY DEF Insert
<1> QED
  BY <1>1 DEF RowsKept

\* What a task does to the messages.
LEMMA TaskKeepsRows ==
  ASSUME StoreInv, TypeInv, PromptInv, NEW r \in Requests, TaskStep(r) PROVE RowsKept
<1>0. rows \in Seq(ChatRow) /\ "undelivered" \in Intervention /\ "injected" \in Intervention
  BY DEF StoreInv, StoreTypes, Intervention
<1>1. CASE BeginRun(r)
  BY <1>0, <1>1, RequeueKeeps DEF BeginRun
<1>2. CASE rows' = MarkInjected(heard[r])
  <2>1. \A i \in heard[r] : rows[i].status # "plain"
    BY DEF PromptInv, PromptLocal
  <2> QED
    BY <1>0, <1>2, <2>1, MarkKeeps DEF MarkInjected
<1>3. CASE rows' = MarkUndelivered(r)
  <2>1. \A i \in PendingFor(r) : rows[i].status # "plain"
    BY DEF PendingFor
  <2> QED
    BY <1>0, <1>3, <2>1, MarkKeeps DEF MarkUndelivered
<1> QED
  BY <1>1, <1>2, <1>3, SameRowsKept
     DEF TaskStep, StartTask, StartTurn, Compact, StreamText, FinishAnswer, ProviderFails, Route,
         RunTools, GraphRaises, Finalize, Complete, MakeTitle, FailRun, storeVars

\* A task leaves the others alone.
LEMMA TaskApart ==
  ASSUME StoreInv, TypeInv, PromptInv, NEW r \in Requests, TaskStep(r)
  PROVE  /\ DOMAIN convo' = Requests /\ DOMAIN prompt' = Requests
         /\ \A q \in Requests : q # r => Untouched(q)
<1>1. /\ at \in [Requests -> Place] /\ answer \in [Requests -> Answer]
      /\ save \in [Writers -> SaveState]
      /\ heard \in [Requests -> SUBSET DOMAIN rows] /\ Requests \subseteq Writers
      /\ DOMAIN convo = Requests /\ DOMAIN prompt = Requests
  BY ChatAssumption DEF StoreInv, StoreTypes, TypeInv, ChatTypeOK, PromptInv
<1> USE DEF Untouched, Goes, Ends, storeVars, requestVars, traceVars
<1>2. CASE StartTask(r)
  BY <1>1, <1>2 DEF StartTask, AskToSave
<1>3. CASE BeginRun(r)
  BY <1>1, <1>3 DEF BeginRun
<1>4. CASE StartTurn(r)
  BY <1>1, <1>4 DEF StartTurn
<1>5. CASE Compact(r)
  BY <1>1, <1>5 DEF Compact
<1>6. CASE StreamText(r)
  BY <1>1, <1>6 DEF StreamText
<1>7. CASE FinishAnswer(r)
  BY <1>1, <1>7 DEF FinishAnswer
<1>8. CASE ProviderFails(r)
  BY <1>1, <1>8 DEF ProviderFails
<1>9. CASE Route(r)
  BY <1>1, <1>9 DEF Route
<1>10. CASE RunTools(r)
  BY <1>1, <1>10 DEF RunTools
<1>11. CASE GraphRaises(r)
  BY <1>1, <1>11 DEF GraphRaises, FailRun
<1>12. CASE Finalize(r)
  BY <1>1, <1>12 DEF Finalize, FailRun, AskToSave
<1>13. CASE Complete(r)
  BY <1>1, <1>13 DEF Complete
<1>14. CASE MakeTitle(r)
  BY <1>1, <1>14 DEF MakeTitle
<1> QED
  BY <1>2, <1>3, <1>4, <1>5, <1>6, <1>7, <1>8, <1>9, <1>10, <1>11, <1>12, <1>13, <1>14
     DEF TaskStep

\* Numbered rows are in order: get_chat_history gives them as they are.
LEMMA NumberedIsSorted ==
  ASSUME NEW table \in Seq(ChatRow), \A i \in DOMAIN table : table[i].no = i
  PROVE  table = [k \in DOMAIN table |->
                    table[CHOOSE i \in DOMAIN table :
                            Cardinality({j \in DOMAIN table : table[j].no < table[i].no}) = k - 1]]
<1>1. DOMAIN table = 1 .. Len(table) /\ Len(table) \in Nat
  OBVIOUS
<1> DEFINE Before(i) == {j \in DOMAIN table : table[j].no < table[i].no}
<1>2. ASSUME NEW i \in DOMAIN table PROVE Cardinality(Before(i)) = i - 1
  <2>1. Before(i) = {j \in 1 .. Len(table) : j < i}
    BY <1>1
  <2>2. Before(i) = 1 .. (i - 1)
    BY <1>1, <2>1
  <2>3. Cardinality(1 .. (i - 1)) = i - 1
    BY <1>1, FS_Interval
  <2> QED
    BY <2>2, <2>3
<1> HIDE DEF Before
<1> DEFINE At(k) == CHOOSE i \in DOMAIN table : Cardinality(Before(i)) = k - 1
<1>3. ASSUME NEW k \in DOMAIN table PROVE At(k) = k
  <2>1. \A i \in DOMAIN table : Cardinality(Before(i)) = k - 1 <=> i = k
    BY <1>1, <1>2
  <2> QED
    BY <2>1
<1> HIDE DEF At
<1>4. table = [k \in DOMAIN table |-> table[k]]
  OBVIOUS
<1>5. table = [k \in DOMAIN table |-> table[At(k)]]
  BY <1>3, <1>4
<1> QED
  BY <1>5 DEF Before, At

\* A run starts with the messages of the session, of which there is one.
LEMMA FromHistoryType ==
  ASSUME NEW table \in Seq(ChatRow), \E i \in DOMAIN table : table[i].status = "plain"
  PROVE  Memory(FromHistory(table))
<1> DEFINE K == {i \in DOMAIN table : table[i].status \notin {"pending", "undelivered"}}
           M(k) == [role |-> table[InOrder(K)[k]].role, size |-> table[InOrder(K)[k]].size]
           messages == [k \in 1 .. Cardinality(K) |-> M(k)]
<1>1. DOMAIN table = 1 .. Len(table) /\ Len(table) \in Nat /\ K # {}
  OBVIOUS
<1>2. K \subseteq 1 .. Len(table)
  BY <1>1
<1> HIDE DEF K
<1>3. IsFiniteSet(K) /\ Cardinality(K) \in Nat /\ InOrder(K) \in [1 .. Cardinality(K) -> K]
  BY <1>1, <1>2, Ordered
<1>4. Cardinality(K) # 0
  BY <1>1, <1>3, FS_EmptySet
<1>5. \A k \in 1 .. Cardinality(K) : M(k) \in Said /\ M(k).role # "tool"
  <2> TAKE k \in 1 .. Cardinality(K)
  <2>3. InOrder(K)[k] \in DOMAIN table
    BY <1>1, <1>2, <1>3
  <2>1. table[InOrder(K)[k]] \in ChatRow
    BY <2>3
  <2>2. /\ table[InOrder(K)[k]].role \in {"user", "assistant"}
        /\ table[InOrder(K)[k]].size \in Nat \ {0}
    BY <2>1 DEF ChatRow, Row
  <2> QED
    BY <2>2 DEF Said
<1>6. FromHistory(table) = Newest(messages)
  <2>1. DOMAIN InOrder(K) = 1 .. Cardinality(K)
    BY <1>3
  <2>2. FromHistory(table) = Newest([k \in DOMAIN InOrder(K) |-> M(k)])
    BY DEF FromHistory, K
  <2> QED
    BY <2>1, <2>2
<1> HIDE DEF M
<1>7. messages \in Seq(Said) /\ messages # <<>> /\ DOMAIN messages = 1 .. Cardinality(K)
  BY <1>3, <1>4, <1>5
<1>8. ToolsFollow(messages, FALSE)
  BY <1>5, <1>7 DEF ToolsFollow
<1> HIDE DEF messages
<1> QED
  BY <1>6, <1>7, <1>8, NewestIs

\* What the task of r knows before its step.
Known(r) ==
  /\ rows \in Seq(ChatRow) /\ refused = {} /\ \A i \in DOMAIN rows : rows[i].no = i
  /\ at \in [Requests -> Place] /\ answer \in [Requests -> Answer]
  /\ heard \in [Requests -> SUBSET DOMAIN rows] /\ save \in [Writers -> SaveState]
  /\ DOMAIN convo = Requests /\ DOMAIN prompt = Requests
  /\ case \in Cases /\ r \in Writers /\ ~Saving(r)
  /\ PromptLocal(r)

LEMMA KnownHolds == ASSUME StoreInv, TypeInv, PromptInv, NEW r \in Requests, LoopFree PROVE Known(r)
BY ChatAssumption
   DEF Known, StoreInv, StoreTypes, NumberedInOrder, TypeInv, ChatTypeOK, PromptInv, LoopFree

LEMMA BeginRunPrompt == ASSUME NEW r \in Requests, Known(r), StoreInv', RowsKept, BeginRun(r)
                        PROVE  PromptLocal(r)'
<1>1. at[r] = "save_user" /\ at'[r] = "turn" /\ heard' = heard /\ convo'[r] = FromHistory(History')
  BY DEF BeginRun, Known, Goes
<1>2. rows' \in Seq(ChatRow) /\ \A i \in DOMAIN rows' : rows'[i].no = i
  BY DEF StoreInv, StoreTypes, NumberedInOrder
<1>3. History' = rows'
  BY <1>2, NumberedIsSorted DEF History
<1>4. \E i \in DOMAIN rows' : rows'[i].status = "plain"
  BY <1>1 DEF PromptLocal, Known, RowsKept
<1>5. Memory(convo'[r])
  BY <1>1, <1>2, <1>3, <1>4, FromHistoryType
<1>6. \A i \in heard'[r] : rows'[i].status # "plain"
  BY <1>1 DEF Known, PromptLocal, RowsKept
<1> QED
  BY <1>1, <1>5, <1>6 DEF PromptLocal

LEMMA StartTurnPrompt == ASSUME NEW r \in Requests, Known(r), StartTurn(r)
                         PROVE  PromptLocal(r)'
<1> DEFINE ids == PendingFor(r)
           all == Candidates(r, ids)
<1>1. /\ at[r] = "turn" /\ heard'[r] = ids /\ UNCHANGED <<rows, convo, answer>>
      /\ Memory(convo[r])
  BY DEF StartTurn, Known, storeVars, PromptLocal, InLoop
<1>2. ids \subseteq DOMAIN rows /\ \A i \in ids : rows[i].status # "plain"
  BY DEF PendingFor
<1>3. all \in Seq(Said) /\ all # <<>> /\ ToolsFollow(all, Full(convo[r]))
  BY <1>1, <1>2, CandidatesType DEF Known
<1>4. Candidates(r, heard[r])' = all
  BY <1>1 DEF Candidates, Interventions
<1> HIDE DEF ids, all
<1>5. CASE NeedsSummary(all)
  <2>1. at'[r] = "compact"
    BY <1>5 DEF StartTurn, Goes, Known, all, ids
  <2>2. Len(Retained(all)) \in 1 .. Len(all) - 1
    BY <1>5 DEF NeedsSummary
  <2> QED
    BY <1>1, <1>2, <1>4, <2>1, <2>2 DEF PromptLocal
<1>6. CASE ~NeedsSummary(all)
  <2>1. at'[r] = "stream" /\ prompt'[r] = all
    BY <1>6 DEF StartTurn, Goes, Known, all, ids
  <2>2. SoundFor(all, all, Full(convo[r]))
    BY <1>3, WholeIsSound
  <2> QED
    BY <1>1, <1>2, <1>4, <2>1, <2>2 DEF PromptLocal
<1> QED
  BY <1>5, <1>6

LEMMA CompactPrompt == ASSUME NEW r \in Requests, Known(r), Compact(r)
                       PROVE  PromptLocal(r)'
<1> DEFINE all == Candidates(r, heard[r])
<1>1. /\ at[r] = "compact" /\ at'[r] = "stream" /\ UNCHANGED <<rows, convo, answer, heard>>
      /\ Memory(convo[r]) /\ Len(Retained(all)) \in 1 .. Len(all) - 1
  BY DEF Compact, Known, storeVars, PromptLocal, InLoop, Goes
<1>2. all \in Seq(Said) /\ ToolsFollow(all, Full(convo[r]))
  BY <1>1, CandidatesType DEF Known
<1>3. PICK size \in case.sizes : prompt'[r] \in {WithinBudget(all, size), Retained(all)}
  BY DEF Compact, Known
<1>4. size \in Nat
  BY ChatAssumption DEF Known
<1>5. Candidates(r, heard[r])' = all
  BY <1>1 DEF Candidates, Interventions
<1> HIDE DEF all
<1>6. SoundFor(all, prompt'[r], Full(convo[r]))
  BY <1>1, <1>2, <1>3, <1>4, CompactIsSound
<1>7. \A i \in heard[r] : rows[i].status # "plain"
  BY DEF Known, PromptLocal
<1> QED
  BY <1>1, <1>5, <1>6, <1>7 DEF PromptLocal

\* A message at the end of the list.
LEMMA AppendSaid ==
  ASSUME NEW messages \in Seq(Said), NEW wasCut, ToolsFollow(messages, wasCut), NEW m \in Said,
         messages # <<>>, m.role = "tool" => messages[Len(messages)].role = "call"
  PROVE  /\ Append(messages, m) \in Seq(Said) /\ Append(messages, m) # <<>>
         /\ Len(Append(messages, m)) = Len(messages) + 1
         /\ Append(messages, m)[Len(messages) + 1] = m
         /\ ToolsFollow(Append(messages, m), wasCut)
BY DEF ToolsFollow

LEMMA FinishPrompt == ASSUME NEW r \in Requests, Known(r), FinishAnswer(r)
                      PROVE  PromptLocal(r)'
<1> DEFINE all == Candidates(r, heard[r])
<1>1. PICK calls \in case.calls :
        /\ answer' = [answer EXCEPT ![r] = Answered(r, calls)]
        /\ convo' = [convo EXCEPT ![r] = Newest(all \o
             <<[role |-> IF calls = "none" THEN "assistant" ELSE "call", size |-> 1]>>)]
  BY DEF FinishAnswer
<1> DEFINE m == [role |-> IF calls = "none" THEN "assistant" ELSE "call", size |-> 1]
<1>2. at[r] = "stream" /\ at'[r] = "route" /\ heard'[r] = {} /\ Memory(convo[r])
  BY DEF FinishAnswer, Known, Goes, PromptLocal, InLoop
<1>3. m \in Said /\ m.role # "tool" /\ (calls # "none" => m.role = "call")
  BY DEF Said
<1>4. /\ all \in Seq(Said) /\ all # <<>> /\ ToolsFollow(all, Full(convo[r]))
      /\ Len(all) >= Len(convo[r])
  BY <1>2, CandidatesType DEF Known
<1>5. answer'[r].calls = calls /\ convo'[r] = Newest(all \o <<m>>)
  BY <1>1 DEF Known, Answered
<1> HIDE DEF m, all
<1>6. all \o <<m>> = Append(all, m)
  BY <1>3, <1>4
<1>7. /\ Append(all, m) \in Seq(Said) /\ Append(all, m) # <<>> /\ Len(Append(all, m)) = Len(all) + 1
      /\ Append(all, m)[Len(all) + 1] = m /\ ToolsFollow(Append(all, m), Full(convo[r]))
  BY <1>3, <1>4, AppendSaid
<1>8. Full(convo[r]) => Len(Append(all, m)) >= HistoryLimit
  BY <1>4, <1>7, ChatAssumption DEF Full
<1>9. Memory(convo'[r]) /\ convo'[r][Len(convo'[r])] = m
  BY <1>5, <1>6, <1>7, <1>8, NewestIs
<1> QED
  BY <1>2, <1>3, <1>5, <1>9 DEF PromptLocal

LEMMA ToolsPrompt == ASSUME NEW r \in Requests, Known(r), RunTools(r)
                     PROVE  PromptLocal(r)'
<1>1. PICK size \in case.sizes :
        convo'[r] = Newest(Append(convo[r], [role |-> "tool", size |-> size]))
  BY DEF RunTools, Known
<1> DEFINE m == [role |-> "tool", size |-> size]
           c == convo[r]
<1>2. /\ at[r] = "tools" /\ at'[r] = "turn" /\ UNCHANGED <<heard, rows>> /\ Memory(c)
      /\ c[Len(c)].role = "call"
  BY DEF RunTools, Known, Goes, PromptLocal, InLoop, storeVars
<1>3. m \in Said
  BY ChatAssumption DEF Said, Known
<1>4. c \in Seq(Said) /\ c # <<>> /\ ToolsFollow(c, Full(c)) /\ Len(c) \in Nat
  BY <1>2 DEF Memory
<1>5. convo'[r] = Newest(Append(c, m))
  BY <1>1
<1> HIDE DEF m, c
<1>7. /\ Append(c, m) \in Seq(Said) /\ Append(c, m) # <<>> /\ Len(Append(c, m)) = Len(c) + 1
      /\ ToolsFollow(Append(c, m), Full(c))
  BY <1>2, <1>3, <1>4, AppendSaid
<1>8. Full(c) => Len(Append(c, m)) >= HistoryLimit
  BY <1>4, <1>7, ChatAssumption DEF Full
<1>9. Memory(convo'[r])
  BY <1>5, <1>7, <1>8, NewestIs
<1>10. \A i \in heard[r] : rows[i].status # "plain"
  BY DEF Known, PromptLocal
<1> QED
  BY <1>2, <1>9, <1>10 DEF PromptLocal

\* The steps of a task that leave the graph, and those that leave its messages alone.
LEMMA ApartFromLoop ==
  ASSUME NEW r \in Requests, Known(r), RowsKept, UNCHANGED heard,
         at'[r] \notin InLoop \cup {"save_user"}
  PROVE  PromptLocal(r)'
<1>1. \A i \in heard'[r] : rows'[i].status # "plain"
  BY DEF Known, PromptLocal, RowsKept
<1> QED
  BY <1>1 DEF PromptLocal, InLoop

LEMMA StartTaskPrompt == ASSUME NEW r \in Requests, Known(r), RowsKept, StartTask(r)
                         PROVE  PromptLocal(r)'
<1>0. UNCHANGED heard
  BY DEF StartTask
<1>1. CASE Goes(r, "save_user") /\ AskToSave(r, NewMessage("user", NoRun, "plain"))
  <2>1. at'[r] = "save_user"
    BY <1>1 DEF Known, Goes
  <2>2. save'[r].msg.status = "plain" /\ Saving(r)'
    BY <1>1 DEF Known, AskToSave, NewMessage, Idle, Saving
  <2>3. \A i \in heard'[r] : rows'[i].status # "plain"
    BY <1>0 DEF Known, PromptLocal, RowsKept
  <2> QED
    BY <2>1, <2>2, <2>3 DEF PromptLocal, InLoop
<1>2. CASE Ends(r, <<Event("error")>>)
  <2>1. at'[r] = "done"
    BY <1>2 DEF Known, Ends, Goes
  <2> QED
    BY <1>0, <2>1, ApartFromLoop DEF InLoop
<1> QED
  BY <1>1, <1>2 DEF StartTask

LEMMA StreamTextPrompt == ASSUME NEW r \in Requests, Known(r), StreamText(r)
                          PROVE  PromptLocal(r)'
<1>1. UNCHANGED <<at, answer, convo, heard, prompt, rows, save>>
  BY DEF StreamText, requestVars, storeVars
<1>2. Candidates(r, heard[r])' = Candidates(r, heard[r])
  BY <1>1 DEF Candidates, Interventions
<1> QED
  BY <1>1, <1>2 DEF PromptLocal, Known, Saving

LEMMA ProviderFailsPrompt == ASSUME NEW r \in Requests, Known(r), ProviderFails(r)
                             PROVE  PromptLocal(r)'
<1>1. UNCHANGED <<rows, save>>
  BY DEF ProviderFails, storeVars
<1>2. CASE UNCHANGED requestVars
  <2>1. UNCHANGED <<at, answer, convo, heard, prompt, rows, save>>
    BY <1>1, <1>2 DEF requestVars
  <2>2. Candidates(r, heard[r])' = Candidates(r, heard[r])
    BY <2>1 DEF Candidates, Interventions
  <2> QED
    BY <2>1, <2>2 DEF PromptLocal, Known, Saving
<1>3. CASE Goes(r, "finalize") /\ heard' = [heard EXCEPT ![r] = {}]
  <2>1. at'[r] = "finalize" /\ heard'[r] = {}
    BY <1>3 DEF Known, Goes
  <2> QED
    BY <2>1 DEF PromptLocal, InLoop
<1> QED
  BY <1>2, <1>3 DEF ProviderFails

LEMMA RoutePrompt == ASSUME NEW r \in Requests, Known(r), Route(r)
                     PROVE  PromptLocal(r)'
<1>1. /\ at[r] = "route" /\ at'[r] \in {"turn", "tools", "finalize"}
      /\ UNCHANGED <<answer, convo, heard, rows>> /\ Memory(convo[r])
      /\ at'[r] = "tools" => answer[r].calls # "none"
  BY DEF Route, Goes, Known, storeVars, PromptLocal, InLoop
<1>2. at'[r] = "tools" => convo[r][Len(convo[r])].role = "call"
  BY <1>1 DEF Known, PromptLocal
<1>3. \A i \in heard[r] : rows[i].status # "plain"
  BY DEF Known, PromptLocal
<1> QED
  BY <1>1, <1>2, <1>3 DEF PromptLocal

LEMMA TaskPrompt ==
  ASSUME StoreInv, TypeInv, PromptInv, NEW r \in Requests, LoopFree, TaskStep(r), StoreInv'
  PROVE  PromptInv'
<1>1. Known(r) /\ RowsKept /\ rows \in Seq(ChatRow)
  BY KnownHolds, TaskKeepsRows DEF StoreInv, StoreTypes
<1>2. /\ DOMAIN convo' = Requests /\ DOMAIN prompt' = Requests
      /\ \A q \in Requests : q # r => Untouched(q)
  BY TaskApart
<1>3. ASSUME NEW q \in Requests, q # r PROVE PromptLocal(q)'
  <2>1. heard[q] \subseteq DOMAIN rows /\ PromptLocal(q)
    BY DEF PromptInv, TypeInv, ChatTypeOK
  <2> QED
    BY <1>1, <1>2, <1>3, <2>1, OthersKeep
<1>4. PromptLocal(r)'
  <2>1. CASE GraphRaises(r)
    <3>1. at'[r] = "done" /\ UNCHANGED heard
      BY <1>1, <2>1 DEF GraphRaises, FailRun, Ends, Goes, Known
    <3> QED
      BY <1>1, <3>1, ApartFromLoop DEF InLoop
  <2>2. CASE Finalize(r)
    <3>1. at'[r] \in {"done", "save_answer"} /\ UNCHANGED heard
      BY <1>1, <2>2 DEF Finalize, FailRun, Ends, Goes, Known
    <3> QED
      BY <1>1, <3>1, ApartFromLoop DEF InLoop
  <2>3. CASE Complete(r) \/ MakeTitle(r)
    <3>1. at'[r] \in {"done", "title"} /\ UNCHANGED heard
      BY <1>1, <2>3 DEF Complete, MakeTitle, Ends, Goes, Known
    <3> QED
      BY <1>1, <3>1, ApartFromLoop DEF InLoop
  <2> QED
    BY <1>1, <2>1, <2>2, <2>3, StartTaskPrompt, BeginRunPrompt, StartTurnPrompt, CompactPrompt,
       StreamTextPrompt, FinishPrompt, ProviderFailsPrompt, RoutePrompt, ToolsPrompt
       DEF TaskStep
<1> QED
  BY <1>2, <1>3, <1>4 DEF PromptInv

\* A browser comes, is served, leaves; a run is closed.
LEMMA BrowserPrompt ==
  ASSUME StoreInv, TypeInv, PromptInv, NEW r \in Requests, LoopFree, BrowserStep(r)
  PROVE  PromptInv'
<1>1. UNCHANGED <<answer, convo, heard, prompt, rows, save>> /\ RowsKept
  BY SameRowsKept
     DEF BrowserStep, Arrive, StartStream, BrowserLeaves, BrowserReads, requestVars, storeVars
<1>2. /\ \A q \in Requests : q # r => at'[q] = at[q]
      /\ at'[r] = at[r] \/ at'[r] \notin InLoop \cup {"save_user"}
  BY DEF BrowserStep, Arrive, StartStream, BrowserLeaves, BrowserReads, requestVars, Goes,
         TypeInv, ChatTypeOK, InLoop
<1>3. ASSUME NEW q \in Requests PROVE PromptLocal(q)'
  <2>1. heard[q] \subseteq DOMAIN rows /\ PromptLocal(q) /\ rows \in Seq(ChatRow)
    BY DEF PromptInv, TypeInv, ChatTypeOK, StoreInv, StoreTypes
  <2>2. CASE at'[q] = at[q]
    BY <1>1, <2>1, <2>2, OthersKeep DEF Untouched
  <2>3. CASE at'[q] # at[q]
    <3>1. Known(q)
      BY KnownHolds
    <3> QED
      BY <1>1, <1>2, <2>3, <3>1, ApartFromLoop
  <2> QED
    BY <2>2, <2>3
<1> QED
  BY <1>1, <1>3 DEF PromptInv

\* Steps that concern the messages only.
LEMMA WriterPrompt ==
  ASSUME StoreInv, TypeInv, PromptInv, UNCHANGED requestVars, RowsKept,
         \A q \in Requests :
           \/ save'[q] = save[q]
           \/ Saving(q) /\ save'[q].msg = save[q].msg /\ Saving(q)'
           \/ ~Saving(q)' /\ (at[q] = "save_user" =>
                               \E i \in DOMAIN rows' : rows'[i].status = "plain")
  PROVE  PromptInv'
<1>1. UNCHANGED <<at, answer, convo, heard, prompt>>
  BY DEF requestVars
<1>2. ASSUME NEW q \in Requests PROVE PromptLocal(q)'
  <2>1. heard[q] \subseteq DOMAIN rows /\ PromptLocal(q) /\ rows \in Seq(ChatRow)
    BY DEF PromptInv, TypeInv, ChatTypeOK, StoreInv, StoreTypes
  <2>2. CASE save'[q] = save[q]
    BY <1>1, <2>1, <2>2, OthersKeep DEF Untouched
  <2>3. CASE save'[q] # save[q]
    <3>1. Candidates(q, heard[q])' = Candidates(q, heard[q])
      BY <1>1, <2>1, CandidatesStay DEF Candidates, Interventions
    <3>2. \A i \in heard'[q] : rows'[i].status # "plain"
      BY <1>1, <2>1 DEF RowsKept, PromptLocal
    <3>3. at[q] = "save_user" => IF Saving(q)' THEN save'[q].msg.status = "plain"
                                 ELSE \E i \in DOMAIN rows' : rows'[i].status = "plain"
      BY <2>1, <2>3 DEF PromptLocal
    <3> QED
      BY <1>1, <2>1, <3>1, <3>2, <3>3 DEF PromptLocal
  <2> QED
    BY <2>2, <2>3
<1> QED
  BY <1>1, <1>2 DEF PromptInv

LEMMA StatementPrompt ==
  ASSUME StoreInv, StoreInv', TypeInv, PromptInv, NEW w \in Writers, SaveMessage(w)
  PROVE  PromptInv'
<1>0. /\ UNCHANGED requestVars /\ Statement(w)
      /\ save \in [Writers -> SaveState] /\ rows \in Seq(ChatRow)
      /\ Requests \subseteq Writers
  BY ChatAssumption DEF SaveMessage, StoreInv, StoreTypes
<1>1. CASE AcquireLock(w) \/ ReadMax(w)
  <2>1. UNCHANGED rows /\ \A v \in Writers : v # w => save'[v] = save[v]
    BY <1>0, <1>1 DEF AcquireLock, ReadMax
  <2>2. Saving(w) /\ save'[w].msg = save[w].msg /\ Saving(w)'
    BY <1>0, <1>1 DEF AcquireLock, ReadMax, Saving, SaveState
  <2> QED
    BY <1>0, <2>1, <2>2, SameRowsKept, WriterPrompt
<1>2. CASE Insert(w)
  <2>1. /\ \A v \in Writers : v # w => save'[v] = save[v]
        /\ ~Saving(w)' /\ Saving(w)
    BY <1>0, <1>2 DEF Insert, Idle, Saving
  <2>2. refused' = {}
    BY DEF StoreInv, NumberedInOrder
  <2>3. rows'[Len(rows) + 1].status = save[w].msg.status /\ Len(rows) + 1 \in DOMAIN rows'
    BY <1>0, <1>2, <2>2 DEF Insert
  <2>4. w \in Requests /\ at[w] = "save_user" =>
          \E i \in DOMAIN rows' : rows'[i].status = "plain"
    BY <2>1, <2>3 DEF PromptInv, PromptLocal
  <2>5. RowsKept
    BY <1>0, <1>2, InsertKeeps
  <2> QED
    BY <1>0, <2>1, <2>4, <2>5, WriterPrompt
<1> QED
  BY <1>0, <1>1, <1>2 DEF Statement

LEMMA PromptNext ==
  ASSUME StoreInv, StoreInv', TypeInv, PromptInv, [ChatNext]_chatVars PROVE PromptInv'
<1>1. ASSUME NEW r \in Requests, OnLoop(r) PROVE PromptInv'
  BY <1>1, TaskPrompt DEF OnLoop
<1>2. ASSUME NEW r \in Requests, LoopFree, BrowserStep(r) PROVE PromptInv'
  BY <1>2, BrowserPrompt
<1>3. ASSUME UNCHANGED <<at, answer, convo, heard, prompt, rows>>,
             \A q \in Requests : save'[q] = save[q]
      PROVE  PromptInv'
  <2>1. ASSUME NEW q \in Requests PROVE PromptLocal(q)'
    <3>1. heard[q] \subseteq DOMAIN rows /\ PromptLocal(q) /\ rows \in Seq(ChatRow)
      BY DEF PromptInv, TypeInv, ChatTypeOK, StoreInv, StoreTypes
    <3> QED
      BY <1>3, <3>1, OthersKeep, SameRowsKept DEF Untouched
  <2> QED
    BY <1>3, <2>1 DEF PromptInv
<1>4. ASSUME NEW r \in Requests, CloseRun(r) PROVE PromptInv'
  BY <1>3, <1>4 DEF CloseRun, storeVars
<1>5. ASSUME NEW t \in Threads, NEW r \in Requests, PostIntervention(t, r) PROVE PromptInv'
  <2>1. \A q \in Requests : q \in Writers /\ q # t
    BY ChatAssumption
  <2>2. \A q \in Requests : save'[q] = save[q]
    BY <1>5, <2>1 DEF PostIntervention, AskToSave, StoreInv, StoreTypes
  <2> QED
    BY <1>3, <1>5, <2>2 DEF PostIntervention, requestVars
<1>6. ASSUME NEW w \in Writers, SaveMessage(w) PROVE PromptInv'
  BY <1>6, StatementPrompt
<1>7. CASE UNCHANGED chatVars
  BY <1>3, <1>7 DEF chatVars, requestVars, storeVars
<1> QED
  BY <1>1, <1>2, <1>4, <1>5, <1>6, <1>7 DEF ChatNext

LEMMA PromptStart == ChatInit => PromptInv
BY DEF ChatInit, PromptInv, PromptLocal, InLoop

(***************************************************************************)
(* Whatever a session holds and however its requests and operators         *)
(* interleave, what the model is sent is sound: it ends like the turn's    *)
(* messages, starts with a user message where something was summarised,    *)
(* is then shorter by the estimate of tokens, and keeps every tool result  *)
(* with the message that asked for it.                                     *)
(***************************************************************************)
THEOREM PromptsAreSound == ChatSpec => []PromptIsSound
<1>1. PromptInv => PromptIsSound
  BY DEF PromptInv, PromptLocal, SoundFor, PromptIsSound, Full
<1>2. ChatInit => StoreInv /\ TypeInv /\ PromptInv
  BY StoreStart, TypesStart, PromptStart
<1>3. /\ StoreInv /\ TypeInv /\ PromptInv /\ [ChatNext]_chatVars
      => (StoreInv /\ TypeInv /\ PromptInv)'
  BY StoreNext, TypesNext, PromptNext
<1> QED
  BY <1>1, <1>2, <1>3, PTL DEF ChatSpec
=============================================================================
