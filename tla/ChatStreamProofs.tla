-------------------------- MODULE ChatStreamProofs --------------------------
(***************************************************************************)
(* What the event stream says, for any number of requests, providers,      *)
(* turns and parts of a text.  First what is carried to the browser and    *)
(* the one verdict, then the text of the answer.                           *)
(***************************************************************************)
EXTENDS ChatRequestProofs, SequenceTheorems

Kinds == {"timeline_updated", "run_started", "run_failed", "run_suspended", "error", "end"}

ChatEvent ==
  [kind : Kinds] \cup [kind : {"text_delta"}, from : Registered, part : Nat]
  \cup [kind : {"run_completed"}, from : Registered \cup {"none"}, parts : Nat]

Quiet(s) == \A i \in DOMAIN s : s[i].kind \notin Verdicts \cup {"end"}

BeforeRun == {"absent", "new", "rejected", "accepted", "abandoned", "task", "save_user"}

InGraph == {"turn", "compact", "stream", "route", "tools", "finalize"}

\* The stream and the status of the run, by the place where the task is.
Story(r) ==
  /\ at[r] \in BeforeRun => made[r] = <<>> /\ run[r] = "none"
  /\ at[r] \in InGraph => Quiet(made[r]) /\ run[r] \in {"running"} \cup Closed
  /\ at[r] = "save_answer" => Quiet(made[r]) /\ run[r] = "completed"
  /\ at[r] = "title" =>
       /\ run[r] = "completed"
       /\ \E q \in Seq(ChatEvent), e \in ChatEvent :
            made[r] = q \o <<e>> /\ Quiet(q) /\ e.kind = "run_completed"
  /\ at[r] = "done" =>
       \E q \in Seq(ChatEvent), e \in ChatEvent :
         /\ made[r] = q \o <<e, EndOfStream>> /\ Quiet(q)
         /\ e.kind \in Verdicts /\ VerdictIsTrue(r, e.kind)

\* What was made is what was read and what is queued; a browser that left
\* has read the beginning.
Carried(r) ==
  /\ attached[r] => made[r] = seen[r] \o queue[r]
  /\ ~attached[r] => queue[r] = <<>>
  /\ \E rest \in Seq(ChatEvent) : made[r] = seen[r] \o rest

StreamTypes ==
  /\ attached \in [Requests -> BOOLEAN]
  /\ queue \in [Requests -> Seq(ChatEvent)]
  /\ made \in [Requests -> Seq(ChatEvent)] /\ seen \in [Requests -> Seq(ChatEvent)]

StreamInv == StreamTypes /\ \A r \in Requests : Story(r) /\ Carried(r)

LEMMA EndIsEvent == EndOfStream \in ChatEvent /\ EndOfStream.kind = "end"
BY DEF EndOfStream, ChatEvent, Kinds

LEMMA EventsConcat ==
  ASSUME NEW s \in Seq(ChatEvent), NEW t \in Seq(ChatEvent), NEW u \in Seq(ChatEvent)
  PROVE  (s \o t) \o u = s \o (t \o u) /\ t \o u \in Seq(ChatEvent)
BY ConcatAssociative, ConcatProperties

LEMMA EmptyConcat ==
  ASSUME NEW s \in Seq(ChatEvent), NEW t \in Seq(ChatEvent), s \o t = <<>>
  PROVE  s = <<>> /\ t = <<>>
BY ConcatEqualIffEmpty

LEMMA QuietGrows == ASSUME NEW s \in Seq(ChatEvent), Quiet(s), NEW e \in ChatEvent,
                           e.kind \notin Verdicts \cup {"end"}
                    PROVE  Quiet(s \o <<e>>)
BY DEF Quiet

\* The sentinel is the last event.
LEMMA OnlyLastEnds ==
  ASSUME StreamInv, TypeInv, NEW r \in Requests, NEW i \in DOMAIN made[r], made[r][i].kind = "end"
  PROVE  i = Len(made[r])
<1>1. made[r] \in Seq(ChatEvent) /\ Story(r) /\ at[r] \in Place
  BY DEF StreamInv, StreamTypes, TypeInv, ChatTypeOK
<1>2. ~Quiet(made[r]) /\ made[r] # <<>>
  BY <1>1 DEF Quiet
<1>3. at[r] \in {"title", "done"}
  BY <1>1, <1>2 DEF Story, BeforeRun, InGraph, Place
<1>4. CASE at[r] = "title"
  <2>1. PICK q \in Seq(ChatEvent), e \in ChatEvent :
          made[r] = q \o <<e>> /\ Quiet(q) /\ e.kind = "run_completed"
    BY <1>1, <1>4 DEF Story
  <2>2. /\ Len(made[r]) = Len(q) + 1 /\ made[r][Len(q) + 1] = e
        /\ \A k \in 1 .. Len(q) : made[r][k] = q[k]
    BY <2>1
  <2> QED
    BY <1>1, <2>1, <2>2 DEF Quiet
<1>5. CASE at[r] = "done"
  <2>1. PICK q \in Seq(ChatEvent), e \in ChatEvent :
          made[r] = q \o <<e, EndOfStream>> /\ Quiet(q) /\ e.kind \in Verdicts
    BY <1>1, <1>5 DEF Story
  <2>2. /\ Len(made[r]) = Len(q) + 2 /\ made[r][Len(q) + 1] = e
        /\ \A k \in 1 .. Len(q) : made[r][k] = q[k]
    BY <2>1, EndIsEvent
  <2>3. e.kind # "end"
    BY <2>1 DEF Verdicts
  <2> QED
    BY <1>1, <2>1, <2>2, <2>3 DEF Quiet
<1> QED
  BY <1>3, <1>4, <1>5

\* Actions that put no event for anyone but r.
Aside(r) ==
  \A q \in Requests \ {r} :
    /\ at'[q] = at[q] /\ run'[q] = run[q] /\ made'[q] = made[q] /\ queue'[q] = queue[q]
    /\ seen'[q] = seen[q] /\ attached'[q] = attached[q]

LEMMA OneSpeaks == ASSUME StreamInv, NEW r \in Requests, Aside(r), StreamTypes', Story(r)', Carried(r)'
                   PROVE  StreamInv'
<1>1. ASSUME NEW q \in Requests PROVE Story(q)' /\ Carried(q)'
  <2>1. CASE q = r
    BY <2>1
  <2>2. CASE q # r
    <3>1. /\ at'[q] = at[q] /\ run'[q] = run[q] /\ made'[q] = made[q] /\ queue'[q] = queue[q]
          /\ seen'[q] = seen[q] /\ attached'[q] = attached[q]
      BY <2>2 DEF Aside
    <3>2. Story(q) /\ Carried(q)
      BY DEF StreamInv
    <3>3. \A kind : VerdictIsTrue(q, kind)' <=> VerdictIsTrue(q, kind)
      BY <3>1 DEF VerdictIsTrue
    <3>4. Story(q)'
      BY <3>1, <3>2, <3>3 DEF Story
    <3>5. Carried(q)'
      BY <3>1, <3>2 DEF Carried
    <3> QED
      BY <3>4, <3>5
  <2> QED
    BY <2>1, <2>2
<1> QED
  BY <1>1 DEF StreamInv

\* Events that are put are carried.
LEMMA PutCarries ==
  ASSUME StreamInv, NEW r \in Requests, NEW events \in Seq(ChatEvent), Put(r, events)
  PROVE  /\ StreamTypes' /\ Carried(r)' /\ made'[r] = made[r] \o events
         /\ \A q \in Requests \ {r} : /\ made'[q] = made[q] /\ queue'[q] = queue[q]
                                     /\ seen'[q] = seen[q] /\ attached'[q] = attached[q]
<1> USE DEF StreamInv, StreamTypes
<1>1. /\ made[r] \in Seq(ChatEvent) /\ queue[r] \in Seq(ChatEvent) /\ seen[r] \in Seq(ChatEvent)
      /\ made[r] \o events \in Seq(ChatEvent) /\ queue[r] \o events \in Seq(ChatEvent)
  BY ConcatProperties
<1>2. /\ made'[r] = made[r] \o events /\ UNCHANGED <<attached, seen>>
      /\ queue'[r] = IF attached[r] THEN queue[r] \o events ELSE queue[r]
      /\ \A q \in Requests \ {r} : made'[q] = made[q] /\ queue'[q] = queue[q]
  BY DEF Put
<1>3. StreamTypes'
  BY <1>1, <1>2 DEF Put
<1>4. PICK rest \in Seq(ChatEvent) : made[r] = seen[r] \o rest
  BY DEF Carried
<1>5. made'[r] = seen[r] \o (rest \o events) /\ rest \o events \in Seq(ChatEvent)
  <2>0. rest \in Seq(ChatEvent) /\ seen[r] \in Seq(ChatEvent) /\ events \in Seq(ChatEvent)
    BY <1>1
  <2>1. /\ (seen[r] \o rest) \o events = seen[r] \o (rest \o events)
        /\ rest \o events \in Seq(ChatEvent)
    BY <2>0, EventsConcat, Zenon
  <2> QED
    BY <1>2, <1>4, <2>1, Zenon
<1>6. attached[r] => made'[r] = seen[r] \o (queue[r] \o events)
  <2>0. queue[r] \in Seq(ChatEvent) /\ seen[r] \in Seq(ChatEvent) /\ events \in Seq(ChatEvent)
    BY <1>1
  <2>1. (seen[r] \o queue[r]) \o events = seen[r] \o (queue[r] \o events)
    BY <2>0, EventsConcat, Zenon
  <2>2. attached[r] => made[r] = seen[r] \o queue[r]
    BY DEF Carried
  <2> QED
    BY <1>2, <2>1, <2>2, Zenon
<1>7. Carried(r)'
  BY <1>2, <1>5, <1>6 DEF Carried
<1> QED
  BY <1>2, <1>3, <1>7

\* The subscriber takes an event; when it is the sentinel nothing is left.
LEMMA ReadCarries ==
  ASSUME StreamInv, TypeInv, NEW r \in Requests, Read(r)
  PROVE  StreamTypes' /\ Carried(r)'
<1> USE DEF StreamInv, StreamTypes
<1> DEFINE h == Head(queue[r])
           t == Tail(queue[r])
<1>1. /\ made[r] \in Seq(ChatEvent) /\ queue[r] \in Seq(ChatEvent) /\ seen[r] \in Seq(ChatEvent)
      /\ queue[r] # <<>> /\ attached[r] /\ made[r] = seen[r] \o queue[r]
  BY DEF Read, Carried
<1>2. /\ h \in ChatEvent /\ t \in Seq(ChatEvent) /\ queue[r] = <<h>> \o t /\ <<h>> \in Seq(ChatEvent)
      /\ Len(t) = Len(queue[r]) - 1 /\ queue[r][1] = h
  BY <1>1
<1>3. /\ seen'[r] = Append(seen[r], h) /\ queue'[r] = t /\ attached'[r] = (h # EndOfStream)
      /\ UNCHANGED made
  BY DEF Read
<1> HIDE DEF h, t
<1>4. Append(seen[r], h) = seen[r] \o <<h>> /\ Append(seen[r], h) \in Seq(ChatEvent)
  BY <1>1, <1>2
<1>5. made[r] = Append(seen[r], h) \o t
  <2>1. (seen[r] \o <<h>>) \o t = seen[r] \o (<<h>> \o t)
    BY <1>1, <1>2, EventsConcat, Zenon
  <2> QED
    BY <1>1, <1>2, <1>4, <2>1, Zenon
<1>6. h = EndOfStream => t = <<>>
  <2> SUFFICES ASSUME h = EndOfStream PROVE t = <<>>
    OBVIOUS
  <2>1. /\ Len(made[r]) = Len(seen[r]) + Len(queue[r]) /\ made[r][Len(seen[r]) + 1] = h
        /\ Len(seen[r]) + 1 \in DOMAIN made[r]
    BY <1>1, <1>2
  <2>2. Len(seen[r]) + 1 = Len(made[r])
    BY <2>1, OnlyLastEnds, EndIsEvent
  <2> QED
    BY <1>1, <1>2, <2>1, <2>2
<1>7. StreamTypes'
  BY <1>2, <1>4 DEF Read, h, t
<1> QED
  BY <1>2, <1>3, <1>5, <1>6, <1>7 DEF Carried

\* The places and runs of the other requests.
Elsewhere(r) == \A q \in Requests \ {r} : at'[q] = at[q] /\ run'[q] = run[q]

\* Three ways to go on: without an event, with one that is no verdict, and
\* with a verdict and the end.
LEMMA Silently == ASSUME StreamInv, NEW r \in Requests, UNCHANGED streamVars, Elsewhere(r), Story(r)'
                  PROVE  StreamInv'
<1>1. Aside(r) /\ StreamTypes' /\ Carried(r)'
  <2>1. StreamTypes /\ Carried(r) /\ UNCHANGED <<attached, queue, made, seen>>
    BY DEF StreamInv, streamVars
  <2> QED
    BY <2>1 DEF Elsewhere, Aside, StreamTypes, Carried
<1> QED
  BY <1>1, OneSpeaks

LEMMA Quietly ==
  ASSUME StreamInv, NEW r \in Requests, Elsewhere(r), NEW e \in ChatEvent, Put(r, <<e>>),
         e.kind \notin Verdicts \cup {"end"}, Quiet(made[r]), at'[r] \in InGraph,
         run'[r] \in {"running"} \cup Closed
  PROVE  StreamInv'
<1>0. <<e>> \in Seq(ChatEvent)
  OBVIOUS
<1>1. /\ StreamTypes' /\ Carried(r)' /\ made'[r] = made[r] \o <<e>> /\ Aside(r)
  BY <1>0, PutCarries DEF Elsewhere, Aside
<1>2. Quiet(made'[r])
  BY <1>1, QuietGrows DEF StreamInv, StreamTypes
<1>3. Story(r)'
  BY <1>2 DEF Story, BeforeRun, InGraph
<1> QED
  BY <1>1, <1>3, OneSpeaks

LEMMA WithVerdict ==
  ASSUME StreamInv, NEW r \in Requests, Elsewhere(r), NEW e \in ChatEvent,
         Put(r, <<e, EndOfStream>>), e.kind \in Verdicts, Quiet(made[r]), at'[r] = "done",
         VerdictIsTrue(r, e.kind)'
  PROVE  StreamInv'
<1>0. <<e, EndOfStream>> \in Seq(ChatEvent)
  BY EndIsEvent
<1>1. /\ StreamTypes' /\ Carried(r)' /\ made'[r] = made[r] \o <<e, EndOfStream>> /\ Aside(r)
  BY <1>0, PutCarries DEF Elsewhere, Aside
<1>2. made[r] \in Seq(ChatEvent)
  BY DEF StreamInv, StreamTypes
<1>3. Story(r)'
  BY <1>1, <1>2 DEF Story, BeforeRun, InGraph
<1> QED
  BY <1>1, <1>3, OneSpeaks

LEMMA EventTypes ==
  /\ Timeline \in ChatEvent /\ Timeline.kind = "timeline_updated"
  /\ \A k \in Kinds : Event(k) \in ChatEvent /\ Event(k).kind = k
  /\ \A p \in Registered, n \in Nat : Delta(p, n) \in ChatEvent /\ Delta(p, n).kind = "text_delta"
  /\ \A a \in Answer : Final(a) \in ChatEvent /\ Final(a).kind = "run_completed"
BY DEF Timeline, Event, Delta, Final, ChatEvent, Kinds, Answer

LEMMA OneThenEnd == ASSUME NEW e PROVE Append(<<e>>, EndOfStream) = <<e, EndOfStream>>
<1> DEFINE S == {e, EndOfStream}
           long == Append(<<e>>, EndOfStream)
           pair == <<e, EndOfStream>>
<1>1. long \in Seq(S) /\ pair \in Seq(S) /\ Len(long) = 2 /\ Len(pair) = 2
  OBVIOUS
<1>2. \A i \in 1 .. Len(long) : long[i] = pair[i]
  <2>1. long[1] = e /\ pair[1] = e /\ long[2] = EndOfStream /\ pair[2] = EndOfStream
    OBVIOUS
  <2> HIDE DEF long, pair
  <2> QED
    BY <1>1, <2>1
<1> HIDE DEF long, pair, S
<1>3. long = pair
  BY <1>1, <1>2, SeqEqual
<1> QED
  BY <1>3 DEF long, pair

\* A run that fails, or that others closed, is reported as failed.
LEMMA FailRunStream ==
  ASSUME StreamInv, TypeInv, NEW r \in Requests, FailRun(r), at[r] \in InGraph
  PROVE  StreamInv'
<1>1. Quiet(made[r]) /\ run[r] \in {"running"} \cup Closed
  BY DEF StreamInv, Story
<1>2. at \in [Requests -> Place] /\ run \in [Requests -> RunStatus]
  BY DEF TypeInv, ChatTypeOK
<1>3. /\ at'[r] = "done" /\ Put(r, <<Event("run_failed"), EndOfStream>>) /\ Elsewhere(r)
      /\ run'[r] \in {"failed"} \cup Closed
  BY <1>1, <1>2, OneThenEnd DEF FailRun, Ends, Goes, Elsewhere, Updated, Active, Closed
<1>4. VerdictIsTrue(r, "run_failed")'
  BY <1>3 DEF VerdictIsTrue, Closed
<1>5. /\ Event("run_failed") \in ChatEvent /\ Event("run_failed").kind = "run_failed"
      /\ "run_failed" \in Verdicts
  BY EventTypes DEF Kinds, Verdicts
<1> QED
  BY <1>1, <1>3, <1>4, <1>5, WithVerdict

LEMMA TaskStream == ASSUME StreamInv, TypeInv, NEW r \in Requests, TaskStep(r) PROVE StreamInv'
<1>0. /\ at \in [Requests -> Place] /\ run \in [Requests -> RunStatus] /\ answer[r] \in Answer
      /\ Story(r) /\ made[r] \in Seq(ChatEvent)
  BY DEF TypeInv, ChatTypeOK, StreamInv, StreamTypes
<1>1. at[r] \in InGraph => Quiet(made[r]) /\ run[r] \in {"running"} \cup Closed
  BY <1>0 DEF Story
<1>q. /\ Timeline \in ChatEvent /\ Timeline.kind \notin Verdicts \cup {"end"}
  BY EventTypes DEF Verdicts
<1>2. CASE StartTask(r)
  <2>1. made[r] = <<>> /\ run[r] = "none" /\ Elsewhere(r) /\ run'[r] = run[r]
    BY <1>0, <1>2 DEF StartTask, Story, BeforeRun, Elsewhere, Goes, Ends
  <2>2. CASE Goes(r, "save_user") /\ UNCHANGED streamVars
    <3>1. Story(r)'
      BY <1>0, <2>1, <2>2 DEF Story, Goes, streamVars, BeforeRun, InGraph
    <3> QED
      BY <2>1, <2>2, <3>1, Silently
  <2>3. CASE Ends(r, <<Event("error")>>)
    <3>1. at'[r] = "done" /\ Put(r, <<Event("error"), EndOfStream>>)
      BY <1>0, <2>3, OneThenEnd DEF Ends, Goes
    <3>2. /\ Event("error") \in ChatEvent /\ Event("error").kind = "error" /\ "error" \in Verdicts
      BY EventTypes DEF Kinds, Verdicts
    <3>3. VerdictIsTrue(r, "error")' /\ Quiet(made[r])
      BY <2>1 DEF VerdictIsTrue, Quiet
    <3> QED
      BY <2>1, <3>1, <3>2, <3>3, WithVerdict
  <2> QED
    BY <1>2, <2>2, <2>3 DEF StartTask
<1>3. CASE BeginRun(r)
  <2>1. made[r] = <<>> /\ Elsewhere(r) /\ run'[r] = "running" /\ at'[r] = "turn"
        /\ Put(r, <<Event("run_started")>>)
    BY <1>0, <1>3 DEF BeginRun, Story, BeforeRun, Elsewhere, Goes
  <2>2. /\ Event("run_started") \in ChatEvent /\ Event("run_started").kind = "run_started"
        /\ "run_started" \notin Verdicts \cup {"end"} /\ Quiet(made[r]) /\ at'[r] \in InGraph
    BY <2>1, EventTypes DEF Kinds, Verdicts, Quiet, InGraph
  <2> QED
    BY <2>1, <2>2, Quietly
<1>4. CASE Put(r, <<Timeline>>) /\ at[r] \in InGraph /\ at'[r] \in InGraph
           /\ UNCHANGED run /\ Elsewhere(r)
  BY <1>1, <1>4, <1>q, Quietly
<1>5. CASE UNCHANGED <<streamVars, run>> /\ at[r] \in InGraph /\ at'[r] \in InGraph /\ Elsewhere(r)
  <2>1. Story(r)'
    BY <1>1, <1>5 DEF Story, streamVars, BeforeRun, InGraph
  <2> QED
    BY <1>5, <2>1, Silently
<1>6. CASE StartTurn(r) \/ Compact(r) \/ FinishAnswer(r) \/ ProviderFails(r) \/ Route(r) \/ RunTools(r)
  <2>1. at[r] \in InGraph /\ at'[r] \in InGraph /\ UNCHANGED run /\ Elsewhere(r)
    BY <1>0, <1>6 DEF StartTurn, Compact, FinishAnswer, ProviderFails, Route, RunTools, InGraph, Goes,
                      Elsewhere, requestVars
  <2>2. Put(r, <<Timeline>>) \/ UNCHANGED streamVars
    BY <1>6 DEF StartTurn, Compact, FinishAnswer, ProviderFails, Route, RunTools
  <2> QED
    BY <1>4, <1>5, <2>1, <2>2
<1>7. CASE StreamText(r)
  <2>1. Speaker(r) \in Registered /\ call[r].parts + 1 \in Nat
    <3>1. call[r] \in CallType /\ call[r].next \in DOMAIN call[r].order
      BY <1>7 DEF StreamText, TypeInv, ChatTypeOK
    <3> QED
      BY <3>1 DEF Speaker, CallType
  <2> DEFINE e == Delta(Speaker(r), call[r].parts + 1)
  <2>2. e \in ChatEvent /\ e.kind \notin Verdicts \cup {"end"}
    BY <2>1, EventTypes DEF Verdicts
  <2>3. Put(r, <<e>>) /\ at[r] \in InGraph /\ at' = at /\ run' = run
    BY <1>7 DEF StreamText, requestVars, InGraph
  <2> HIDE DEF e
  <2> QED
    BY <1>1, <2>2, <2>3, Quietly DEF Elsewhere
<1>8. CASE GraphRaises(r)
  BY <1>8, FailRunStream DEF GraphRaises, InGraph
<1>9. CASE Finalize(r)
  <2>1. at[r] \in InGraph /\ Quiet(made[r]) /\ run[r] \in {"running"} \cup Closed
    BY <1>1, <1>9 DEF Finalize, InGraph
  <2>2. CASE FailRun(r)
    BY <2>1, <2>2, FailRunStream
  <2>3. CASE run' = Updated(r, "waiting_approval") /\ Ends(r, <<Event("run_suspended")>>)
    <3>1. /\ at'[r] = "done" /\ Put(r, <<Event("run_suspended"), EndOfStream>>) /\ Elsewhere(r)
          /\ run'[r] \in {"waiting_approval"} \cup Closed
      BY <1>0, <2>1, <2>3, OneThenEnd DEF Ends, Goes, Elsewhere, Updated, Active, Closed
    <3>2. VerdictIsTrue(r, "run_suspended")'
      BY <3>1 DEF VerdictIsTrue, Closed
    <3>3. /\ Event("run_suspended") \in ChatEvent /\ Event("run_suspended").kind = "run_suspended"
          /\ "run_suspended" \in Verdicts
      BY EventTypes DEF Kinds, Verdicts
    <3> QED
      BY <2>1, <3>1, <3>2, <3>3, WithVerdict
  <2>4. CASE run[r] \in Closed /\ Ends(r, <<Event("run_failed")>>) /\ UNCHANGED run
    <3>1. at'[r] = "done" /\ Put(r, <<Event("run_failed"), EndOfStream>>) /\ Elsewhere(r)
      BY <1>0, <2>4, OneThenEnd DEF Ends, Goes, Elsewhere
    <3>2. VerdictIsTrue(r, "run_failed")'
      BY <2>4 DEF VerdictIsTrue, Closed
    <3>3. /\ Event("run_failed") \in ChatEvent /\ Event("run_failed").kind = "run_failed"
          /\ "run_failed" \in Verdicts
      BY EventTypes DEF Kinds, Verdicts
    <3> QED
      BY <2>1, <3>1, <3>2, <3>3, WithVerdict
  <2>5. CASE /\ run[r] \notin Closed /\ run' = Updated(r, "completed")
             /\ Goes(r, "save_answer") /\ UNCHANGED streamVars
    <3>1. at'[r] = "save_answer" /\ run'[r] = "completed" /\ Elsewhere(r) /\ made'[r] = made[r]
      BY <1>0, <2>1, <2>5 DEF Goes, Elsewhere, Updated, Active, streamVars
    <3>2. Story(r)'
      BY <2>1, <3>1 DEF Story, BeforeRun, InGraph
    <3> QED
      BY <2>5, <3>1, <3>2, Silently
  <2> QED
    BY <1>9, <2>2, <2>3, <2>4, <2>5 DEF Finalize
<1>10. CASE Complete(r)
  <2> DEFINE e == Final(answer[r])
  <2>1. /\ Quiet(made[r]) /\ run'[r] = "completed" /\ Elsewhere(r) /\ e \in ChatEvent
        /\ e.kind = "run_completed" /\ "run_completed" \in Verdicts
    BY <1>0, <1>10, EventTypes DEF Complete, Story, Elsewhere, Goes, Ends, Verdicts
  <2>2. CASE Goes(r, "title") /\ Put(r, <<e>>)
    <3> HIDE DEF e
    <3>1. <<e>> \in Seq(ChatEvent) /\ at'[r] = "title"
      BY <1>0, <2>1, <2>2 DEF Goes
    <3>2. /\ StreamTypes' /\ Carried(r)' /\ made'[r] = made[r] \o <<e>> /\ Aside(r)
      BY <2>1, <2>2, <3>1, PutCarries DEF Elsewhere, Aside
    <3>3. Story(r)'
      BY <1>0, <2>1, <3>1, <3>2 DEF Story, BeforeRun, InGraph
    <3> QED
      BY <3>2, <3>3, OneSpeaks
  <2>3. CASE Ends(r, <<e>>)
    <3> HIDE DEF e
    <3>1. at'[r] = "done" /\ Put(r, <<e, EndOfStream>>)
      BY <1>0, <2>3, OneThenEnd DEF Ends, Goes
    <3>2. VerdictIsTrue(r, "run_completed")'
      BY <2>1 DEF VerdictIsTrue
    <3> QED
      BY <2>1, <3>1, <3>2, WithVerdict
  <2> QED
    BY <1>10, <2>2, <2>3 DEF Complete
<1>11. CASE MakeTitle(r)
  <2>1. /\ run[r] = "completed" /\ run' = run /\ Elsewhere(r) /\ at'[r] = "done"
        /\ Put(r, <<EndOfStream>>)
    BY <1>0, <1>11 DEF MakeTitle, Story, Elsewhere, Goes, Ends
  <2>2. PICK q \in Seq(ChatEvent), e \in ChatEvent :
          made[r] = q \o <<e>> /\ Quiet(q) /\ e.kind = "run_completed"
    BY <1>0, <1>11 DEF MakeTitle, Story
  <2>3. <<EndOfStream>> \in Seq(ChatEvent)
    BY EndIsEvent
  <2>4. /\ StreamTypes' /\ Carried(r)' /\ made'[r] = made[r] \o <<EndOfStream>> /\ Aside(r)
    BY <2>1, <2>3, PutCarries DEF Elsewhere, Aside
  <2>5. (q \o <<e>>) \o <<EndOfStream>> = q \o <<e, EndOfStream>>
    BY EndIsEvent
  <2>6. VerdictIsTrue(r, e.kind)' /\ e.kind \in Verdicts
    BY <2>1, <2>2 DEF VerdictIsTrue, Verdicts
  <2>7. Story(r)'
    BY <2>1, <2>2, <2>4, <2>5, <2>6 DEF Story, BeforeRun, InGraph
  <2> QED
    BY <2>4, <2>7, OneSpeaks
<1> QED
  BY <1>2, <1>3, <1>6, <1>7, <1>8, <1>9, <1>10, <1>11 DEF TaskStep

\* Nothing was streamed when the subscriber attaches.
LEMMA AttachStream ==
  ASSUME StreamInv, NEW r \in Requests, at[r] = "accepted", Attach(r), Elsewhere(r), UNCHANGED run,
         at'[r] = "task"
  PROVE  StreamInv'
<1>0. StreamTypes /\ Story(r) /\ Carried(r)
  BY DEF StreamInv
<1>1. made[r] = <<>> /\ run[r] = "none"
  BY <1>0 DEF Story, BeforeRun
<1>2. seen[r] \in Seq(ChatEvent) /\ queue[r] \in Seq(ChatEvent)
  BY <1>0 DEF StreamTypes
<1>3. seen[r] = <<>>
  <2>1. PICK rest \in Seq(ChatEvent) : seen[r] \o rest = <<>>
    BY <1>0, <1>1 DEF Carried
  <2> QED
    BY <1>2, <2>1, EmptyConcat, Zenon
<1>4. queue[r] = <<>>
  <2>1. CASE attached[r]
    <3>1. seen[r] \o queue[r] = <<>>
      BY <1>0, <1>1, <2>1 DEF Carried
    <3> QED
      BY <1>2, <3>1, EmptyConcat, Zenon
  <2>2. CASE ~attached[r]
    BY <1>0, <2>2 DEF Carried
  <2> QED
    BY <2>1, <2>2
<1>5. attached'[r] /\ UNCHANGED <<queue, made, seen>> /\ StreamTypes' /\ Aside(r)
  BY <1>0 DEF Attach, StreamTypes, Aside, Elsewhere
<1>6. Carried(r)'
  <2>1. <<>> = <<>> \o <<>> /\ <<>> \in Seq(ChatEvent)
    OBVIOUS
  <2> QED
    BY <1>1, <1>3, <1>4, <1>5, <2>1 DEF Carried
<1>7. Story(r)'
  BY <1>1, <1>5 DEF Story, BeforeRun, InGraph
<1> QED
  BY <1>5, <1>6, <1>7, OneSpeaks

LEMMA StreamNext == ASSUME StreamInv, TypeInv, [ChatNext]_chatVars PROVE StreamInv'
<1>0. at \in [Requests -> Place] /\ run \in [Requests -> RunStatus] /\ StreamTypes
  BY DEF TypeInv, ChatTypeOK, StreamInv
<1>1. ASSUME NEW r \in Requests, OnLoop(r) PROVE StreamInv'
  BY <1>1, TaskStream DEF OnLoop
<1>2. ASSUME NEW r \in Requests, Arrive(r) PROVE StreamInv'
  <2>1. Story(r) /\ UNCHANGED <<run, streamVars>> /\ Elsewhere(r)
        /\ at[r] = "new" /\ at'[r] \in {"rejected", "accepted"}
    BY <1>0, <1>2 DEF Arrive, Goes, Elsewhere, StreamInv
  <2>2. Story(r)'
    BY <2>1 DEF Story, BeforeRun, InGraph, streamVars
  <2> QED
    BY <2>1, <2>2, Silently
<1>3. ASSUME NEW r \in Requests, StartStream(r) PROVE StreamInv'
  <2>1. /\ at[r] = "accepted" /\ Attach(r) /\ Elsewhere(r) /\ UNCHANGED run /\ at'[r] = "task"
    BY <1>0, <1>3 DEF StartStream, Goes, Elsewhere
  <2> QED
    BY <2>1, AttachStream
<1>4. ASSUME NEW r \in Requests, UNCHANGED <<at, run, made>>, \A q \in Requests \ {r} :
               queue'[q] = queue[q] /\ seen'[q] = seen[q] /\ attached'[q] = attached[q],
             StreamTypes', Carried(r)'
      PROVE  StreamInv'
  <2>1. Story(r) /\ Aside(r)
    BY <1>4 DEF StreamInv, Aside
  <2>2. \A kind : VerdictIsTrue(r, kind)' <=> VerdictIsTrue(r, kind)
    BY <1>4 DEF VerdictIsTrue
  <2>3. Story(r)'
    BY <1>4, <2>1, <2>2 DEF Story
  <2> QED
    BY <1>4, <2>1, <2>3, OneSpeaks
<1>5. ASSUME NEW r \in Requests, BrowserLeaves(r) PROVE StreamInv'
  <2>1. CASE Detach(r) /\ UNCHANGED at
    <3>1. /\ ~attached'[r] /\ queue'[r] = <<>> /\ UNCHANGED <<run, made, seen>> /\ StreamTypes'
          /\ \A q \in Requests \ {r} : queue'[q] = queue[q] /\ attached'[q] = attached[q]
      BY <1>0, <1>5, <2>1 DEF BrowserLeaves, Detach, StreamTypes
    <3>2. Carried(r)'
      BY <3>1 DEF StreamInv, Carried
    <3> QED
      BY <1>4, <2>1, <3>1, <3>2
  <2>2. CASE at[r] = "accepted" /\ Goes(r, "abandoned") /\ UNCHANGED streamVars
    <3>1. Story(r) /\ UNCHANGED run /\ Elsewhere(r) /\ at'[r] = "abandoned"
      BY <1>0, <1>5, <2>2 DEF BrowserLeaves, Goes, Elsewhere, StreamInv
    <3>2. Story(r)'
      BY <2>2, <3>1 DEF Story, BeforeRun, InGraph, streamVars
    <3> QED
      BY <2>2, <3>1, <3>2, Silently
  <2> QED
    BY <1>5, <2>1, <2>2 DEF BrowserLeaves
<1>6. ASSUME NEW r \in Requests, BrowserReads(r) PROVE StreamInv'
  <2>1. Read(r) /\ UNCHANGED <<at, run, made>>
    BY <1>6 DEF BrowserReads, Read, requestVars
  <2>2. StreamTypes' /\ Carried(r)'
    BY <2>1, ReadCarries
  <2>3. \A q \in Requests \ {r} : queue'[q] = queue[q] /\ seen'[q] = seen[q] /\ attached'[q] = attached[q]
    BY <1>0, <2>1 DEF Read, StreamTypes
  <2> QED
    BY <1>4, <2>1, <2>2, <2>3
<1>7. ASSUME NEW r \in Requests, CloseRun(r) PROVE StreamInv'
  <2>1. /\ Story(r) /\ UNCHANGED <<at, streamVars>> /\ Elsewhere(r) /\ run[r] \in Active
        /\ run'[r] \in Closed
    BY <1>0, <1>7, CaseFacts DEF CloseRun, Elsewhere, StreamInv, TypeInv, ChatTypeOK
  <2>2. \A kind \in Verdicts : VerdictIsTrue(r, kind) => VerdictIsTrue(r, kind)'
    BY <2>1 DEF VerdictIsTrue, Verdicts, Active, Closed
  <2>3. Story(r)'
    BY <2>1, <2>2 DEF Story, Active, streamVars
  <2> QED
    BY <2>1, <2>3, Silently
<1>8. ASSUME UNCHANGED <<at, run, streamVars>> PROVE StreamInv'
  <2>1. UNCHANGED <<at, run, attached, queue, made, seen>>
    BY <1>8 DEF streamVars
  <2>2. \A q, kind : VerdictIsTrue(q, kind)' <=> VerdictIsTrue(q, kind)
    BY <2>1 DEF VerdictIsTrue
  <2>3. ASSUME NEW q \in Requests PROVE Story(q)' /\ Carried(q)'
    BY <2>1, <2>2 DEF StreamInv, Story, Carried
  <2> QED
    BY <1>0, <2>1, <2>3 DEF StreamInv, StreamTypes
<1>9. ASSUME NEW t \in Threads, NEW r \in Requests, PostIntervention(t, r) PROVE StreamInv'
  BY <1>8, <1>9 DEF PostIntervention, requestVars
<1>10. ASSUME NEW w \in Writers, SaveMessage(w) PROVE StreamInv'
  BY <1>8, <1>10 DEF SaveMessage, requestVars
<1>11. CASE UNCHANGED chatVars
  BY <1>8, <1>11 DEF chatVars, requestVars
<1> QED
  BY <1>1, <1>2, <1>3, <1>5, <1>6, <1>7, <1>9, <1>10, <1>11 DEF ChatNext, BrowserStep

LEMMA StreamStart == ChatInit => StreamInv
<1> SUFFICES ASSUME ChatInit PROVE StreamInv
  OBVIOUS
<1>1. StreamTypes
  BY DEF ChatInit, StreamInit, StreamTypes
<1>2. ASSUME NEW r \in Requests PROVE Story(r) /\ Carried(r)
  <2>1. at[r] \in {"new", "absent"} /\ run[r] = "none" /\ made[r] = <<>> /\ seen[r] = <<>>
        /\ queue[r] = <<>> /\ ~attached[r]
    BY DEF ChatInit, StreamInit
  <2>2. <<>> = <<>> \o <<>> /\ <<>> \in Seq(ChatEvent)
    OBVIOUS
  <2>3. Carried(r)
    BY <2>1, <2>2 DEF Carried
  <2>4. Story(r)
    BY <2>1 DEF Story, BeforeRun, InGraph
  <2> QED
    BY <2>3, <2>4
<1> QED
  BY <1>1, <1>2 DEF StreamInv

\* What was read is a prefix of what was made.
LEMMA CarriedDelivers == ASSUME StreamTypes, NEW r \in Requests, Carried(r) PROVE Delivered(r)
<1>1. PICK rest \in Seq(ChatEvent) : made[r] = seen[r] \o rest
  BY DEF Carried
<1>2. seen[r] \in Seq(ChatEvent) /\ made[r] \in Seq(ChatEvent)
  BY DEF StreamTypes
<1>3. Len(seen[r]) <= Len(made[r]) /\ \A i \in 1 .. Len(seen[r]) : made[r][i] = seen[r][i]
  BY <1>1, <1>2
<1>4. SubSeq(seen[r], 1, Len(seen[r])) = SubSeq(made[r], 1, Len(seen[r]))
  BY <1>2, <1>3
<1>5. IsPrefix(seen[r], made[r])
  BY <1>3, <1>4 DEF IsPrefix
<1> QED
  BY <1>5 DEF Delivered, Carried

LEMMA StoryIsTrue == ASSUME StreamInv, TypeInv PROVE StreamTellsTruth
<1> SUFFICES ASSUME NEW r \in Requests
             PROVE  /\ Delivered(r)
                    /\ \A i \in DOMAIN made[r] : made[r][i].kind \in Verdicts =>
                         /\ VerdictIsTrue(r, made[r][i].kind)
                         /\ \A j \in DOMAIN made[r] : j > i => made[r][j] = EndOfStream
                    /\ at[r] = "done" => \E i \in DOMAIN made[r] : made[r][i].kind \in Verdicts
  BY DEF StreamTellsTruth
<1>0. Story(r) /\ Carried(r) /\ StreamTypes /\ at[r] \in Place
  BY DEF StreamInv, TypeInv, ChatTypeOK
<1>1. Delivered(r)
  BY <1>0, CarriedDelivers
<1>2. CASE at[r] \notin {"title", "done"}
  <2>1. Quiet(made[r])
    BY <1>0, <1>2 DEF Story, Quiet, Place, BeforeRun, InGraph
  <2> QED
    BY <1>1, <1>2, <2>1 DEF Quiet
<1>3. CASE at[r] = "title"
  <2>1. PICK q \in Seq(ChatEvent), e \in ChatEvent :
          made[r] = q \o <<e>> /\ Quiet(q) /\ e.kind = "run_completed"
    BY <1>0, <1>3 DEF Story
  <2>2. /\ DOMAIN made[r] = 1 .. Len(q) + 1 /\ made[r][Len(q) + 1] = e
        /\ \A k \in 1 .. Len(q) : made[r][k] = q[k]
    BY <2>1
  <2>3. VerdictIsTrue(r, e.kind)
    BY <1>0, <1>3, <2>1 DEF Story, VerdictIsTrue
  <2> QED
    BY <1>1, <1>3, <2>1, <2>2, <2>3 DEF Quiet
<1>4. CASE at[r] = "done"
  <2>1. PICK q \in Seq(ChatEvent), e \in ChatEvent :
          /\ made[r] = q \o <<e, EndOfStream>> /\ Quiet(q)
          /\ e.kind \in Verdicts /\ VerdictIsTrue(r, e.kind)
    BY <1>0, <1>4 DEF Story
  <2>2. /\ DOMAIN made[r] = 1 .. Len(q) + 2 /\ made[r][Len(q) + 1] = e
        /\ made[r][Len(q) + 2] = EndOfStream /\ \A k \in 1 .. Len(q) : made[r][k] = q[k]
        /\ Len(q) \in Nat /\ DOMAIN q = 1 .. Len(q)
    BY <2>1, EndIsEvent
  <2>3. "end" \notin Verdicts /\ EndOfStream.kind = "end"
    BY EndIsEvent DEF Verdicts
  <2>4. Len(q) + 1 \in DOMAIN made[r] /\ made[r][Len(q) + 1].kind \in Verdicts
    BY <2>1, <2>2
  <2>5. \A i \in DOMAIN made[r] : made[r][i].kind \in Verdicts => i = Len(q) + 1
    <3> SUFFICES ASSUME NEW i \in 1 .. Len(q) + 2, made[r][i].kind \in Verdicts PROVE i = Len(q) + 1
      BY <2>2
    <3>1. i # Len(q) + 2
      BY <2>2, <2>3
    <3>2. i \notin 1 .. Len(q)
      BY <2>1, <2>2 DEF Quiet
    <3> QED
      BY <2>2, <3>1, <3>2
  <2>6. \A j \in DOMAIN made[r] : j > Len(q) + 1 => made[r][j] = EndOfStream
    BY <2>2
  <2> QED
    BY <1>1, <2>1, <2>2, <2>4, <2>5, <2>6
<1> QED
  BY <1>2, <1>3, <1>4

(***************************************************************************)
(* For any number of requests, threads, turns and parts of a text: the     *)
(* browser has read a prefix of what the task streamed and loses nothing   *)
(* while it stays, and the one verdict of the stream, which comes right    *)
(* before its end, agrees with the row of the run.                         *)
(***************************************************************************)
THEOREM StreamIsTruthful == ChatSpec => []StreamTellsTruth
<1>1. ChatInit => StoreInv /\ TypeInv /\ StreamInv
  BY StoreStart, TypesStart, StreamStart
<1>2. StoreInv /\ TypeInv /\ StreamInv /\ [ChatNext]_chatVars => (StoreInv /\ TypeInv /\ StreamInv)'
  BY StoreNext, TypesNext, StreamNext
<1>3. TypeInv /\ StreamInv => StreamTellsTruth
  BY StoryIsTrue
<1> QED
  BY <1>1, <1>2, <1>3, PTL DEF ChatSpec
-----------------------------------------------------------------------------
(***************************************************************************)
(* What the stream says of the answer.                                     *)
(***************************************************************************)
DeltaIn(s, i) == i \in DOMAIN s /\ s[i].kind = "text_delta"

\* The parts 1 .. n of p's text, behind position b.
Parts(s, b, p, n) ==
  b >= 1 /\ s[b] = Timeline /\ \A k \in 1 .. n : s[b + k] = Delta(p, k)

Voice(s, i) ==
  /\ s[i].kind = "text_delta" =>
       IF DeltaIn(s, i - 1) THEN s[i] = Delta(s[i - 1].from, s[i - 1].part + 1)
                            ELSE s[i].part = 1
  /\ s[i].kind = "run_completed" =>
       /\ s[i].parts \in Nat /\ s[i - 1] = Timeline
       /\ Parts(s, i - s[i].parts - 2, s[i].from, s[i].parts)

OneVoice(s) == \A i \in DOMAIN s : Voice(s, i)

\* The stream ends with n parts of p's text; and with all of a turn.
Speaking(s, p, n) == Parts(s, Len(s) - n, p, n)

Spoken(s, p, n) ==
  Len(s) >= 1 /\ s[Len(s)] = Timeline /\ Parts(s, Len(s) - n - 1, p, n)

Answering(r) ==
  at[r] \in {"route", "save_answer"} \/ (at[r] = "finalize" /\ r \notin failed)

VoiceOf(r) ==
  /\ OneVoice(made[r])
  /\ at[r] = "compact" => Speaking(made[r], "none", 0)
  /\ at[r] = "stream" => Speaking(made[r], Speaker(r), call[r].parts)
  /\ Answering(r) => Spoken(made[r], answer[r].from, answer[r].parts)

VoiceInv == \A r \in Requests : VoiceOf(r)

\* Without parts it does not matter whose they are.
LEMMA NobodySpeaks == ASSUME NEW s, NEW p, NEW q, Speaking(s, p, 0) PROVE Speaking(s, q, 0)
BY DEF Speaking, Parts

\* A longer stream says the same of its beginning.
LEMMA VoiceKept == ASSUME NEW s \in Seq(ChatEvent), NEW e \in ChatEvent, NEW i \in DOMAIN s, Voice(s, i)
                   PROVE  Voice(s \o <<e>>, i)
<1> DEFINE w == s \o <<e>>
<1>1. DOMAIN s = 1 .. Len(s) /\ Len(s) \in Nat /\ DOMAIN w = 1 .. Len(s) + 1
      /\ \A k \in 1 .. Len(s) : w[k] = s[k]
  OBVIOUS
<1> HIDE DEF w
<1>2. w[i] = s[i] /\ (DeltaIn(w, i - 1) <=> DeltaIn(s, i - 1))
  BY <1>1 DEF DeltaIn
<1>3. DeltaIn(s, i - 1) => w[i - 1] = s[i - 1]
  BY <1>1 DEF DeltaIn
<1>4. ASSUME s[i].kind = "run_completed"
      PROVE  /\ w[i].parts \in Nat /\ w[i - 1] = Timeline
             /\ Parts(w, i - w[i].parts - 2, w[i].from, w[i].parts)
  <2> DEFINE n == s[i].parts
             b == i - n - 2
  <2>1. n \in Nat /\ s[i - 1] = Timeline /\ Parts(s, b, s[i].from, n)
    BY <1>4 DEF Voice
  <2>2. b \in 1 .. Len(s) /\ i - 1 \in 1 .. Len(s) /\ \A k \in 1 .. n : b + k \in 1 .. Len(s)
    BY <1>1, <2>1 DEF Parts
  <2>3. Parts(w, b, s[i].from, n) /\ w[i - 1] = Timeline
    BY <1>1, <2>1, <2>2 DEF Parts
  <2> QED
    BY <1>2, <2>1, <2>3
<1> QED
  BY <1>2, <1>3, <1>4 DEF Voice, w

LEMMA VoiceGrows == ASSUME NEW s \in Seq(ChatEvent), NEW e \in ChatEvent, OneVoice(s),
                           Voice(s \o <<e>>, Len(s) + 1)
                    PROVE  OneVoice(s \o <<e>>)
<1>1. DOMAIN (s \o <<e>>) = 1 .. Len(s) + 1 /\ DOMAIN s = 1 .. Len(s) /\ Len(s) \in Nat
  OBVIOUS
<1> QED
  BY <1>1, VoiceKept DEF OneVoice

LEMMA OtherVoice == ASSUME NEW s \in Seq(ChatEvent), NEW e \in ChatEvent, OneVoice(s),
                           e.kind \notin {"text_delta", "run_completed"}
                    PROVE  OneVoice(s \o <<e>>)
<1>1. (s \o <<e>>)[Len(s) + 1] = e
  OBVIOUS
<1> QED
  BY <1>1, VoiceGrows DEF Voice

\* The turn begins, goes on, and ends.
LEMMA TurnBegins == ASSUME NEW s \in Seq(ChatEvent), NEW p PROVE Speaking(s \o <<Timeline>>, p, 0)
<1> DEFINE w == s \o <<Timeline>>
<1>1. Len(w) = Len(s) + 1 /\ Len(s) \in Nat /\ w[Len(s) + 1] = Timeline
  OBVIOUS
<1> HIDE DEF w
<1> QED
  BY <1>1 DEF Speaking, Parts, w

LEMMA NextPart ==
  ASSUME NEW s \in Seq(ChatEvent), NEW p \in Registered, NEW n \in Nat, OneVoice(s), Speaking(s, p, n)
  PROVE  /\ OneVoice(s \o <<Delta(p, n + 1)>>)
         /\ Speaking(s \o <<Delta(p, n + 1)>>, p, n + 1)
<1> DEFINE e == Delta(p, n + 1)
           w == s \o <<e>>
<1>0. e \in ChatEvent /\ e.kind = "text_delta" /\ e.part = n + 1
  BY EventTypes DEF Delta
<1>1. /\ Len(w) = Len(s) + 1 /\ Len(s) \in Nat /\ w[Len(s) + 1] = e
      /\ DOMAIN w = 1 .. Len(s) + 1 /\ \A k \in 1 .. Len(s) : w[k] = s[k]
  BY <1>0
<1> HIDE DEF e, w
<1>2. /\ Len(s) - n >= 1 /\ s[Len(s) - n] = Timeline
      /\ \A k \in 1 .. n : s[Len(s) - n + k] = Delta(p, k)
  BY DEF Speaking, Parts
<1>8. \A k \in 1 .. n : w[Len(s) - n + k] = Delta(p, k)
  <2> TAKE k \in 1 .. n
  <2>1. Len(s) - n + k \in 1 .. Len(s)
    BY <1>1, <1>2
  <2> QED
    BY <1>1, <1>2, <2>1
<1>3. IF n = 0 THEN w[Len(s)] = Timeline ELSE w[Len(s)] = Delta(p, n)
  <2>1. CASE n = 0
    BY <1>1, <1>2, <2>1
  <2>2. CASE n # 0
    <3>1. n \in 1 .. n /\ Len(s) - n + n = Len(s)
      BY <1>1, <2>2
    <3>2. w[Len(s) - n + n] = Delta(p, n)
      BY <1>8, <3>1
    <3> QED
      BY <2>2, <3>1, <3>2
  <2> QED
    BY <2>1, <2>2
<1>4. Timeline.kind # "text_delta" /\ Delta(p, n).kind = "text_delta" /\ Delta(p, n).part = n
      /\ Delta(p, n).from = p
  BY DEF Timeline, Event, Delta
<1>5. Voice(w, Len(s) + 1)
  <2>1. CASE n = 0
    BY <1>0, <1>1, <1>3, <1>4, <2>1 DEF Voice, DeltaIn
  <2>2. CASE n # 0
    <3>1. Len(s) \in DOMAIN w /\ w[Len(s)] = Delta(p, n)
      BY <1>1, <1>2, <1>3, <2>2
    <3>2. e = Delta(w[Len(s)].from, w[Len(s)].part + 1)
      BY <1>4, <3>1 DEF e
    <3> QED
      BY <1>0, <1>1, <1>4, <3>1, <3>2 DEF Voice, DeltaIn
  <2> QED
    BY <2>1, <2>2
<1>6. OneVoice(w)
  BY <1>0, <1>5, VoiceGrows DEF w
<1>7. Speaking(w, p, n + 1)
  <2>1. Len(w) - (n + 1) = Len(s) - n /\ Len(s) - n \in 1 .. Len(s)
    BY <1>1, <1>2
  <2>2. w[Len(s) - n] = Timeline
    BY <1>1, <1>2, <2>1
  <2>3. \A k \in 1 .. n + 1 : w[Len(s) - n + k] = Delta(p, k)
    <3> TAKE k \in 1 .. n + 1
    <3>1. CASE k = n + 1
      BY <1>1, <1>2, <3>1 DEF e
    <3>2. CASE k \in 1 .. n
      BY <1>8, <3>2
    <3> QED
      BY <3>1, <3>2
  <2> QED
    BY <2>1, <2>2, <2>3 DEF Speaking, Parts
<1> QED
  BY <1>6, <1>7 DEF e, w

LEMMA TurnEnds == ASSUME NEW s \in Seq(ChatEvent), NEW p, NEW n \in Nat, Speaking(s, p, n)
                  PROVE  Spoken(s \o <<Timeline>>, p, n)
<1> DEFINE w == s \o <<Timeline>>
<1>1. /\ Len(w) = Len(s) + 1 /\ Len(s) \in Nat /\ w[Len(s) + 1] = Timeline
      /\ \A k \in 1 .. Len(s) : w[k] = s[k]
  OBVIOUS
<1> HIDE DEF w
<1>2. /\ Len(s) - n >= 1 /\ s[Len(s) - n] = Timeline
      /\ \A k \in 1 .. n : s[Len(s) - n + k] = Delta(p, k)
  BY DEF Speaking, Parts
<1>3. Len(w) - n - 1 = Len(s) - n /\ \A k \in 1 .. n : w[Len(s) - n + k] = Delta(p, k)
  <2>1. Len(w) - n - 1 = Len(s) - n
    BY <1>1
  <2>2. ASSUME NEW k \in 1 .. n PROVE w[Len(s) - n + k] = Delta(p, k)
    <3>1. Len(s) - n + k \in 1 .. Len(s)
      BY <1>1, <1>2
    <3> QED
      BY <1>1, <1>2, <3>1
  <2> QED
    BY <2>1, <2>2
<1>4. w[Len(s) - n] = Timeline
  BY <1>1, <1>2
<1> QED
  BY <1>1, <1>2, <1>3, <1>4 DEF Spoken, Parts, w

LEMMA FinalVoice ==
  ASSUME NEW s \in Seq(ChatEvent), NEW a \in Answer, OneVoice(s), Spoken(s, a.from, a.parts)
  PROVE  OneVoice(s \o <<Final(a)>>)
<1> DEFINE e == Final(a)
           w == s \o <<e>>
           n == a.parts
<1>0. e \in ChatEvent /\ e.kind = "run_completed" /\ e.from = a.from /\ e.parts = n /\ n \in Nat
  BY EventTypes DEF Final, Answer
<1>1. /\ Len(s) \in Nat /\ w[Len(s) + 1] = e /\ \A k \in 1 .. Len(s) : w[k] = s[k]
  BY <1>0
<1> HIDE DEF e, w
<1>2. /\ Len(s) >= 1 /\ s[Len(s)] = Timeline /\ Len(s) - n - 1 >= 1 /\ s[Len(s) - n - 1] = Timeline
      /\ \A k \in 1 .. n : s[Len(s) - n - 1 + k] = Delta(a.from, k)
  BY DEF Spoken, Parts
<1>3. Len(s) + 1 - n - 2 = Len(s) - n - 1 /\ w[Len(s)] = Timeline /\ w[Len(s) - n - 1] = Timeline
  BY <1>0, <1>1, <1>2
<1>4. \A k \in 1 .. n : w[Len(s) - n - 1 + k] = Delta(a.from, k)
  <2>1. \A k \in 1 .. n : Len(s) - n - 1 + k \in 1 .. Len(s)
    BY <1>0, <1>1, <1>2
  <2> QED
    BY <1>1, <1>2, <2>1
<1>5. Parts(w, Len(s) + 1 - n - 2, a.from, n)
  BY <1>2, <1>3, <1>4 DEF Parts
<1>6. Voice(w, Len(s) + 1)
  BY <1>0, <1>1, <1>3, <1>5 DEF Voice
<1> QED
  BY <1>0, <1>6, VoiceGrows DEF e, w

LEMMA EndVoice == ASSUME NEW s \in Seq(ChatEvent), NEW e \in ChatEvent, OneVoice(s \o <<e>>)
                  PROVE  OneVoice(s \o <<e, EndOfStream>>)
<1>1. s \o <<e>> \in Seq(ChatEvent) /\ (s \o <<e>>) \o <<EndOfStream>> = s \o <<e, EndOfStream>>
  BY EndIsEvent
<1>2. OneVoice((s \o <<e>>) \o <<EndOfStream>>)
  BY <1>1, EndIsEvent, OtherVoice
<1> QED
  BY <1>1, <1>2

\* What an action leaves to the streams and answers of the others.
OtherVoices(r) ==
  \A q \in Requests \ {r} :
    /\ at'[q] = at[q] /\ made'[q] = made[q] /\ call'[q] = call[q] /\ answer'[q] = answer[q]
    /\ q \in failed' <=> q \in failed

LEMMA OneAnswers == ASSUME VoiceInv, NEW r \in Requests, OtherVoices(r), VoiceOf(r)' PROVE VoiceInv'
<1>1. ASSUME NEW q \in Requests PROVE VoiceOf(q)'
  <2>1. CASE q = r
    BY <2>1
  <2>2. CASE q # r
    BY <2>2 DEF OtherVoices, VoiceInv, VoiceOf, Answering, Speaker
  <2> QED
    BY <2>1, <2>2
<1> QED
  BY <1>1 DEF VoiceInv

LEMMA TaskVoices == ASSUME StreamTypes, Globals, NEW r \in Requests, TaskStep(r) PROVE OtherVoices(r)
<1> USE DEF OtherVoices, StreamTypes, Globals, Goes, Ends, Put
<1>1. CASE StartTask(r) \/ BeginRun(r)
  BY <1>1 DEF StartTask, BeginRun, streamVars
<1>2. CASE StartTurn(r) \/ Compact(r)
  BY <1>2 DEF StartTurn, Compact, OpenStream, streamVars
<1>3. CASE StreamText(r)
  BY <1>3 DEF StreamText, Emit, requestVars
<1>4. CASE FinishAnswer(r)
  BY <1>4 DEF FinishAnswer, CloseStream
<1>5. CASE ProviderFails(r)
  BY <1>5 DEF ProviderFails, FallBack, CloseStream, requestVars, streamVars
<1>6. CASE Route(r) \/ RunTools(r)
  BY <1>6 DEF Route, RunTools, streamVars
<1>7. CASE GraphRaises(r) \/ Finalize(r)
  BY <1>7 DEF GraphRaises, Finalize, FailRun, streamVars
<1>8. CASE Complete(r) \/ MakeTitle(r)
  BY <1>8 DEF Complete, MakeTitle
<1> QED
  BY <1>1, <1>2, <1>3, <1>4, <1>5, <1>6, <1>7, <1>8 DEF TaskStep

\* Verdicts but the final answer, at the end of the task.
LEMMA LastWords ==
  ASSUME StreamTypes, Globals, NEW r \in Requests, VoiceOf(r), NEW k \in Kinds, Ends(r, <<Event(k)>>)
  PROVE  VoiceOf(r)'
<1>1. /\ made[r] \in Seq(ChatEvent) /\ Event(k) \in ChatEvent
      /\ Event(k).kind \notin {"text_delta", "run_completed"}
  BY EventTypes DEF StreamTypes, Kinds
<1>2. at'[r] = "done" /\ made'[r] = made[r] \o <<Event(k), EndOfStream>>
  BY OneThenEnd DEF Ends, Goes, Put, StreamTypes, Globals
<1>3. OneVoice(made[r] \o <<Event(k)>>)
  BY <1>1, OtherVoice DEF VoiceOf
<1>4. OneVoice(made'[r])
  BY <1>1, <1>2, <1>3, EndVoice
<1> QED
  BY <1>2, <1>4 DEF VoiceOf, Answering

LEMMA TaskVoice ==
  ASSUME StreamTypes, TypeInv, NEW r \in Requests, VoiceOf(r), TaskStep(r) PROVE VoiceOf(r)'
<1>0. /\ Globals /\ made[r] \in Seq(ChatEvent) /\ OneVoice(made[r]) /\ answer[r] \in Answer
      /\ call[r] \in CallType
  BY TypeParts DEF StreamTypes, Globals, VoiceOf
<1>t. /\ Timeline \in ChatEvent /\ Timeline.kind \notin {"text_delta", "run_completed"}
      /\ \A k \in Kinds : Event(k) \in ChatEvent /\ Event(k).kind = k
  BY EventTypes
<1>p. \A events : Put(r, events) => made'[r] = made[r] \o events
  BY DEF Put, StreamTypes
<1>1. ASSUME made'[r] = made[r], at'[r] \notin {"compact", "stream"}, ~Answering(r)'
      PROVE  VoiceOf(r)'
  BY <1>0, <1>1 DEF VoiceOf
<1>2. ASSUME Put(r, <<Timeline>>), at'[r] \notin {"compact", "stream"}, ~Answering(r)'
      PROVE  VoiceOf(r)'
  <2>1. OneVoice(made'[r])
    BY <1>0, <1>2, <1>t, <1>p, OtherVoice
  <2> QED
    BY <1>2, <2>1 DEF VoiceOf
<1>3. CASE StartTask(r)
  <2>1. CASE Goes(r, "save_user") /\ UNCHANGED streamVars
    <3>1. made'[r] = made[r] /\ at'[r] = "save_user"
      BY <1>0, <2>1 DEF Goes, streamVars, Globals
    <3> QED
      BY <1>1, <3>1 DEF Answering
  <2>2. CASE Ends(r, <<Event("error")>>)
    BY <1>0, <2>2, LastWords DEF Kinds
  <2> QED
    BY <1>3, <2>1, <2>2 DEF StartTask
<1>4. CASE BeginRun(r)
  <2>1. at'[r] = "turn" /\ Put(r, <<Event("run_started")>>)
    BY <1>0, <1>4 DEF BeginRun, Goes, Globals
  <2>2. Event("run_started") \in ChatEvent /\ Event("run_started").kind = "run_started"
    BY <1>t DEF Kinds
  <2>3. OneVoice(made'[r])
    BY <1>0, <1>p, <2>1, <2>2, OtherVoice
  <2> QED
    BY <2>1, <2>3 DEF VoiceOf, Answering
<1>5. CASE StartTurn(r)
  <2>1. made'[r] = made[r] \o <<Timeline>> /\ at'[r] \in {"compact", "stream"}
        /\ (at'[r] = "stream" => call'[r].parts = 0)
    <3>1. Put(r, <<Timeline>>)
      BY <1>5 DEF StartTurn
    <3>2. at'[r] \in {"compact", "stream"} /\ (at'[r] = "stream" => call'[r].parts = 0)
      BY <1>0, <1>5 DEF StartTurn, Goes, Globals, OpenStream
    <3> QED
      BY <1>p, <3>1, <3>2
  <2>2. OneVoice(made'[r]) /\ \A p : Speaking(made'[r], p, 0)
    BY <1>0, <1>t, <2>1, OtherVoice, TurnBegins
  <2> QED
    BY <2>1, <2>2 DEF VoiceOf, Answering
<1>6. CASE Compact(r)
  <2>1. made'[r] = made[r] /\ at'[r] = "stream" /\ call'[r].parts = 0 /\ at[r] = "compact"
    BY <1>0, <1>6 DEF Compact, Goes, Globals, OpenStream, streamVars
  <2>2. \A p : Speaking(made[r], p, 0)
    BY <2>1, NobodySpeaks DEF VoiceOf
  <2> QED
    BY <1>0, <2>1, <2>2 DEF VoiceOf, Answering
<1>7. ASSUME at[r] = "stream"
      PROVE  /\ Speaking(made[r], Speaker(r), call[r].parts) /\ call[r].parts \in Nat
             /\ Speaker(r) \in Registered
  <2>1. call[r].next \in DOMAIN call[r].order
    BY <1>7 DEF TypeInv, ChatTypeOK
  <2> QED
    BY <1>0, <1>7, <2>1 DEF VoiceOf, CallType, Speaker
<1>8. CASE StreamText(r)
  <2> DEFINE n == call[r].parts
  <2>1. /\ at[r] = "stream" /\ at'[r] = "stream" /\ UNCHANGED failed
        /\ made'[r] = made[r] \o <<Delta(Speaker(r), n + 1)>>
    BY <1>8, <1>p DEF StreamText, requestVars
  <2>2. call'[r].parts = n + 1 /\ Speaker(r)' = Speaker(r)
    BY <1>0, <1>8 DEF StreamText, Emit, Globals, Speaker, CallType
  <2>3. OneVoice(made'[r]) /\ Speaking(made'[r], Speaker(r), n + 1)
    BY <1>0, <1>7, <2>1, NextPart
  <2> QED
    BY <2>1, <2>2, <2>3 DEF VoiceOf, Answering
<1>9. CASE FinishAnswer(r)
  <2>1. /\ at[r] = "stream" /\ at'[r] = "route" /\ made'[r] = made[r] \o <<Timeline>>
        /\ answer'[r].from = Speaker(r) /\ answer'[r].parts = call[r].parts
    <3>1. Put(r, <<Timeline>>) /\ at[r] = "stream"
      BY <1>9 DEF FinishAnswer
    <3>2. at'[r] = "route" /\ answer'[r].from = Speaker(r) /\ answer'[r].parts = call[r].parts
      BY <1>0, <1>9 DEF FinishAnswer, Goes, Globals, Answered
    <3> QED
      BY <1>p, <3>1, <3>2
  <2>2. OneVoice(made'[r]) /\ Spoken(made'[r], Speaker(r), call[r].parts)
    BY <1>0, <1>7, <1>t, <2>1, OtherVoice, TurnEnds
  <2> QED
    BY <2>1, <2>2 DEF VoiceOf, Answering
<1>10. CASE ProviderFails(r)
  <2>1. CASE (\E error \in case.errors : FallBack(r, error)) /\ UNCHANGED <<requestVars, streamVars>>
    <3>1. call[r].parts = 0 /\ call'[r].parts = 0
      <4>1. ~(call[r].parts > 0)
        BY <2>1 DEF FallBack, Raises, GivesUp
      <4> QED
        BY <1>0, <2>1, <4>1 DEF FallBack, Globals, CallType
    <3>2. at[r] = "stream" /\ at'[r] = "stream" /\ made'[r] = made[r]
      BY <1>10, <2>1 DEF ProviderFails, requestVars, streamVars
    <3>3. \A p : Speaking(made[r], p, 0)
      BY <1>7, <3>1, <3>2, NobodySpeaks
    <3> QED
      BY <1>0, <3>1, <3>2, <3>3 DEF VoiceOf, Answering
  <2>2. CASE Goes(r, "finalize") /\ r \in failed' /\ Put(r, <<Timeline>>)
    <3>1. at'[r] = "finalize"
      BY <1>0, <2>2 DEF Goes, Globals
    <3> QED
      BY <1>2, <2>2, <3>1 DEF Answering
  <2> QED
    BY <1>10, <2>1, <2>2 DEF ProviderFails
<1>11. CASE Route(r)
  <2>1. CASE at'[r] \in {"turn", "tools", "finalize"} /\ UNCHANGED <<failed, streamVars, answer>>
             /\ at[r] = "route"
    BY <1>0, <2>1 DEF VoiceOf, Answering, streamVars
  <2>2. CASE at'[r] = "finalize" /\ r \in failed' /\ Put(r, <<Timeline>>)
    BY <1>2, <2>2 DEF Answering
  <2> QED
    BY <1>0, <1>11, <2>1, <2>2 DEF Route, Goes, Globals
<1>12. CASE RunTools(r)
  <2>1. at'[r] = "turn" /\ Put(r, <<Timeline>>)
    BY <1>0, <1>12 DEF RunTools, Goes, Globals
  <2> QED
    BY <1>2, <2>1 DEF Answering
<1>13. CASE GraphRaises(r)
  BY <1>0, <1>13, LastWords DEF GraphRaises, FailRun, Kinds
<1>14. CASE Finalize(r)
  <2>1. CASE \E k \in Kinds : Ends(r, <<Event(k)>>)
    BY <1>0, <2>1, LastWords
  <2>2. CASE /\ at[r] = "finalize" /\ r \notin failed /\ Goes(r, "save_answer")
             /\ UNCHANGED <<streamVars, answer, failed>>
    BY <1>0, <2>2 DEF VoiceOf, Answering, Goes, Globals, streamVars
  <2> QED
    BY <1>14, <2>1, <2>2 DEF Finalize, FailRun, Kinds
<1>15. CASE Complete(r)
  <2> DEFINE e == Final(answer[r])
  <2>1. e \in ChatEvent /\ OneVoice(made[r] \o <<e>>)
    <3>1. Spoken(made[r], answer[r].from, answer[r].parts)
      BY <1>15 DEF Complete, VoiceOf, Answering
    <3> QED
      BY <1>0, <3>1, FinalVoice, EventTypes
  <2> HIDE DEF e
  <2>2. OneVoice(made[r] \o <<e, EndOfStream>>)
    BY <1>0, <2>1, EndVoice
  <2>3. at'[r] \in {"title", "done"} /\ (Put(r, <<e>>) \/ Put(r, <<e, EndOfStream>>))
    BY <1>0, <1>15, OneThenEnd DEF Complete, Ends, Goes, Globals, e
  <2> QED
    BY <1>p, <2>1, <2>2, <2>3 DEF VoiceOf, Answering
<1>16. CASE MakeTitle(r)
  <2>1. at'[r] = "done" /\ Put(r, <<EndOfStream>>)
    BY <1>0, <1>16 DEF MakeTitle, Ends, Goes, Globals
  <2>2. OneVoice(made'[r])
    BY <1>0, <1>p, <2>1, EndIsEvent, OtherVoice
  <2> QED
    BY <2>1, <2>2 DEF VoiceOf, Answering
<1> QED
  BY <1>3, <1>4, <1>5, <1>6, <1>8, <1>9, <1>10, <1>11, <1>12, <1>13, <1>14, <1>15, <1>16 DEF TaskStep

LEMMA VoiceNext == ASSUME VoiceInv, StreamInv, TypeInv, [ChatNext]_chatVars PROVE VoiceInv'
<1>0. Globals /\ StreamTypes
  BY TypeParts DEF StreamInv
<1>1. ASSUME NEW r \in Requests, OnLoop(r) PROVE VoiceInv'
  BY <1>0, <1>1, TaskVoices, TaskVoice, OneAnswers DEF OnLoop, VoiceInv
<1>2. ASSUME UNCHANGED <<made, call, answer, failed>>,
             \A q \in Requests : at'[q] = at[q] \/ at'[q] \in {"rejected", "accepted", "abandoned", "task"}
      PROVE  VoiceInv'
  BY <1>2 DEF VoiceInv, VoiceOf, Answering, Speaker
<1>3. ASSUME NEW r \in Requests, BrowserStep(r) \/ CloseRun(r) PROVE VoiceInv'
  <2>1. UNCHANGED <<made, call, answer, failed>>
    BY <1>3 DEF BrowserStep, Arrive, StartStream, BrowserLeaves, BrowserReads, CloseRun, Attach, Detach,
                Read, requestVars, streamVars
  <2>2. \A q \in Requests : at'[q] = at[q] \/ at'[q] \in {"rejected", "accepted", "abandoned", "task"}
    BY <1>0, <1>3 DEF BrowserStep, Arrive, StartStream, BrowserLeaves, BrowserReads, CloseRun, Goes,
                      requestVars, Globals
  <2> QED
    BY <1>2, <2>1, <2>2
<1>4. ASSUME NEW t \in Threads, NEW r \in Requests, PostIntervention(t, r) PROVE VoiceInv'
  BY <1>2, <1>4 DEF PostIntervention, requestVars, streamVars
<1>5. ASSUME NEW w \in Writers, SaveMessage(w) PROVE VoiceInv'
  BY <1>2, <1>5 DEF SaveMessage, requestVars, streamVars
<1>6. CASE UNCHANGED chatVars
  BY <1>2, <1>6 DEF chatVars, requestVars, streamVars
<1> QED
  BY <1>1, <1>3, <1>4, <1>5, <1>6 DEF ChatNext

LEMMA VoiceStart == ChatInit => VoiceInv
<1> SUFFICES ASSUME ChatInit, NEW r \in Requests PROVE VoiceOf(r)
  BY DEF VoiceInv
<1>1. at[r] \in {"new", "absent"} /\ made[r] = <<>>
  BY DEF ChatInit, StreamInit
<1> QED
  BY <1>1 DEF VoiceOf, Answering, OneVoice

LEMMA VoiceIsOne == ASSUME VoiceInv, StreamTypes PROVE AnswerIsOneVoice
<1> SUFFICES ASSUME NEW r \in Requests, NEW i \in DOMAIN made[r]
             PROVE  /\ DeltaAt(r, i) =>
                         IF DeltaAt(r, i - 1)
                         THEN made[r][i] = Delta(made[r][i - 1].from, made[r][i - 1].part + 1)
                         ELSE made[r][i].part = 1
                    /\ made[r][i].kind = "run_completed" =>
                         LET n == made[r][i].parts
                         IN  /\ made[r][i - 1] = Timeline /\ made[r][i - n - 2] = Timeline
                             /\ SubSeq(made[r], i - n - 1, i - 2) =
                                  [k \in 1 .. n |-> Delta(made[r][i].from, k)]
  BY DEF AnswerIsOneVoice
<1>1. Voice(made[r], i) /\ made[r] \in Seq(ChatEvent) /\ i \in Nat
  BY DEF VoiceInv, VoiceOf, OneVoice, StreamTypes
<1>2. \A j : DeltaAt(r, j) <=> DeltaIn(made[r], j)
  BY DEF DeltaAt, DeltaIn
<1>3. ASSUME made[r][i].kind = "run_completed", NEW n, n = made[r][i].parts
      PROVE  /\ made[r][i - 1] = Timeline /\ made[r][i - n - 2] = Timeline
             /\ SubSeq(made[r], i - n - 1, i - 2) = [k \in 1 .. n |-> Delta(made[r][i].from, k)]
  <2>1. n \in Nat /\ made[r][i - 1] = Timeline /\ Parts(made[r], i - n - 2, made[r][i].from, n)
    BY <1>1, <1>3 DEF Voice
  <2>2. /\ i - n - 2 >= 1 /\ made[r][i - n - 2] = Timeline
        /\ \A k \in 1 .. n : made[r][(i - n - 2) + k] = Delta(made[r][i].from, k)
    BY <2>1 DEF Parts
  <2>3. SubSeq(made[r], i - n - 1, i - 2) = [k \in 1 .. n |-> made[r][(i - n - 2) + k]]
    <3>1. (i - 2) - (i - n - 1) + 1 = n /\ \A k \in 1 .. n : k + (i - n - 1) - 1 = (i - n - 2) + k
      BY <1>1, <2>1
    <3>2. SubSeq(made[r], i - n - 1, i - 2)
            = [k \in 1 .. (i - 2) - (i - n - 1) + 1 |-> made[r][k + (i - n - 1) - 1]]
      BY <1>1, <2>1
    <3> QED
      BY <3>1, <3>2
  <2>4. SubSeq(made[r], i - n - 1, i - 2) = [k \in 1 .. n |-> Delta(made[r][i].from, k)]
    BY <2>2, <2>3
  <2> QED
    BY <2>1, <2>2, <2>4
<1>4. DeltaAt(r, i) =>
        IF DeltaAt(r, i - 1)
        THEN made[r][i] = Delta(made[r][i - 1].from, made[r][i - 1].part + 1)
        ELSE made[r][i].part = 1
  BY <1>1, <1>2 DEF Voice, DeltaIn
<1>5. made[r][i].kind = "run_completed" =>
        LET n == made[r][i].parts
        IN  /\ made[r][i - 1] = Timeline /\ made[r][i - n - 2] = Timeline
            /\ SubSeq(made[r], i - n - 1, i - 2) = [k \in 1 .. n |-> Delta(made[r][i].from, k)]
  BY <1>3, Zenon
<1> QED
  BY <1>4, <1>5

(***************************************************************************)
(* For any number of requests, registered providers, turns and parts of a  *)
(* text: in a stream no part is repeated, skipped or mixed with another    *)
(* provider's, and the answer of run_completed is the text that was        *)
(* streamed in the last turn.                                              *)
(***************************************************************************)
THEOREM AnswerHasOneVoice == ChatSpec => []AnswerIsOneVoice
<1>1. ChatInit => StoreInv /\ TypeInv /\ StreamInv /\ VoiceInv
  BY StoreStart, TypesStart, StreamStart, VoiceStart
<1>2. StoreInv /\ TypeInv /\ StreamInv /\ VoiceInv /\ [ChatNext]_chatVars
        => (StoreInv /\ TypeInv /\ StreamInv /\ VoiceInv)'
  BY StoreNext, TypesNext, StreamNext, VoiceNext
<1>3. StreamInv /\ VoiceInv => AnswerIsOneVoice
  BY VoiceIsOne DEF StreamInv
<1> QED
  BY <1>1, <1>2, <1>3, PTL DEF ChatSpec
=============================================================================
