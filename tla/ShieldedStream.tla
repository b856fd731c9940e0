--------------------------- MODULE ShieldedStream ---------------------------
(***************************************************************************)
(* shielded_stream (streaming/background.py): the generator runs in a task *)
(* of its own and its events reach the browser through a queue.  The       *)
(* browser may leave at any time.                                          *)
(***************************************************************************)
EXTENDS SequencesExt

VARIABLES
  attached,  \* subscriber_attached
  queue,     \* the events the browser has yet to get
  made,      \* observer: every event of the task
  seen       \* observer: what the browser got

streamVars == <<attached, queue, made, seen>>

StreamInit(tasks) ==
  /\ attached = [t \in tasks |-> FALSE]
  /\ queue = [t \in tasks |-> <<>>]
  /\ made = [t \in tasks |-> <<>>]
  /\ seen = [t \in tasks |-> <<>>]

EndOfStream == [kind |-> "end"]  \* _SENTINEL

Attach(t) ==
  /\ attached' = [attached EXCEPT ![t] = TRUE]
  /\ UNCHANGED <<queue, made, seen>>

\* _consume: events are queued only for a browser that is there.
Put(t, events) ==
  /\ made' = [made EXCEPT ![t] = @ \o events]
  /\ queue' = [queue EXCEPT ![t] = IF attached[t] THEN @ \o events ELSE @]
  /\ UNCHANGED <<attached, seen>>

\* The loop of the subscriber; the sentinel ends it.
Read(t) ==
  /\ attached[t] /\ queue[t] # <<>>
  /\ seen' = [seen EXCEPT ![t] = Append(@, Head(queue[t]))]
  /\ queue' = [queue EXCEPT ![t] = Tail(@)]
  /\ attached' = [attached EXCEPT ![t] = Head(queue[t]) # EndOfStream]
  /\ UNCHANGED made

\* The transport is cancelled: finally detaches and drains, the task goes on.
Detach(t) ==
  /\ attached[t]
  /\ attached' = [attached EXCEPT ![t] = FALSE]
  /\ queue' = [queue EXCEPT ![t] = <<>>]
  /\ UNCHANGED <<made, seen>>

\* Nothing is lost, repeated or reordered on the way, and nothing is kept
\* for a browser that left.
Delivered(t) ==
  /\ IsPrefix(seen[t], made[t])
  /\ IF attached[t] THEN seen[t] \o queue[t] = made[t] ELSE queue[t] = <<>>
=============================================================================
