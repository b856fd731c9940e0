---------------------------- MODULE MessageStore ----------------------------
(***************************************************************************)
(* chat_messages of one chat session (database/repositories/messages.py).  *)
(* save_message is three statements of a transaction: the advisory lock,   *)
(* max(sequence_no), and the insert whose commit gives the lock back.      *)
(* Threads of the server run their statements between those of the event   *)
(* loop.  The status of an operator's intervention is changed in place.    *)
(***************************************************************************)
EXTENDS Naturals, Sequences, FiniteSetsExt, TLC

CONSTANTS Writers,  \* tasks of the event loop and threads of the server
          NoRun     \* run_id IS NULL

VARIABLES
  rows,    \* the committed messages, in the order of their commits
  save,    \* where each writer is in save_message
  refused  \* writers whose insert met the unique constraint

storeVars == <<rows, save, refused>>

Intervention == {"pending", "injected", "undelivered"}

\* What save_message is asked to save; status "plain": not an intervention.
Message(runs, sizes) ==
  [role : {"user", "assistant"}, run : runs, status : Intervention \cup {"plain"}, size : sizes]

Row(runs, sizes) ==
  [no : Nat, role : {"user", "assistant"}, run : runs, status : Intervention \cup {"plain"},
   size : sizes]

Idle == [at |-> "idle", max |-> 0, msg |-> <<>>, row |-> 0]

StoreInit(history) ==
  /\ rows = history
  /\ save = [w \in Writers |-> Idle]
  /\ refused = {}

MaxNo == Max({rows[i].no : i \in DOMAIN rows} \cup {0})

Holds(w) == save[w].at \in {"max", "insert"}

Saving(w) == save[w].at # "idle"

\* The elements of a finite set of numbers in their order: ORDER BY.
InOrder(S) ==
  [k \in 1 .. Cardinality(S) |-> CHOOSE x \in S : Cardinality({y \in S : y < x}) = k - 1]

\* The rows in the order of get_chat_history.
History ==
  [k \in DOMAIN rows |->
     rows[CHOOSE i \in DOMAIN rows :
            Cardinality({j \in DOMAIN rows : rows[j].no < rows[i].no}) = k - 1]]

PendingFor(r)      == {i \in DOMAIN rows : rows[i].run = r /\ rows[i].status = "pending"}
UndeliveredRows    == {i \in DOMAIN rows : rows[i].status = "undelivered"}
-----------------------------------------------------------------------------
AskToSave(w, m) == save' = [save EXCEPT ![w] = [Idle EXCEPT !.at = "lock", !.msg = m]]

\* Mutant: the numbering relies on the transaction alone.
AcquireLock_None(w) ==
  /\ save[w].at = "lock"
  /\ save' = [save EXCEPT ![w].at = "max"]
  /\ UNCHANGED <<rows, refused>>

\* pg_advisory_xact_lock
AcquireLock(w) ==
  /\ save[w].at = "lock" /\ \A v \in Writers : ~Holds(v)
  /\ save' = [save EXCEPT ![w].at = "max"]
  /\ UNCHANGED <<rows, refused>>

\* select(func.max(ChatMessage.sequence_no))
ReadMax(w) ==
  /\ save[w].at = "max"
  /\ save' = [save EXCEPT ![w] = [@ EXCEPT !.at = "insert", !.max = MaxNo]]
  /\ UNCHANGED <<rows, refused>>

\* The insert and the commit.  What a refused insert leads to is not followed.
Insert(w) ==
  /\ save[w].at = "insert"
  /\ LET no == save[w].max + 1
         m  == save[w].msg
     IN  IF \E i \in DOMAIN rows : rows[i].no = no
         THEN refused' = refused \cup {w} /\ UNCHANGED rows
         ELSE /\ rows' = Append(rows, [no |-> no, role |-> m.role, run |-> m.run,
                                       status |-> m.status, size |-> m.size])
              /\ UNCHANGED refused
  /\ save' = [save EXCEPT ![w] = [Idle EXCEPT !.row = Len(rows) + 1]]

Statement(w) == AcquireLock(w) \/ ReadMax(w) \/ Insert(w)
-----------------------------------------------------------------------------
\* Columns of existing rows are updated; a number never is.
Mark(which, st)   == [i \in DOMAIN rows |-> IF i \in which THEN [rows[i] EXCEPT !.status = st]
                                                           ELSE rows[i]]
MarkInjected(ids)  == Mark(ids, "injected")
MarkUndelivered(r) == Mark(PendingFor(r), "undelivered")

\* requeue_undelivered_interventions, after user_db_msg.run_id was set.
Requeue(r, own) ==
  [i \in DOMAIN rows |->
     IF i \in UndeliveredRows THEN [rows[i] EXCEPT !.run = r, !.status = "pending"]
     ELSE IF i = own          THEN [rows[i] EXCEPT !.run = r]
                              ELSE rows[i]]
-----------------------------------------------------------------------------
(***************************************************************************)
(* The messages of a session are numbered 1, 2, 3, ... in the order of     *)
(* their commits, and no writer is refused its number by the unique        *)
(* constraint: max(sequence_no) + 1 is never computed twice, although it   *)
(* is computed in one statement and used in a later one.                   *)
(***************************************************************************)
NumberedInOrder ==
  /\ \A i \in DOMAIN rows : rows[i].no = i
  /\ refused = {}
=============================================================================
