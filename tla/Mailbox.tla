------------------------------ MODULE Mailbox ------------------------------
(***************************************************************************)
(* What operators may expect of the messages they write to runs, without   *)
(* tasks, turns and rows: a letter is opened once, in an answer to the     *)
(* prompt that showed it, by the reader whom it was waiting for; what a    *)
(* reader leaves behind goes to the next one who asks for it.  A letter    *)
(* that comes while a prompt is being answered waits for the next prompt.  *)
(***************************************************************************)
EXTENDS Naturals

CONSTANTS Letters, Readers, NoReader

VARIABLES
  box,     \* the status of each letter, and the reader whom it is for
  prompt,  \* the letters each reader is being shown
  opened   \* how often each letter was opened

mailState == <<box, prompt, opened>>

MailInit ==
  /\ box = [m \in Letters |-> [status |-> "absent", run |-> NoReader]]
  /\ prompt = [r \in Readers |-> {}]
  /\ opened = [m \in Letters |-> 0]

WaitingFor(r) == {m \in Letters : box[m] = [status |-> "pending", run |-> r]}
LeftBehind    == {m \in Letters : box[m].status = "undelivered"}

Becomes(which, st, r) ==
  box' = [m \in Letters |-> IF m \in which THEN [status |-> st, run |-> r] ELSE box[m]]

Post(m, r) ==
  /\ box[m].status = "absent"
  /\ Becomes({m}, "pending", r)
  /\ UNCHANGED <<prompt, opened>>

Show(r) ==
  /\ prompt[r] = {}
  /\ prompt' = [prompt EXCEPT ![r] = WaitingFor(r)]
  /\ UNCHANGED <<box, opened>>

\* The letters that were shown, and no others.
Open(r) ==
  /\ prompt[r] \subseteq WaitingFor(r)
  /\ Becomes(prompt[r], "injected", r)
  /\ opened' = [m \in Letters |-> IF m \in prompt[r] THEN opened[m] + 1 ELSE opened[m]]
  /\ prompt' = [prompt EXCEPT ![r] = {}]

\* The answer fails; the letters wait on.
Forget(r) ==
  /\ prompt' = [prompt EXCEPT ![r] = {}]
  /\ UNCHANGED <<box, opened>>

\* The reader fails, between two prompts.
GiveBack(r) ==
  /\ prompt[r] = {}
  /\ Becomes(WaitingFor(r), "undelivered", r)
  /\ UNCHANGED <<prompt, opened>>

TakeOver(r) ==
  /\ prompt[r] = {}
  /\ Becomes(LeftBehind, "pending", r)
  /\ UNCHANGED <<prompt, opened>>

MailNext ==
  \E r \in Readers :
    \/ Show(r) \/ Open(r) \/ Forget(r) \/ GiveBack(r) \/ TakeOver(r)
    \/ \E m \in Letters : Post(m, r)

MailSpec == MailInit /\ [][MailNext]_mailState
=============================================================================
