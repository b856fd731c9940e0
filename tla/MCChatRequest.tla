--------------------------- MODULE MCChatRequest ---------------------------
(***************************************************************************)
(* Two requests and an intervention in one session, and one request for    *)
(* every short history of large and small messages.                        *)
(***************************************************************************)
EXTENDS ChatRequest

Old(no, role, st, size) ==
  [no |-> no, role |-> role, run |-> NoRun, status |-> st, size |-> size]

Told(roles, sizes) == [i \in DOMAIN roles |-> Old(i, roles[i], "plain", sizes[i])]

Histories ==
  UNION {{Told(roles, sizes) : roles \in [1 .. n -> {"user", "assistant"}],
                               sizes \in [1 .. n -> {1, 4}]} : n \in 2 .. 3}

MCAdapters == <<"openai", "anthropic">>

Errors == {"unavailable", "invalid_request"}

\* Two requests at once, which number their messages and take over the
\* undelivered intervention of an earlier run.
TwoRequests ==
  [history |-> <<Old(1, "user", "undelivered", 1)>>, requests |-> {"r1", "r2"},
   providers |-> {"openai"}, traced |-> {TRUE}, watched |-> {}, threads |-> {"t1"},
   parts |-> 1, steps |-> 1, calls |-> {"none"}, errors |-> {}, closes |-> {"cancelled"},
   sizes |-> {1}]

\* One request and its browser.
OneBrowser ==
  [history |-> <<>>, requests |-> {"r1"},
   providers |-> ToSet(MCAdapters), traced |-> BOOLEAN, watched |-> {"r1"}, threads |-> {},
   parts |-> 2, steps |-> 2, calls |-> {"none", "auto_execute", "require_approval"},
   errors |-> Errors, closes |-> {"cancelled", "timed_out"}, sizes |-> {1}]

\* One request after each short history.
LongContext(h) ==
  [history |-> h, requests |-> {"r1"},
   providers |-> {"anthropic"}, traced |-> {TRUE}, watched |-> {}, threads |-> {"t1"},
   parts |-> 1, steps |-> 2, calls |-> {"none", "auto_execute"}, errors |-> {},
   closes |-> {}, sizes |-> {1, 4}]

\* One request with more turns than its state can remember.
LongRun ==
  [history |-> <<Old(1, "user", "plain", 1)>>, requests |-> {"r1"},
   providers |-> {"openai"}, traced |-> {TRUE}, watched |-> {}, threads |-> {"t1"},
   parts |-> 1, steps |-> 4, calls |-> {"none", "auto_execute"}, errors |-> {"unavailable"},
   closes |-> {}, sizes |-> {1, 4}]

MCCases == {TwoRequests, OneBrowser, LongRun} \cup {LongContext(h) : h \in Histories}
=============================================================================
