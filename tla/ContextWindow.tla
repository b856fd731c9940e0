--------------------------- MODULE ContextWindow ---------------------------
(***************************************************************************)
(* compact_messages_if_needed (agent/context_window.py).  A message is its *)
(* role and its estimated tokens; one character of a summary is one token. *)
(* Roles: "user", "assistant", "call" (an assistant message that asks for  *)
(* a tool), "tool", "system" (the summary).                                *)
(***************************************************************************)
EXTENDS Integers, SequencesExt

CONSTANTS Fixed,      \* tokens of the system prompt and the tool definitions
          Threshold,  \* int(context_window_tokens * trigger_ratio)
          Target,     \* int(context_window_tokens * target_ratio)
          Header,     \* tokens of "[AUTO-COMPACTED CONTEXT]"
          Notice      \* tokens of "... [SUMMARY TRUNCATED ...] ..."

ASSUME WindowAssumption ==
  /\ Fixed \in Nat /\ Header \in Nat \ {0} /\ Notice \in Nat
  /\ Threshold \in Nat \ {0} /\ Target \in Nat \ {0}

Tokens(messages) == FoldLeft(LAMBDA sum, m : sum + m.size, 0, messages)

\* estimate_context_tokens
Estimate(messages) == Fixed + Tokens(messages)

LastN(s, n) == SubSeq(s, Len(s) - n + 1, Len(s))

\* trim_messages(strategy="last", allow_partial=False, start_on="human")
TrimTo(messages, budget) ==
  {n \in 1 .. Len(messages) : /\ Tokens(LastN(messages, n)) <= budget
                              /\ LastN(messages, n)[1].role = "user"}

FromUser(messages) ==
  {n \in 1 .. Len(messages) : LastN(messages, n)[1].role = "user"}

\* Mutant: the budget alone decides where the cut is.
Retained_Budget(messages) ==
  LET fits == {n \in 1 .. Len(messages) : Tokens(LastN(messages, n)) <= Target - Fixed}
  IN  IF fits = {} THEN <<>> ELSE LastN(messages, Max(fits))

\* _trim_recent_messages: what fits, or else from the last user message on.
Retained(messages) ==
  LET fits == TrimTo(messages, Max({1, Target - Fixed}))
      turn == FromUser(messages)
  IN  CASE fits # {} -> LastN(messages, Max(fits))
        [] fits = {} /\ turn # {} -> LastN(messages, Min(turn))
        [] OTHER -> <<>>

NeedsSummary(messages) ==
  /\ Estimate(messages) > Threshold /\ Len(messages) >= 3
  /\ Len(Retained(messages)) \in 1 .. Len(messages) - 1

WithSummary(size, retained) == <<[role |-> "system", size |-> Header + size]>> \o retained

\* What a prompt says word for word.
Verbatim(prompt) ==
  IF prompt # <<>> /\ prompt[1].role = "system" THEN Tail(prompt) ELSE prompt

\* _fit_compacted_messages: the lengths the summary may keep, with the notice.
Fitting(size, retained, limit) ==
  {s \in {size} \cup {k + Notice : k \in 0 .. size - 1} \cup {0} :
     Estimate(WithSummary(s, retained)) <= limit}

Fit(size, retained, limit) ==
  LET cut == Fitting(size, retained, limit) \ {size}
  IN  IF size \in Fitting(size, retained, limit)
      THEN WithSummary(size, retained)
      ELSE WithSummary(Max(cut), retained)

\* The two budgets, and the retained messages alone if neither can be met.
WithinBudget(messages, size) ==
  LET retained == Retained(messages)
      original == Estimate(messages)
      Meets(limit) == Fitting(size, retained, limit) # {}
  IN  CASE Meets(Min({Target, original - 1})) ->
             Fit(size, retained, Min({Target, original - 1}))
        [] ~Meets(Min({Target, original - 1})) /\ Meets(original - 1) ->
             Fit(size, retained, original - 1)
        [] OTHER -> retained
=============================================================================
