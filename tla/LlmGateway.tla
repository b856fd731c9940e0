----------------------------- MODULE LlmGateway -----------------------------
(***************************************************************************)
(* LLMGateway (llm/gateway.py) with the LangChain adapters: which provider *)
(* is asked, what streaming emits, and when a failure makes the gateway    *)
(* ask the next one.  A text is a provider's parts 1, 2, ..., n.           *)
(***************************************************************************)
EXTENDS Naturals, SequencesExt

CONSTANT Adapters  \* the registered providers, in the order of registration

ASSUME AdaptersAssumption ==
  Adapters \in Seq(STRING) /\ Adapters # <<>> /\ IsInjective(Adapters)

VARIABLE call  \* per task: the stream() call it is waiting for

Registered == ToSet(Adapters)

NoCall == [order |-> <<>>, next |-> 0, parts |-> 0]

\* _provider_order, with the fallbacks call_llm_gateway asks for: the others.
ProviderOrder(primary) == <<primary>> \o RemoveFirst(Adapters, primary)

GatewayInit(tasks) == call = [t \in tasks |-> NoCall]

Speaker(t) == call[t].order[call[t].next]

OpenStream(t, primary) ==
  call' = [call EXCEPT ![t] = [order |-> ProviderOrder(primary), next |-> 1, parts |-> 0]]

\* A TEXT_DELTA for every chunk with text.
Emit(t) == call' = [call EXCEPT ![t].parts = @ + 1]

\* _wrap_exception: ValueError and TypeError are not retryable, the rest is.
Retryable(error) == error = "unavailable"

\* Mutant: any failure is answered with the next provider.
GivesUp_Never(emitted, error, onAny) == FALSE

\* "except LLMError" of stream() and invoke()
GivesUp(emitted, error, onAny) == emitted \/ (~Retryable(error) /\ ~onAny)

\* Mutant: the list of providers has one more.
Raises_OneMore(t, error) ==
  \/ GivesUp(call[t].parts > 0, error, TRUE)
  \/ call[t].next > Len(call[t].order)

\* The error leaves the gateway: at once, or as LLMAllProvidersFailedError.
Raises(t, error) ==
  \/ GivesUp(call[t].parts > 0, error, TRUE)
  \/ call[t].next = Len(call[t].order)

FallBack(t, error) ==
  /\ ~Raises(t, error)
  /\ call' = [call EXCEPT ![t] = [order |-> @.order, next |-> @.next + 1, parts |-> 0]]

CloseStream(t) == call' = [call EXCEPT ![t] = NoCall]

\* invoke() without fallback_providers: one provider, one chance.
InvokeOutcome == {"text", "empty", "raised"}
=============================================================================
