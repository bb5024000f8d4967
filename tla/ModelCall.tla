------------------------------ MODULE ModelCall ------------------------------
(***************************************************************************)
(* One analysis, seen from the model's side: work_items/ai (factory,       *)
(* providers, fallback, parser) and the part of run_analysis that calls    *)
(* it.  Analysis has this as one step that ends in a result or in an error *)
(* code; here is where the result and the code come from, under every      *)
(* configuration and whatever the vendor's SDK does.                       *)
(***************************************************************************)
EXTENDS Parser

CONSTANTS
  Texts,       \* what a model may answer in words
  Objects,     \* what it may answer in a tool call
  SdkErrors    \* what a vendor's SDK may raise

ASSUME TextsAssumption == Texts \subseteq Seq(Tokens) /\ <<>> \in Texts
ASSUME ObjectsAssumption == \A o \in Objects : JsonObject(o)
ASSUME SdkAssumption ==
  SdkErrors \subseteq {"APITimeoutError", "APIStatusError", "APIError",
                       "OutputParserException", "TimeoutError", "other"}

VARIABLES
  config,   \* the settings, and the marker in the item's title
  call,     \* where run_analysis is, and what it has been told
  item,     \* the columns of the item that the call decides
  attempt   \* the attempt row, NoAttempt before the claim

vars == <<config, call, item, attempt>>

Vendors == {"anthropic", "nvidia", "langchain"}
FAILURE_MODES == {"none", "timeout", "malformed", "bad_enum", "error"}
Codes == {"NONE", "TIMEOUT", "PROVIDER_ERROR", "INVALID_OUTPUT", "UNEXPECTED_ERROR"}

\* MOCK_AI_FAILURE_MODE is read for AI_PROVIDER=mock only, AI_FALLBACK_TO_MOCK and
\* AI_API_KEY for the vendors only, the marker by the mock only; what nobody reads is fixed.
Configs ==
  {c \in [provider : Vendors, api_key : BOOLEAN, fallback : BOOLEAN,
          failure_mode : {"none"}, marker : FAILURE_MODES \cup {"absent"}] :
     (c.api_key /\ c.fallback) \/ c.marker = "absent"}
  \cup
  [provider : {"mock"}, api_key : {TRUE}, fallback : {FALSE},
   failure_mode : FAILURE_MODES, marker : FAILURE_MODES \cup {"absent"}]

NoAttempt == [outcome |-> "NONE", error_code |-> "NONE", raw_output |-> None, model |-> "nobody"]

\* str() of an OutputParserException, which AIInvalidOutputError keeps.
ExceptionText == <<"what the exception says">>

NoReply == [kind |-> "text", body |-> None]

\* provider.model, as FallbackProvider takes it over from the primary.
model == config.provider

Goto(pc) == call' = [call EXCEPT !.pc = pc]

-----------------------------------------------------------------------------
(* get_ai_provider and the claim.                                          *)

Configured == config.provider = "mock" \/ config.api_key

\* The provider is built before anything is written.
ProviderBuilt ==
  /\ call.pc = "new"
  /\ Configured
  /\ Goto("claim")
  /\ UNCHANGED <<config, item, attempt>>

\* Mutant of ProviderRefused: the provider is built once the item has been claimed.
ProviderRefusedLate ==
  /\ call.pc = "new"
  /\ ~Configured
  /\ item' = [item EXCEPT !.status = "ANALYSING"]
  /\ attempt' = [outcome |-> "FAILED", error_code |-> "UNEXPECTED_ERROR", raw_output |-> None,
                 model |-> model]
  /\ Goto("done")
  /\ UNCHANGED config

\* ImproperlyConfigured: the request fails, with AI_FALLBACK_TO_MOCK set or not.
ProviderRefused ==
  /\ call.pc = "new"
  /\ ~Configured
  /\ Goto("done")
  /\ UNCHANGED <<config, item, attempt>>

\* _claim.
Claim ==
  /\ call.pc = "claim"
  /\ item' = [item EXCEPT !.status = "ANALYSING"]
  /\ attempt' = [outcome |-> "FAILED", error_code |-> "UNEXPECTED_ERROR", raw_output |-> None,
                 model |-> model]
  /\ Goto(IF config.provider = "mock" THEN "mock" ELSE "vendor")
  /\ UNCHANGED config

-----------------------------------------------------------------------------
(* provider.analyse.                                                       *)

\* What the adapters hand on.  Anthropic: the tool's input, else the text blocks.
\* NVIDIA: the content, as a dict if it is one.  LangChain: the object it has already
\* validated, else str() of something else.
Handed(provider) ==
  CASE provider = "anthropic" -> [kind : {"dict"}, body : Objects]
                                   \cup [kind : {"text"}, body : Texts]
    [] provider = "nvidia"    -> {IF JsonObject(strip(t))
                                    THEN [kind |-> "dict", body |-> strip(t)]
                                    ELSE [kind |-> "text", body |-> t] : t \in Texts \ {<<>>}}
    [] OTHER                  -> [kind : {"dict"}, body : {o \in Objects : Conforms(o)}]
                                   \cup {[kind |-> "text", body |-> <<"word">>]}

\* Mutant of code_of: APITimeoutError is caught by the clause for its base class.
code_of_base(provider, error) ==
  CASE error = "other" /\ provider # "langchain"                 -> "UNEXPECTED_ERROR"
    [] error = "OutputParserException" /\ provider = "langchain" -> "INVALID_OUTPUT"
    [] OTHER                                                     -> "PROVIDER_ERROR"

\* Mutant of code_of: an exception class that keeps the code of AIError.
code_of_unset(provider, error) ==
  IF error = "OutputParserException" THEN "UNKNOWN" ELSE code_of_base(provider, error)

\* The except clauses of the adapters, _map_exception (which also looks for a timeout in
\* the message: TimeoutError here), and the one of run_analysis.
code_of(provider, error) ==
  CASE error \in {"APITimeoutError", "TimeoutError"}              -> "TIMEOUT"
    [] error = "other" /\ provider # "langchain"                 -> "UNEXPECTED_ERROR"
    [] error = "OutputParserException" /\ provider = "langchain" -> "INVALID_OUTPUT"
    [] OTHER                                                     -> "PROVIDER_ERROR"

Raisable(provider) ==
  {e \in SdkErrors : e \in {"OutputParserException", "TimeoutError"} => provider = "langchain"}

VendorAnswers ==
  /\ call.pc = "vendor"
  /\ \E r \in Handed(config.provider) :
       call' = [call EXCEPT !.pc = "parse", !.said = r, !.by = config.provider]
  /\ UNCHANGED <<config, item, attempt>>

\* Mutant of FallsBack: the wrapper catches AIError only.
FallsBackOnAIError(code) == config.fallback /\ code # "UNEXPECTED_ERROR"

\* FallbackProvider.analyse: `except Exception`.
FallsBack(code) == config.fallback

\* The SDK raises, or the response has nothing usable in it; and the mock takes over,
\* where it is wrapped around.
VendorFails ==
  LET code(e) == IF e = "empty" THEN "PROVIDER_ERROR" ELSE code_of(config.provider, e)
      empty == IF config.provider = "langchain" THEN {} ELSE {"empty"}
  IN  /\ call.pc = "vendor"
      /\ \E e \in Raisable(config.provider) \cup empty :
           call' = [call EXCEPT !.pc = IF FallsBack(code(e)) THEN "mock" ELSE "failed",
                                !.code = code(e), !.by = config.provider, !.cause = e]
      /\ UNCHANGED <<config, item, attempt>>

\* _mode_for: a marker beats the setting; the fallback's own mock has no setting.
mode_for == IF config.marker \in FAILURE_MODES THEN config.marker ELSE config.failure_mode

\* MockProvider.analyse: a classification, words, or a category there is not.
MockAnswers ==
  /\ call.pc = "mock"
  /\ mode_for \notin {"timeout", "error"}
  /\ call' = [call EXCEPT !.pc = "parse", !.by = "mock",
                !.said = [kind |-> "text",
                          body |-> CASE mode_for = "malformed" -> <<"word">>
                                     [] mode_for = "bad_enum"  -> <<"open", "close">>
                                     [] OTHER                  -> <<"open", "fields", "close">>]]
  /\ UNCHANGED <<config, item, attempt>>

MockFails ==
  /\ call.pc = "mock"
  /\ mode_for \in {"timeout", "error"}
  /\ call' = [call EXCEPT !.pc = "failed", !.by = "mock",
                !.cause = IF mode_for = "timeout" THEN "APITimeoutError" ELSE "APIError",
                !.code = IF mode_for = "timeout" THEN "TIMEOUT" ELSE "PROVIDER_ERROR"]
  /\ UNCHANGED <<config, item, attempt>>

-----------------------------------------------------------------------------
(* parse_analysis and what run_analysis records.                           *)

\* Mutant of payload: a tool call is taken to have been validated by the vendor.
payload_trusted(r) ==
  IF r.kind = "dict" THEN <<"open", "fields", "close">> ELSE extract_json_object(r.body)

\* The object parse_analysis validates.
payload(r) == IF r.kind = "dict" THEN r.body ELSE extract_json_object(r.body)

\* It is a dict, and it validates.
Usable(r) ==
  LET p == payload(r)
  IN  p # None /\ p[1] = "open" /\ Conforms(p)

\* _record_success, with the item still ANALYSING.
RecordSuccess ==
  /\ call.pc = "parse"
  /\ Usable(call.said)
  /\ attempt' = [attempt EXCEPT !.outcome = "SUCCEEDED", !.error_code = "NONE"]
  /\ item' = [status |-> "READY_FOR_REVIEW", result |-> payload(call.said),
              analysis_model |-> model, last_error_code |-> "NONE"]
  /\ Goto("done")
  /\ UNCHANGED config

\* AIInvalidOutputError.
ParseRejects ==
  /\ call.pc = "parse"
  /\ ~Usable(call.said)
  /\ call' = [call EXCEPT !.pc = "failed", !.code = "INVALID_OUTPUT", !.cause = "unusable"]
  /\ UNCHANGED <<config, item, attempt>>

\* _record_failure: what was said is kept, if anything was.
RecordFailure ==
  /\ call.pc = "failed"
  /\ attempt' = [attempt EXCEPT !.error_code = call.code,
                !.raw_output = IF call.cause = "OutputParserException" THEN ExceptionText
                                                                      ELSE call.said.body]
  /\ item' = [item EXCEPT !.status = "FAILED", !.last_error_code = call.code]
  /\ Goto("done")
  /\ UNCHANGED config

Init ==
  /\ config \in Configs
  /\ call = [pc |-> "new", by |-> "nobody", said |-> NoReply, cause |-> "nothing",
             code |-> "NONE"]
  /\ item = [status |-> "RECEIVED", result |-> None, analysis_model |-> "nobody",
             last_error_code |-> "NONE"]
  /\ attempt = NoAttempt

Next ==
  \/ ProviderBuilt \/ ProviderRefused \/ Claim
  \/ VendorAnswers \/ VendorFails \/ MockAnswers \/ MockFails
  \/ RecordSuccess \/ ParseRejects \/ RecordFailure

Spec == Init /\ [][Next]_vars

-----------------------------------------------------------------------------
(* Properties.                                                             *)

\* Every variable has its type.
TypeOK ==
  /\ config \in Configs
  /\ call.pc \in {"new", "claim", "vendor", "mock", "parse", "failed", "done"}
  /\ call.code \in Codes
  /\ item.status \in {"RECEIVED", "ANALYSING", "READY_FOR_REVIEW", "FAILED"}
  /\ attempt # NoAttempt => attempt.error_code \in Codes /\ attempt.model = model

\* parse_analysis is tolerant about presentation and about nothing else: it reads an
\* object from a text just when one starts at the first brace, and reads that one,
\* whatever stands around it, fences included; unless the text as a whole, or what its
\* fence holds, is JSON that is no object (an array around an analysis, say), which is
\* read instead and refused.
ReadsTheObjectThatIsThere ==
  call.pc = "parse" /\ call.said.kind = "text" =>
    LET read == extract_json_object(call.said.body)
        there == ObjectAtFirstBrace(call.said.body)
    IN  \/ read = there
        \/ /\ read \in WholeReadings(call.said.body) /\ Json(read) /\ ~JsonObject(read)
           /\ ~Usable(call.said)

\* What an operator is shown is an analysis that the model gave, and it was validated;
\* bad output never touches the item.
ShownWasSaidAndValid ==
  /\ item.status = "READY_FOR_REVIEW" =>
       /\ Conforms(item.result)
       /\ item.result \in {call.said.body, ObjectAtFirstBrace(call.said.body)}
  /\ item.status # "READY_FOR_REVIEW" => item.result = None

\* The failure an operator sees is the one that happened, of the provider asked last:
\* TIMEOUT for a timeout, INVALID_OUTPUT for unusable output, which is kept.
CodeSaysWhatHappened ==
  item.status = "FAILED" =>
    /\ item.last_error_code = attempt.error_code
    /\ attempt.error_code = "TIMEOUT" <=> call.cause \in {"APITimeoutError", "TimeoutError"}
    /\ attempt.error_code = "INVALID_OUTPUT" <=>
         call.cause \in {"unusable", "OutputParserException"}
    /\ call.cause = "unusable" => attempt.raw_output = call.said.body /\ call.said # NoReply

\* With the fallback on and no marker in the title, whatever the vendor's SDK raises
\* ends in a result; only unusable output fails an item.
FallbackCoversEveryException ==
  config.fallback /\ config.marker = "absent" /\ item.status = "FAILED" =>
    call.cause = "unusable"

\* However a request ends (ImproperlyConfigured, an AIError, any other exception, output
\* that does not validate, a result) the item is not left ANALYSING: nothing was claimed
\* and no attempt spent, or the item and its attempt say the same of how it ended.
EveryExitIsWhole ==
  call.pc = "done" =>
    \/ item.status = "RECEIVED" /\ attempt = NoAttempt
    \/ item.status = "READY_FOR_REVIEW" /\ attempt.outcome = "SUCCEEDED"
    \/ /\ item.status = "FAILED" /\ attempt.outcome = "FAILED"
       /\ item.last_error_code = attempt.error_code

\* models.py, of analysis_model: "Which model produced the result above".
AnalysisModelProducedIt ==
  item.status = "READY_FOR_REVIEW" => item.analysis_model = call.by

=============================================================================
