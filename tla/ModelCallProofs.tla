--------------------------- MODULE ModelCallProofs ---------------------------
(***************************************************************************)
(* Theorems about ModelCall, for any texts, any objects and any set of SDK *)
(* errors.  What the parser reads of a text is ParserProofs; here is that  *)
(* only texts get there, and what is recorded once it has read something   *)
(* or failed to.                                                           *)
(***************************************************************************)
EXTENDS ModelCall, ParserProofs

Timeouts == {"APITimeoutError", "TimeoutError"}
Unusables == {"unusable", "OutputParserException"}

\* The fields the records have.
Shape ==
  /\ call = [pc |-> call.pc, by |-> call.by, said |-> call.said, cause |-> call.cause,
             code |-> call.code]
  /\ item = [status |-> item.status, result |-> item.result,
             analysis_model |-> item.analysis_model, last_error_code |-> item.last_error_code]
  /\ attempt = [outcome |-> attempt.outcome, error_code |-> attempt.error_code,
                raw_output |-> attempt.raw_output, model |-> attempt.model]

\* How far the run has got says what has been written.
Progress ==
  /\ call.pc \in {"new", "claim"} => item.status = "RECEIVED" /\ attempt = NoAttempt
  /\ call.pc \in {"vendor", "mock", "parse", "failed"} =>
       /\ Configured
       /\ item.status = "ANALYSING"
       /\ attempt.outcome = "FAILED" /\ attempt.error_code \in Codes /\ attempt.model = model
  /\ call.pc = "claim" => Configured
  /\ item.status = "FAILED" => call.pc = "done"
  /\ call.pc = "mock" /\ config.provider # "mock" => config.fallback

\* What was said is something, once there is something to parse.
Spoken == call.pc = "parse" \/ call.cause = "unusable" => call.said # NoReply

\* The code a failed call carries fits its cause, and with the fallback on and no marker
\* only unusable output fails.
Fits ==
  call.pc = "failed" =>
    /\ call.code = "TIMEOUT" <=> call.cause \in Timeouts
    /\ call.code = "INVALID_OUTPUT" <=> call.cause \in Unusables
    /\ config.fallback /\ config.marker = "absent" => call.cause = "unusable"

CallInv ==
  /\ TypeOK /\ Shape /\ Progress /\ Spoken /\ Fits
  /\ CodeSaysWhatHappened /\ FallbackCoversEveryException /\ EveryExitIsWhole

LEMMA InitCallInv == Init => CallInv
  BY DEF Init, CallInv, TypeOK, Shape, Progress, Spoken, Fits, NoAttempt, Codes,
         CodeSaysWhatHappened, FallbackCoversEveryException, EveryExitIsWhole

\* Whatever an adapter hands on is not "nothing was said".
LEMMA HandedIsSaid ==
  ASSUME NEW provider, NEW r \in Handed(provider)
  PROVE  r # NoReply
<1>1. None \notin Seq(Tokens)
  <2> SUFFICES ASSUME None \in Seq(Tokens) PROVE FALSE
    OBVIOUS
  <2>1. Len(None) = 1
    BY DEF None
  <2>2. None[1] \in Tokens
    BY <2>1, ElementOfSeq
  <2> QED
    BY <2>2 DEF None, Tokens
<1>2. None \notin Texts
  BY <1>1, TextsAssumption
<1>3. None # <<"word">>
  BY DEF None
<1>4. CASE provider = "anthropic"
  BY <1>2, <1>4 DEF Handed, NoReply
<1>5. CASE provider = "nvidia"
  BY <1>2, <1>5 DEF Handed, NoReply
<1>6. CASE provider \notin {"anthropic", "nvidia"}
  BY <1>3, <1>6 DEF Handed, NoReply
<1> QED
  BY <1>4, <1>5, <1>6

\* The mock is reached from a vendor only through the fallback, which has no setting.
LEMMA FallbackMock ==
  ASSUME config \in Configs, config.fallback, config.marker = "absent"
  PROVE  config.provider # "mock" /\ mode_for = "none"
<1>1. \/ config \in [provider : Vendors, api_key : BOOLEAN, fallback : BOOLEAN,
                     failure_mode : {"none"}, marker : FAILURE_MODES \cup {"absent"}]
      \/ config \in [provider : {"mock"}, api_key : {TRUE}, fallback : {FALSE},
                     failure_mode : FAILURE_MODES, marker : FAILURE_MODES \cup {"absent"}]
  BY DEF Configs
<1>2. config.provider \in Vendors /\ config.failure_mode = "none"
  BY <1>1
<1> QED
  BY <1>2 DEF Vendors, mode_for, FAILURE_MODES

LEMMA CodesFit ==
  ASSUME NEW provider, NEW e \in Raisable(provider)
  PROVE  /\ code_of(provider, e) \in Codes
         /\ code_of(provider, e) = "TIMEOUT" <=> e \in Timeouts
         /\ code_of(provider, e) = "INVALID_OUTPUT" <=> e \in Unusables
<1>1. /\ e \in {"APITimeoutError", "APIStatusError", "APIError",
                "OutputParserException", "TimeoutError", "other"}
      /\ e \in {"OutputParserException", "TimeoutError"} => provider = "langchain"
  BY SdkAssumption DEF Raisable
<1> QED
  BY <1>1 DEF code_of, Codes, Timeouts, Unusables

-----------------------------------------------------------------------------
(* Every step keeps the invariant.                                         *)

LEMMA BuildKeeps ==
  ASSUME CallInv, ProviderBuilt \/ ProviderRefused
  PROVE  CallInv'
<1>1. /\ UNCHANGED <<config, item, attempt>>
      /\ call.pc = "new"
      /\ \/ call' = [call EXCEPT !.pc = "claim"] /\ Configured
         \/ call' = [call EXCEPT !.pc = "done"]
  BY DEF ProviderBuilt, ProviderRefused, Goto
<1>2. /\ call'.pc \in {"claim", "done"} /\ (call'.pc = "claim" => Configured)
      /\ call'.by = call.by /\ call'.said = call.said
      /\ call'.cause = call.cause /\ call'.code = call.code
      /\ call' = [pc |-> call'.pc, by |-> call'.by, said |-> call'.said,
                  cause |-> call'.cause, code |-> call'.code]
  BY <1>1 DEF CallInv, Shape
<1>3. Configured' <=> Configured
  BY <1>1 DEF Configured
<1>4. TypeOK' /\ Shape'
  BY <1>1, <1>2 DEF CallInv, TypeOK, Shape, Progress
<1>5. Progress' /\ Spoken' /\ Fits'
  BY <1>1, <1>2, <1>3 DEF CallInv, Progress, Spoken, Fits
<1>6. CodeSaysWhatHappened' /\ FallbackCoversEveryException' /\ EveryExitIsWhole'
  BY <1>1, <1>2, <1>3
     DEF CallInv, Progress, CodeSaysWhatHappened, FallbackCoversEveryException,
         EveryExitIsWhole
<1> QED
  BY <1>4, <1>5, <1>6 DEF CallInv

LEMMA ClaimKeeps ==
  ASSUME CallInv, Claim
  PROVE  CallInv'
<1>1. /\ config' = config /\ call.pc = "claim" /\ Configured
      /\ call' = [call EXCEPT !.pc = IF config.provider = "mock" THEN "mock" ELSE "vendor"]
      /\ item' = [item EXCEPT !.status = "ANALYSING"]
      /\ attempt' = [outcome |-> "FAILED", error_code |-> "UNEXPECTED_ERROR",
                     raw_output |-> None, model |-> model]
  BY DEF Claim, Goto, CallInv, Progress
<1>2. /\ call'.pc = IF config.provider = "mock" THEN "mock" ELSE "vendor"
      /\ call'.said = call.said /\ call'.cause = call.cause /\ call'.code = call.code
      /\ call' = [pc |-> call'.pc, by |-> call'.by, said |-> call'.said,
                  cause |-> call'.cause, code |-> call'.code]
      /\ item'.status = "ANALYSING"
      /\ item' = [status |-> item'.status, result |-> item'.result,
                  analysis_model |-> item'.analysis_model,
                  last_error_code |-> item'.last_error_code]
  BY <1>1 DEF CallInv, Shape
<1>3. /\ attempt'.outcome = "FAILED" /\ attempt'.error_code = "UNEXPECTED_ERROR"
      /\ attempt'.model = model'
      /\ attempt' = [outcome |-> attempt'.outcome, error_code |-> attempt'.error_code,
                     raw_output |-> attempt'.raw_output, model |-> attempt'.model]
  BY <1>1 DEF model
<1>4. Configured'
  BY <1>1 DEF Configured
<1>5. TypeOK'
  BY <1>1, <1>2, <1>3 DEF CallInv, TypeOK, Codes
<1>6. Shape'
  BY <1>2, <1>3 DEF Shape
<1>7. Progress' /\ Spoken' /\ Fits'
  BY <1>1, <1>2, <1>3, <1>4 DEF CallInv, Progress, Spoken, Fits, Codes
<1>8. CodeSaysWhatHappened' /\ FallbackCoversEveryException' /\ EveryExitIsWhole'
  BY <1>2, <1>4
     DEF CodeSaysWhatHappened, FallbackCoversEveryException, EveryExitIsWhole
<1> QED
  BY <1>5, <1>6, <1>7, <1>8 DEF CallInv

\* Answers and failures of the provider write nothing: what they say is in call.
LEMMA ProviderKeeps ==
  ASSUME CallInv, UNCHANGED <<config, item, attempt>>,
         call.pc \in {"vendor", "mock", "parse"},
         call'.pc \in {"mock", "parse", "failed"},
         call'.code \in Codes,
         call' = [pc |-> call'.pc, by |-> call'.by, said |-> call'.said,
                  cause |-> call'.cause, code |-> call'.code],
         call'.pc = "mock" => config.fallback,
         Spoken', Fits'
  PROVE  CallInv'
<1>1. Configured' <=> Configured
  BY DEF Configured
<1>2. model' = model
  BY DEF model
<1>3. TypeOK' /\ Shape'
  BY <1>2 DEF CallInv, TypeOK, Shape
<1>4. Progress'
  BY <1>1, <1>2 DEF CallInv, Progress
<1>5. CodeSaysWhatHappened' /\ FallbackCoversEveryException' /\ EveryExitIsWhole'
  BY <1>1
     DEF CallInv, Progress, CodeSaysWhatHappened, FallbackCoversEveryException,
         EveryExitIsWhole
<1> QED
  BY <1>3, <1>4, <1>5 DEF CallInv

LEMMA AnswerKeeps ==
  ASSUME CallInv, VendorAnswers \/ MockAnswers
  PROVE  CallInv'
<1>1. PICK r, by : /\ call' = [call EXCEPT !.pc = "parse", !.said = r, !.by = by]
                   /\ r # NoReply
  <2>1. CASE VendorAnswers
    <3>1. PICK r \in Handed(config.provider) :
            call' = [call EXCEPT !.pc = "parse", !.said = r, !.by = config.provider]
      BY <2>1 DEF VendorAnswers
    <3>2. r # NoReply
      BY HandedIsSaid
    <3> QED
      BY <3>1, <3>2
  <2>2. CASE MockAnswers
    <3> DEFINE body == CASE mode_for = "malformed" -> <<"word">>
                         [] mode_for = "bad_enum"  -> <<"open", "close">>
                         [] OTHER                  -> <<"open", "fields", "close">>
               r == [kind |-> "text", body |-> body]
    <3>1. body \in {<<"word">>, <<"open", "close">>, <<"open", "fields", "close">>}
      OBVIOUS
    <3>2. body # None
      BY <3>1 DEF None
    <3> HIDE DEF body
    <3>3. r # NoReply
      BY <3>2 DEF NoReply
    <3>4. call' = [call EXCEPT !.pc = "parse", !.said = r, !.by = "mock"]
      BY <2>2 DEF MockAnswers, body, Shape, CallInv
    <3> HIDE DEF r
    <3> QED
      BY <3>3, <3>4
  <2> QED
    BY <2>1, <2>2
<1>2. /\ call'.pc = "parse" /\ call'.said = r /\ call'.cause = call.cause
      /\ call'.code = call.code
      /\ call' = [pc |-> call'.pc, by |-> call'.by, said |-> call'.said,
                  cause |-> call'.cause, code |-> call'.code]
  BY <1>1 DEF CallInv, Shape
<1>3. call.pc \in {"vendor", "mock"} /\ UNCHANGED <<config, item, attempt>>
  BY DEF VendorAnswers, MockAnswers
<1>4. Spoken' /\ Fits'
  BY <1>1, <1>2, <1>3 DEF CallInv, Spoken, Fits, NoReply
<1> QED
  BY <1>2, <1>3, <1>4, ProviderKeeps DEF CallInv, TypeOK

LEMMA VendorFailsKeeps ==
  ASSUME CallInv, VendorFails
  PROVE  CallInv'
<1> DEFINE code(e) == IF e = "empty" THEN "PROVIDER_ERROR" ELSE code_of(config.provider, e)
<1>1. PICK e \in Raisable(config.provider) \cup {"empty"} :
        call' = [call EXCEPT !.pc = IF FallsBack(code(e)) THEN "mock" ELSE "failed",
                             !.code = code(e), !.by = config.provider, !.cause = e]
  BY DEF VendorFails
<1>2. /\ code(e) \in Codes
      /\ code(e) = "TIMEOUT" <=> e \in Timeouts
      /\ code(e) = "INVALID_OUTPUT" <=> e \in Unusables
  <2>1. CASE e = "empty"
    BY <2>1 DEF Codes, Timeouts, Unusables
  <2>2. CASE e # "empty"
    BY <2>2, CodesFit
  <2> QED
    BY <2>1, <2>2
<1>3. e # "unusable"
  <2>1. e \in SdkErrors \cup {"empty"}
    BY DEF Raisable
  <2> QED
    BY <2>1, SdkAssumption
<1> HIDE DEF code
<1>4. /\ call'.pc = IF config.fallback THEN "mock" ELSE "failed"
      /\ call'.said = call.said /\ call'.cause = e /\ call'.code = code(e)
      /\ call' = [pc |-> call'.pc, by |-> call'.by, said |-> call'.said,
                  cause |-> call'.cause, code |-> call'.code]
  BY <1>1 DEF CallInv, Shape, FallsBack
<1>5. call.pc = "vendor" /\ UNCHANGED <<config, item, attempt>>
  BY DEF VendorFails
<1>6. Spoken' /\ Fits'
  BY <1>2, <1>3, <1>4, <1>5 DEF Spoken, Fits
<1>7. call'.pc \in {"mock", "failed"} /\ (call'.pc = "mock" => config.fallback)
  BY <1>4
<1> QED
  BY <1>2, <1>4, <1>5, <1>6, <1>7, ProviderKeeps

LEMMA MockFailsKeeps ==
  ASSUME CallInv, MockFails
  PROVE  CallInv'
<1>1. /\ call.pc = "mock" /\ UNCHANGED <<config, item, attempt>>
      /\ mode_for \in {"timeout", "error"}
      /\ call' = [call EXCEPT !.pc = "failed", !.by = "mock",
                    !.cause = IF mode_for = "timeout" THEN "APITimeoutError" ELSE "APIError",
                    !.code = IF mode_for = "timeout" THEN "TIMEOUT" ELSE "PROVIDER_ERROR"]
  BY DEF MockFails
<1>2. /\ call'.pc = "failed" /\ call'.said = call.said
      /\ call'.cause = IF mode_for = "timeout" THEN "APITimeoutError" ELSE "APIError"
      /\ call'.code = IF mode_for = "timeout" THEN "TIMEOUT" ELSE "PROVIDER_ERROR"
      /\ call' = [pc |-> call'.pc, by |-> call'.by, said |-> call'.said,
                  cause |-> call'.cause, code |-> call'.code]
  BY <1>1 DEF CallInv, Shape
<1>3. ~(config.fallback /\ config.marker = "absent")
  BY <1>1, FallbackMock DEF CallInv, TypeOK
<1>4. Spoken'
  BY <1>2 DEF Spoken
<1>5. Fits'
  BY <1>1, <1>2, <1>3 DEF Fits, Timeouts, Unusables
<1>6. call'.code \in Codes
  BY <1>2 DEF Codes
<1> QED
  BY <1>1, <1>2, <1>4, <1>5, <1>6, ProviderKeeps

LEMMA ParseRejectsKeeps ==
  ASSUME CallInv, ParseRejects
  PROVE  CallInv'
<1>1. /\ call.pc = "parse" /\ UNCHANGED <<config, item, attempt>>
      /\ call' = [call EXCEPT !.pc = "failed", !.code = "INVALID_OUTPUT", !.cause = "unusable"]
  BY DEF ParseRejects
<1>2. /\ call'.pc = "failed" /\ call'.said = call.said
      /\ call'.cause = "unusable" /\ call'.code = "INVALID_OUTPUT"
      /\ call' = [pc |-> call'.pc, by |-> call'.by, said |-> call'.said,
                  cause |-> call'.cause, code |-> call'.code]
  BY <1>1 DEF CallInv, Shape
<1>3. Spoken' /\ Fits' /\ call'.code \in Codes
  BY <1>1, <1>2 DEF CallInv, Spoken, Fits, Timeouts, Unusables, Codes, NoReply
<1> QED
  BY <1>1, <1>2, <1>3, ProviderKeeps

LEMMA RecordSuccessKeeps ==
  ASSUME CallInv, RecordSuccess
  PROVE  CallInv'
<1>1. /\ call.pc = "parse" /\ config' = config
      /\ attempt' = [attempt EXCEPT !.outcome = "SUCCEEDED", !.error_code = "NONE"]
      /\ item' = [status |-> "READY_FOR_REVIEW", result |-> payload(call.said),
                  analysis_model |-> model, last_error_code |-> "NONE"]
      /\ call' = [call EXCEPT !.pc = "done"]
  BY DEF RecordSuccess, Goto
<1>2. /\ call'.pc = "done" /\ call'.said = call.said
      /\ call'.cause = call.cause /\ call'.code = call.code
      /\ call' = [pc |-> call'.pc, by |-> call'.by, said |-> call'.said,
                  cause |-> call'.cause, code |-> call'.code]
      /\ attempt'.error_code = "NONE" /\ attempt'.model = attempt.model
      /\ attempt'.outcome = "SUCCEEDED"
      /\ attempt' = [outcome |-> attempt'.outcome, error_code |-> attempt'.error_code,
                     raw_output |-> attempt'.raw_output, model |-> attempt'.model]
  BY <1>1 DEF CallInv, Shape
<1>3. /\ item'.status = "READY_FOR_REVIEW"
      /\ item' = [status |-> item'.status, result |-> item'.result,
                  analysis_model |-> item'.analysis_model,
                  last_error_code |-> item'.last_error_code]
  BY <1>1
<1>4. Configured' /\ model' = model /\ attempt.model = model
  BY <1>1 DEF CallInv, Progress, Configured, model
<1>5. TypeOK' /\ Shape'
  BY <1>1, <1>2, <1>3, <1>4 DEF CallInv, TypeOK, Shape, Codes
<1>6. Progress' /\ Spoken' /\ Fits'
  BY <1>1, <1>2, <1>3, <1>4 DEF CallInv, Progress, Spoken, Fits
<1>7. CodeSaysWhatHappened' /\ FallbackCoversEveryException' /\ EveryExitIsWhole'
  BY <1>2, <1>3, <1>4
     DEF CodeSaysWhatHappened, FallbackCoversEveryException, EveryExitIsWhole
<1> QED
  BY <1>5, <1>6, <1>7 DEF CallInv

LEMMA RecordFailureKeeps ==
  ASSUME CallInv, RecordFailure
  PROVE  CallInv'
<1>1. /\ call.pc = "failed" /\ config' = config
      /\ attempt' = [attempt EXCEPT !.error_code = call.code,
                       !.raw_output = IF call.cause = "OutputParserException"
                                        THEN ExceptionText ELSE call.said.body]
      /\ item' = [item EXCEPT !.status = "FAILED", !.last_error_code = call.code]
      /\ call' = [call EXCEPT !.pc = "done"]
  BY DEF RecordFailure, Goto
<1>2. /\ call'.pc = "done" /\ call'.said = call.said
      /\ call'.cause = call.cause /\ call'.code = call.code
      /\ call' = [pc |-> call'.pc, by |-> call'.by, said |-> call'.said,
                  cause |-> call'.cause, code |-> call'.code]
      /\ item'.status = "FAILED" /\ item'.last_error_code = call.code
      /\ item' = [status |-> item'.status, result |-> item'.result,
                  analysis_model |-> item'.analysis_model,
                  last_error_code |-> item'.last_error_code]
  BY <1>1 DEF CallInv, Shape
<1>3. /\ attempt'.error_code = call.code /\ attempt'.model = attempt.model
      /\ attempt'.outcome = attempt.outcome
      /\ call.cause # "OutputParserException" => attempt'.raw_output = call.said.body
      /\ attempt' = [outcome |-> attempt'.outcome, error_code |-> attempt'.error_code,
                     raw_output |-> attempt'.raw_output, model |-> attempt'.model]
  BY <1>1 DEF CallInv, Shape
<1>4. Configured' /\ model' = model /\ attempt.model = model
  BY <1>1 DEF CallInv, Progress, Configured, model
<1>5. TypeOK' /\ Shape'
  BY <1>1, <1>2, <1>3, <1>4 DEF CallInv, TypeOK, Shape
<1>6. Progress' /\ Spoken' /\ Fits'
  BY <1>1, <1>2, <1>3, <1>4 DEF CallInv, Progress, Spoken, Fits
<1>7. CodeSaysWhatHappened'
  BY <1>1, <1>2, <1>3 DEF CallInv, Fits, Spoken, Timeouts, Unusables, CodeSaysWhatHappened
<1>8. FallbackCoversEveryException' /\ EveryExitIsWhole'
  BY <1>1, <1>2, <1>3
     DEF CallInv, Fits, Progress, FallbackCoversEveryException, EveryExitIsWhole
<1> QED
  BY <1>5, <1>6, <1>7, <1>8 DEF CallInv

LEMMA NextCallInv == CallInv /\ [Next]_vars => CallInv'
<1> SUFFICES ASSUME CallInv, [Next]_vars PROVE CallInv'
  OBVIOUS
<1>1. CASE UNCHANGED vars
  BY <1>1
     DEF vars, CallInv, TypeOK, Shape, Progress, Spoken, Fits, model, Configured,
         CodeSaysWhatHappened, FallbackCoversEveryException, EveryExitIsWhole
<1>2. CASE Next
  BY <1>2, BuildKeeps, ClaimKeeps, AnswerKeeps, VendorFailsKeeps, MockFailsKeeps,
     ParseRejectsKeeps, RecordSuccessKeeps, RecordFailureKeeps DEF Next
<1> QED
  BY <1>1, <1>2

THEOREM CallInvCorrect == Spec => []CallInv
  BY InitCallInv, NextCallInv, PTL DEF Spec

\* Every variable has its type, under every configuration.
THEOREM CallTyped == Spec => []TypeOK
<1>1. CallInv => TypeOK
  BY DEF CallInv
<1> QED
  BY <1>1, CallInvCorrect, PTL

\* The error code an operator sees is that of the failure that happened last, whatever the
\* vendor's SDK raises, and unusable output is kept.
THEOREM CodesAreTrue == Spec => []CodeSaysWhatHappened
<1>1. CallInv => CodeSaysWhatHappened
  BY DEF CallInv
<1> QED
  BY <1>1, CallInvCorrect, PTL

\* With the fallback on and no marker in the title, no exception of the vendor's SDK fails
\* an item.
THEOREM FallbackCovers == Spec => []FallbackCoversEveryException
<1>1. CallInv => FallbackCoversEveryException
  BY DEF CallInv
<1> QED
  BY <1>1, CallInvCorrect, PTL

\* Whatever the configuration and however the vendor's SDK and the model behave, a request
\* that has ended left no item ANALYSING, and item and attempt agree.
THEOREM ExitsAreWhole == Spec => []EveryExitIsWhole
<1>1. CallInv => EveryExitIsWhole
  BY DEF CallInv
<1> QED
  BY <1>1, CallInvCorrect, PTL

-----------------------------------------------------------------------------
(* What the parser is given, and what becomes of what it reads.            *)

\* What is there to be parsed is a text, if it is not a dict already.
SaidInWords ==
  call.pc = "parse" /\ call.said.kind # "dict" => call.said.body \in Seq(Tokens)

\* A result is the end of the call.
ResultIsLast == item.status = "READY_FOR_REVIEW" => call.pc = "done"

LEMMA HandedInWords ==
  ASSUME NEW provider, NEW r \in Handed(provider), r.kind # "dict"
  PROVE  r.body \in Seq(Tokens)
<1>1. <<"word">> \in Seq(Tokens)
  BY DEF Tokens
<1>2. Texts \subseteq Seq(Tokens)
  BY TextsAssumption
<1>3. CASE provider = "anthropic"
  BY <1>2, <1>3 DEF Handed
<1>4. CASE provider = "nvidia"
  BY <1>2, <1>4 DEF Handed
<1>5. CASE provider \notin {"anthropic", "nvidia"}
  <2>1. \/ r \in [kind : {"dict"}, body : {o \in Objects : Conforms(o)}]
        \/ r = [kind |-> "text", body |-> <<"word">>]
    BY <1>5 DEF Handed
  <2>2. r.body = <<"word">>
    BY <2>1
  <2> QED
    BY <1>1, <2>2, Zenon
<1> QED
  BY <1>3, <1>4, <1>5

LEMMA MockInWords ==
  ASSUME CallInv, MockAnswers
  PROVE  call'.said.body \in Seq(Tokens)
<1> DEFINE body == CASE mode_for = "malformed" -> <<"word">>
                     [] mode_for = "bad_enum"  -> <<"open", "close">>
                     [] OTHER                  -> <<"open", "fields", "close">>
<1>1. body \in {<<"word">>, <<"open", "close">>, <<"open", "fields", "close">>}
  OBVIOUS
<1>2. body \in Seq(Tokens)
  <2>1. /\ <<"word">> \in Seq(Tokens)
        /\ <<"open", "close">> \in Seq(Tokens)
        /\ <<"open", "fields", "close">> \in Seq(Tokens)
    BY DEF Tokens
  <2> HIDE DEF body
  <2> QED
    BY <1>1, <2>1, Zenon
<1>3. call'.said = [kind |-> "text", body |-> body]
  <2>1. call' = [call EXCEPT !.pc = "parse", !.by = "mock",
                   !.said = [kind |-> "text", body |-> body]]
    BY DEF MockAnswers
  <2> HIDE DEF body
  <2> QED
    BY <2>1 DEF CallInv, Shape
<1> QED
  BY <1>2, <1>3

LEMMA NextInWords == CallInv /\ SaidInWords /\ [Next]_vars => SaidInWords'
<1> SUFFICES ASSUME CallInv, SaidInWords, [Next]_vars PROVE SaidInWords'
  OBVIOUS
<1>1. CASE VendorAnswers
  <2>1. PICK r \in Handed(config.provider) :
          call' = [call EXCEPT !.pc = "parse", !.said = r, !.by = config.provider]
    BY <1>1 DEF VendorAnswers
  <2>2. call'.said = r
    BY <2>1 DEF CallInv, Shape
  <2> QED
    BY <2>2, HandedInWords DEF SaidInWords
<1>2. CASE MockAnswers
  BY <1>2, MockInWords DEF SaidInWords
<1>3. CASE call'.pc # "parse"
  BY <1>3 DEF SaidInWords
<1>4. CASE UNCHANGED vars
  BY <1>4 DEF SaidInWords, vars
<1>5. ASSUME ProviderBuilt \/ ProviderRefused \/ Claim \/ VendorFails \/ MockFails
             \/ RecordSuccess \/ ParseRejects \/ RecordFailure
      PROVE  call'.pc # "parse"
  BY <1>5
     DEF CallInv, Shape, ProviderBuilt, ProviderRefused, Claim, VendorFails, MockFails,
         RecordSuccess, ParseRejects, RecordFailure, Goto
<1> QED
  BY <1>1, <1>2, <1>3, <1>4, <1>5 DEF Next

\* Whatever the model says in words, the parser reads the object at the first brace of it,
\* or nothing if none is there; a text that is itself JSON and no object, as an array
\* around an analysis is, is read as that and refused.
THEOREM TheObjectIsRead == Spec => []ReadsTheObjectThatIsThere
<1>1. Init => SaidInWords
  BY DEF Init, SaidInWords
<1>2. SaidInWords => ReadsTheObjectThatIsThere
  <2> SUFFICES ASSUME SaidInWords, call.pc = "parse", call.said.kind = "text"
               PROVE  LET read == extract_json_object(call.said.body)
                      IN  \/ read = ObjectAtFirstBrace(call.said.body)
                          \/ /\ read \in WholeReadings(call.said.body)
                             /\ Json(read) /\ ~JsonObject(read) /\ ~Usable(call.said)
    BY DEF ReadsTheObjectThatIsThere
  <2> DEFINE read == extract_json_object(call.said.body)
  <2>1. call.said.body \in Seq(Tokens) /\ payload(call.said) = read
    BY DEF SaidInWords, payload
  <2>2. \/ read = ObjectAtFirstBrace(call.said.body)
        \/ /\ read \in WholeReadings(call.said.body) /\ Json(read) /\ ~JsonObject(read)
           /\ read[1] # "open"
    BY <2>1, ReadsTheObject
  <2>3. Usable(call.said) => read[1] = "open"
    BY <2>1 DEF Usable
  <2> QED
    BY <2>2, <2>3
<1> QED
  BY <1>1, <1>2, NextInWords, CallInvCorrect, PTL DEF Spec

\* What validates was in what was said: the tool call itself, or the object its words hold.
LEMMA PayloadWasSaid ==
  ASSUME CallInv, SaidInWords, call.pc = "parse", Usable(call.said)
  PROVE  /\ Conforms(payload(call.said))
         /\ payload(call.said) \in {call.said.body, ObjectAtFirstBrace(call.said.body)}
<1>1. /\ Conforms(payload(call.said)) /\ payload(call.said)[1] = "open"
  BY DEF Usable
<1>2. CASE call.said.kind = "dict"
  BY <1>1, <1>2 DEF payload
<1>3. CASE call.said.kind # "dict"
  BY <1>1, <1>3, ReadsTheObject DEF payload, SaidInWords
<1> QED
  BY <1>2, <1>3

LEMMA ShownAtTheEnd == Spec => [](ResultIsLast /\ ShownWasSaidAndValid)
<1>1. Init => SaidInWords /\ ResultIsLast /\ ShownWasSaidAndValid
  BY DEF Init, SaidInWords, ResultIsLast, ShownWasSaidAndValid
<1>2. CallInv /\ SaidInWords /\ ResultIsLast /\ ShownWasSaidAndValid /\ [Next]_vars
        => ResultIsLast' /\ ShownWasSaidAndValid'
  <2> SUFFICES ASSUME CallInv, SaidInWords, ResultIsLast, ShownWasSaidAndValid, [Next]_vars
               PROVE  ResultIsLast' /\ ShownWasSaidAndValid'
    OBVIOUS
  <2>1. CASE UNCHANGED vars
    BY <2>1 DEF ResultIsLast, ShownWasSaidAndValid, vars
  <2>2. CASE RecordSuccess
    <3>1. /\ call.pc = "parse" /\ Usable(call.said)
          /\ item'.status = "READY_FOR_REVIEW" /\ item'.result = payload(call.said)
          /\ call' = [call EXCEPT !.pc = "done"]
      BY <2>2 DEF RecordSuccess, Goto
    <3>2. call'.pc = "done" /\ call'.said = call.said
      BY <3>1 DEF CallInv, Shape
    <3> QED
      BY <3>1, <3>2, PayloadWasSaid DEF ResultIsLast, ShownWasSaidAndValid
  <2>3. CASE Claim \/ RecordFailure
    <3>1. item.status # "READY_FOR_REVIEW"
      BY <2>3 DEF Claim, RecordFailure, ResultIsLast
    <3>2. item'.status \in {"ANALYSING", "FAILED"} /\ item'.result = item.result
      BY <2>3 DEF Claim, RecordFailure, CallInv, Shape
    <3> QED
      BY <3>1, <3>2 DEF ResultIsLast, ShownWasSaidAndValid
  <2>4. CASE item' = item /\ call.pc # "done"
    BY <2>4 DEF ResultIsLast, ShownWasSaidAndValid
  <2>5. ASSUME ProviderBuilt \/ ProviderRefused \/ VendorAnswers \/ VendorFails
               \/ MockAnswers \/ MockFails \/ ParseRejects
        PROVE  item' = item /\ call.pc # "done"
    BY <2>5 DEF ProviderBuilt, ProviderRefused, VendorAnswers, VendorFails, MockAnswers,
                MockFails, ParseRejects
  <2> QED
    BY <2>1, <2>2, <2>3, <2>4, <2>5 DEF Next
<1> QED
  BY <1>1, <1>2, NextInWords, CallInvCorrect, PTL DEF Spec

\* Only an answer that validated becomes the item's result, it was in what the model said,
\* and nothing else writes there: bad output never touches the item, whatever the model
\* says in words or in a tool call.
THEOREM ShownWasSaid == Spec => []ShownWasSaidAndValid
  BY ShownAtTheEnd, PTL

\* What a run knows of who answers: without the fallback, the provider it was built with.
AnswersAlone ==
  ~config.fallback =>
    /\ call.pc \in {"mock", "vendor"} =>
         (call.pc = "mock" <=> config.provider = "mock")
    /\ call.pc = "parse" => call.by = config.provider

\* Without the fallback the model that is named as the one that produced a result did
\* produce it (models.py, analysis_model): only the fallback puts another's name on it.
THEOREM NamedModelWithoutFallback == Spec => [](~config.fallback => AnalysisModelProducedIt)
<1> DEFINE Named == ~config.fallback => AnalysisModelProducedIt
<1>1. Init => AnswersAlone /\ Named
  BY DEF Init, AnswersAlone, AnalysisModelProducedIt
<1>2. CallInv /\ ResultIsLast /\ AnswersAlone /\ Named /\ [Next]_vars => AnswersAlone' /\ Named'
  <2> SUFFICES ASSUME CallInv, ResultIsLast, AnswersAlone, Named, [Next]_vars
               PROVE  AnswersAlone' /\ Named'
    OBVIOUS
  <2>1. CASE ProviderBuilt \/ ProviderRefused \/ ParseRejects
    BY <2>1
       DEF ProviderBuilt, ProviderRefused, ParseRejects, Goto, CallInv, Shape, ResultIsLast,
           AnswersAlone, AnalysisModelProducedIt
  <2>2. CASE Claim
    BY <2>2 DEF Claim, Goto, CallInv, Shape, AnswersAlone, AnalysisModelProducedIt
  <2>3. CASE VendorAnswers \/ MockAnswers
    BY <2>3
       DEF VendorAnswers, MockAnswers, CallInv, Shape, ResultIsLast, AnswersAlone,
           AnalysisModelProducedIt
  <2>4. CASE VendorFails \/ MockFails
    BY <2>4
       DEF VendorFails, MockFails, FallsBack, CallInv, Shape, ResultIsLast, AnswersAlone,
           AnalysisModelProducedIt
  <2>5. CASE RecordSuccess \/ RecordFailure
    <3>1. /\ config' = config /\ call' = [call EXCEPT !.pc = "done"]
          /\ call.pc \in {"parse", "failed"}
      BY <2>5 DEF RecordSuccess, RecordFailure, Goto
    <3>2. call'.pc = "done" /\ call'.by = call.by
      BY <3>1 DEF CallInv, Shape
    <3>3. \/ item'.status = "FAILED"
          \/ call.pc = "parse" /\ item'.analysis_model = config.provider
      <4>1. CASE RecordSuccess
        <5>1. call.pc = "parse" /\ item'.analysis_model = model
          BY <4>1 DEF RecordSuccess
        <5> QED
          BY <5>1 DEF model
      <4>2. CASE RecordFailure
        BY <4>2 DEF RecordFailure, CallInv, Shape
      <4> QED
        BY <2>5, <4>1, <4>2
    <3> QED
      BY <3>1, <3>2, <3>3 DEF AnswersAlone, AnalysisModelProducedIt
  <2>6. CASE UNCHANGED vars
    BY <2>6 DEF vars, AnswersAlone, AnalysisModelProducedIt
  <2> QED
    BY <2>1, <2>2, <2>3, <2>4, <2>5, <2>6 DEF Next
<1> HIDE DEF Named
<1> QED
  BY <1>1, <1>2, ShownAtTheEnd, CallInvCorrect, PTL DEF Spec, Named

=============================================================================
