------------------------- MODULE StepExecutionProofs -------------------------
(***************************************************************************)
(* Proofs that an execution of an accepted definition keeps its rows       *)
(* consistent, and that the results a claim loads cover every reference of *)
(* the claimed step, for all definitions, triggers and answers.            *)
(***************************************************************************)
EXTENDS StepExecution, TLAPS

StoredResults ==
  DOMAIN results = IF status = "succeeded" THEN Keys ELSE EarlierKeys

(* A worker that is busy has claimed the current step and holds the        *)
(* results as they still are.                                              *)
AttemptHolds ==
  ~In("idle") =>
    /\ stepStatus = "running" /\ attempts > 0
    /\ status \in {"running", "cancelled"}
    /\ attempt.priorStepResults = results
    /\ attempt.phase \in {"claimed", "ready", "sleeping"} =>
         attempt = [phase |-> attempt.phase, priorStepResults |-> results,
                    stepInput |-> attempt.stepInput]

(* An error is retryable to the executors exactly if its cause is          *)
(* transient or its request was never sent.                                *)
CauseHolds ==
  In("broken") =>
    (attempt.retryable <=> attempt.cause \in TransientCauses \cup {"refused"})

(* What phase a step of each type can be in, and what the phase implies.   *)
PhaseFacts ==
  /\ In("sleeping") => Step.type = "delay"
  /\ In("waiting") => Step.type \in {"http", "ai"}
  /\ In("reading") => Step.type = "http" /\ attempt.response # "refused"
  /\ CauseHolds
  /\ TextIsScalar

RowsHold ==
  /\ definition \in Definitions /\ Accepted(definition)
  /\ status \in {"queued", "running", "succeeded", "failed", "cancelled"}
  /\ stepStatus \in {"queued", "running"}
  /\ position \in 1..Len(definition)
  /\ attempts \in 0..Step.maxAttempts
  /\ stepStatus = "queued" => attempts < Step.maxAttempts
  /\ DOMAIN inputs = 1..position

AiConforms(i, output) == definition[i].type = "ai" => Conforms(definition[i].schema, output)

(* Whatever an AI step has returned conforms to its schema.                *)
AiResultsConform ==
  /\ \A i \in 1..(position - 1) : AiConforms(i, results[definition[i].key].output)
  /\ In("finished") => AiConforms(position, attempt.result.output)

IInv == RowsHold /\ StoredResults /\ AttemptHolds /\ PhaseFacts /\ AiResultsConform

-------------------------------------------------------------------------------
(* The steps of an accepted definition have keys of their own, and a place *)
(* in it has a step that allows at least one attempt.                      *)
LEMMA DefinitionFacts ==
  ASSUME definition \in Definitions, Accepted(definition)
  PROVE  /\ Len(definition) \in Nat \ {0}
         /\ \A i \in 1..Len(definition) : definition[i].maxAttempts \in Nat \ {0}
         /\ \A i, j \in 1..Len(definition) :
              definition[i].key = definition[j].key => i = j
<1>1. definition \in Seq(Steps)
  BY DefinitionsAssumption
<1>2. Len(definition) \in Nat /\ \A i \in 1..Len(definition) : definition[i] \in Steps
  BY <1>1
<1> QED
  BY <1>2, StepsAssumption DEF Accepted, UniqueKeys

(* The execution begins in a state that satisfies the invariant.           *)
LEMMA InitInvariant == Init => IInv
<1> SUFFICES ASSUME Init PROVE IInv
  OBVIOUS
<1>1. definition \in Definitions /\ Accepted(definition)
  BY DEF Init
<1>2. Len(definition) \in Nat \ {0} /\ definition[1].maxAttempts \in Nat \ {0}
  BY <1>1, DefinitionFacts
<1>3. RowsHold
  BY <1>1, <1>2 DEF Init, RowsHold, Step
<1>4. EarlierKeys = {} /\ 1..(position - 1) = {}
  BY DEF Init, EarlierKeys
<1>5. StoredResults
  BY <1>4 DEF Init, StoredResults
<1> QED
  BY <1>3, <1>4, <1>5 DEF Init, IInv, AttemptHolds, PhaseFacts, CauseHolds, TextIsScalar, AiResultsConform, In, NoAttempt

-------------------------------------------------------------------------------
(* Steps that change the worker's memory alone.                            *)

(* A busy worker stays busy, with the results it holds.                    *)
LEMMA AttemptStep ==
  ASSUME IInv, StoreUnchanged, ~In("idle"),
         attempt'.phase # "idle",
         attempt'.priorStepResults = attempt.priorStepResults,
         attempt'.phase \in {"claimed", "ready", "sleeping"} =>
           attempt' = [phase |-> attempt'.phase,
                       priorStepResults |-> attempt.priorStepResults,
                       stepInput |-> attempt'.stepInput],
         PhaseFacts',
         attempt'.phase = "finished" => AiConforms(position, attempt'.result.output)
  PROVE  IInv'
<1>1. RowsHold' /\ StoredResults'
  BY DEF IInv, StoreUnchanged, RowsHold, StoredResults, Step, Keys, EarlierKeys
<1>2. AttemptHolds'
  BY DEF IInv, StoreUnchanged, AttemptHolds, In
<1>3. AiResultsConform'
  BY DEF IInv, StoreUnchanged, AiResultsConform, AiConforms, In
<1> QED
  BY <1>1, <1>2, <1>3 DEF IInv

(* An attempt that breaks or finishes.                                     *)
LEMMA BreakStep ==
  ASSUME IInv, StoreUnchanged, ~In("idle"), NEW cause, NEW retryable,
         retryable \in BOOLEAN,
         retryable <=> cause \in TransientCauses \cup {"refused"},
         Break(cause, retryable)
  PROVE  IInv'
<1> QED
  BY AttemptStep DEF Break, PhaseFacts, CauseHolds, TextIsScalar, In

(* An error that is retryable if its cause is transient.                   *)
LEMMA CauseDecides ==
  ASSUME IInv, StoreUnchanged, ~In("idle"), NEW cause, cause # "refused",
         Break(cause, Retryable(cause))
  PROVE  IInv'
<1>1. /\ Retryable(cause) \in BOOLEAN
      /\ Retryable(cause) <=> cause \in TransientCauses \cup {"refused"}
  BY DEF Retryable
<1> QED
  BY <1>1, BreakStep

LEMMA FinishStep ==
  ASSUME IInv, StoreUnchanged, ~In("idle"), NEW output, NEW metadata,
         Finish(output, metadata), AiConforms(position, output)
  PROVE  IInv'
<1>1. attempt'.result.output = output
  BY DEF Finish
<1> QED
  BY <1>1, AttemptStep DEF Finish, PhaseFacts, CauseHolds, TextIsScalar, In

LEMMA GotoStep ==
  ASSUME IInv, StoreUnchanged, attempt.phase \in {"claimed", "ready"},
         NEW phase \in {"ready", "sleeping"}, Goto(phase),
         phase = "sleeping" => Step.type = "delay"
  PROVE  IInv'
<1>1. attempt = [phase |-> attempt.phase, priorStepResults |-> results,
                 stepInput |-> attempt.stepInput]
  BY DEF IInv, AttemptHolds, In
<1>2. attempt' = [phase |-> phase, priorStepResults |-> results,
                  stepInput |-> attempt.stepInput]
  BY <1>1 DEF Goto
<1>3. attempt.priorStepResults = results
  BY <1>1
<1>4. PhaseFacts'
  BY <1>2 DEF PhaseFacts, CauseHolds, TextIsScalar, In, StoreUnchanged, Step
<1> QED
  BY <1>2, <1>3, <1>4, AttemptStep DEF In

(* A request is sent only if all of its fields were resolved, and text     *)
(* around an object is not.                                                *)
LEMMA MixedIsScalar ==
  ASSUME ConfigValid(Request), NEW field \in DOMAIN Request,
         Step.templates[field].shape = "mixed"
  PROVE  Request[field].around.kind # "object"
<1> DEFINE value == ResolvePath(ExpressionContext(attempt.priorStepResults),
                                Step.templates[field].path)
<1>1. Request[field] # Missing
  BY DEF ConfigValid, HttpConfigValid, AiConfigValid, Missing
<1>2. Request[field] = Interpolate(value)
  BY DEF Request, Resolved, ResolveWorkflowTemplate
<1> HIDE DEF value
<1> QED
  BY <1>1, <1>2 DEF Interpolate, TextAround

-------------------------------------------------------------------------------
(* Each step of the worker keeps the invariant.                            *)

LEMMA ClaimInvariant == IInv /\ ClaimStep => IInv'
<1> SUFFICES ASSUME IInv, ClaimStep PROVE IInv'
  OBVIOUS
<1>1. RowsHold'
  <2>1. attempts \in Nat /\ attempts < Step.maxAttempts /\ Step.maxAttempts \in Nat
    BY DefinitionFacts DEF IInv, RowsHold, ClaimStep, Step
  <2> QED
    BY <2>1 DEF IInv, RowsHold, ClaimStep, Step
<1>2. StoredResults'
  BY DEF IInv, ClaimStep, StoredResults, EarlierKeys, Keys
<1>3. AttemptHolds'
  <2>1. attempts \in Nat
    BY DefinitionFacts DEF IInv, RowsHold, Step
  <2> QED
    BY <2>1 DEF ClaimStep, AttemptHolds, In
<1>4. PhaseFacts'
  BY DEF ClaimStep, PhaseFacts, CauseHolds, TextIsScalar, In
<1>5. AiResultsConform'
  BY DEF IInv, ClaimStep, AiResultsConform, AiConforms, In
<1> QED
  BY <1>1, <1>2, <1>3, <1>4, <1>5 DEF IInv

LEMMA LocalInvariant ==
  ASSUME IInv,
         \/ ResolveStepCredential \/ ExecuteNoop \/ StartDelay \/ EndDelay
         \/ SendRequest \/ FetchRefuses \/ RequestFails
         \/ ReceiveHeaders \/ ReadBody \/ ReceiveAiResponse
  PROVE  IInv'
<1>1. ASSUME ResolveStepCredential PROVE IInv'
  BY <1>1, GotoStep, BreakStep DEF ResolveStepCredential, In, TransientCauses
<1>2. ASSUME ExecuteNoop PROVE IInv'
  <2>1. AiConforms(position, attempt.stepInput)
    BY <1>2 DEF ExecuteNoop, AiConforms, Step
  <2> QED
    BY <1>2, <2>1, FinishStep DEF ExecuteNoop, In
<1>3. ASSUME StartDelay PROVE IInv'
  BY <1>3, GotoStep DEF StartDelay, In
<1>4. ASSUME EndDelay PROVE IInv'
  <2>1. AiConforms(position, attempt.stepInput)
    BY <1>4 DEF EndDelay, AiConforms, Step, IInv, PhaseFacts
  <2> QED
    BY <1>4, <2>1, FinishStep DEF EndDelay, In
<1>5. ASSUME SendRequest PROVE IInv'
  <2>1. CASE ConfigValid(Request)
    <3> DEFINE sent == [phase |-> "waiting", request |-> Request,
                        priorStepResults |-> attempt.priorStepResults]
    <3>1. attempt' = sent /\ StoreUnchanged /\ ~In("idle")
      BY <1>5, <2>1 DEF SendRequest, In
    <3>2. Step.type \in {"http", "ai"} /\ Step' = Step
      BY <1>5, <3>1 DEF SendRequest, StoreUnchanged, Step
    <3>3. ASSUME NEW field \in DOMAIN Request, Step.templates[field].shape = "mixed"
          PROVE  Request[field].around.kind # "object"
      BY <2>1, <3>3, MixedIsScalar DEF Request
    <3>4. PhaseFacts'
      BY <3>1, <3>2, <3>3 DEF PhaseFacts, CauseHolds, TextIsScalar, In
    <3> QED
      BY <3>1, <3>4, AttemptStep
  <2>2. CASE ~ConfigValid(Request)
    BY <1>5, <2>2, BreakStep DEF SendRequest, In, TransientCauses
  <2> QED
    BY <2>1, <2>2
<1>6. ASSUME FetchRefuses PROVE IInv'
  BY <1>6, BreakStep DEF FetchRefuses, In, TransientCauses
<1>7. ASSUME RequestFails PROVE IInv'
  BY <1>7, BreakStep DEF RequestFails, Retryable, In, TransientCauses
<1>8. ASSUME ReceiveHeaders PROVE IInv'
  <2>1. PICK response \in {"ok", "transientStatus", "permanentStatus"} :
          attempt' = [phase |-> "reading", response |-> response,
                      priorStepResults |-> attempt.priorStepResults]
    BY <1>8 DEF ReceiveHeaders
  <2>2. PhaseFacts'
    BY <1>8, <2>1 DEF ReceiveHeaders, PhaseFacts, CauseHolds, TextIsScalar, In, StoreUnchanged, Step
  <2> QED
    BY <1>8, <2>1, <2>2, AttemptStep DEF ReceiveHeaders, In
<1>9. ASSUME ReadBody PROVE IInv'
  <2>1. ~In("idle") /\ StoreUnchanged
    BY <1>9 DEF ReadBody, In
  <2>2. ASSUME NEW body \in Answers PROVE AiConforms(position, body)
    BY <1>9 DEF ReadBody, AiConforms, Step, IInv, PhaseFacts
  <2>3. CASE Break("unreadable", FALSE)
    BY <2>1, <2>3, BreakStep DEF TransientCauses
  <2>4. CASE \E body \in Answers :
               IF attempt.response = "ok"
                 THEN Finish(body, Object([f \in {"status"} |-> Number(200)]))
                 ELSE Break(attempt.response, Retryable(attempt.response))
    <3>1. attempt.response # "refused"
      BY <1>9 DEF ReadBody, IInv, PhaseFacts
    <3> QED
      BY <2>1, <2>2, <2>4, <3>1, CauseDecides, FinishStep
  <2> QED
    BY <1>9, <2>3, <2>4 DEF ReadBody
<1>10. ASSUME ReceiveAiResponse PROVE IInv'
  <2>1. ~In("idle") /\ StoreUnchanged
    BY <1>10 DEF ReceiveAiResponse, In
  <2>2. ASSUME NEW output \in Answers, OutputValid(Step.schema, output)
        PROVE  AiConforms(position, output)
    BY <2>2 DEF AiConforms, Step, OutputValid
  <2>3. CASE \E output \in Answers :
               IF OutputValid(Step.schema, output)
                 THEN Finish(output, Object([f \in {"provider"} |-> Text("openai")]))
                 ELSE Break("output", FALSE)
    BY <2>1, <2>2, <2>3, BreakStep, FinishStep DEF TransientCauses
  <2>4. CASE \E cause \in {"incomplete", "output"} : Break(cause, FALSE)
    BY <2>1, <2>4, BreakStep DEF TransientCauses
  <2>5. CASE \E cause \in {"transientStatus", "permanentStatus"} :
               Break(cause, Retryable(cause))
    BY <2>1, <2>5, CauseDecides
  <2> QED
    BY <1>10, <2>3, <2>4, <2>5 DEF ReceiveAiResponse
<1> QED
  BY <1>1, <1>2, <1>3, <1>4, <1>5, <1>6, <1>7, <1>8, <1>9, <1>10

LEMMA CompletionInvariant == IInv /\ ReportCompletion => IInv'
<1> SUFFICES ASSUME IInv, ReportCompletion PROVE IInv'
  OBVIOUS
<1> DEFINE stored == [key \in DOMAIN results \cup {Step.key} |->
                        IF key = Step.key THEN attempt.result ELSE results[key]]
<1>1. attempt' = NoAttempt /\ UNCHANGED <<definition, trigger>>
  BY DEF ReportCompletion
<1>2. AttemptHolds' /\ PhaseFacts'
  BY <1>1 DEF AttemptHolds, PhaseFacts, CauseHolds, TextIsScalar, In, NoAttempt
<1>3. definition \in Definitions /\ Accepted(definition) /\ position \in 1..Len(definition)
  BY DEF IInv, RowsHold
<1>4. Len(definition) \in Nat
  BY <1>3, DefinitionFacts
<1>5. CASE status # "running"
  <2>1. UNCHANGED <<status, position, stepStatus, attempts, inputs, results>>
    BY <1>5 DEF ReportCompletion
  <2>2. RowsHold' /\ StoredResults'
    BY <1>1, <2>1 DEF IInv, RowsHold, StoredResults, Step, Keys, EarlierKeys
  <2>3. AiResultsConform'
    BY <1>1, <2>1 DEF IInv, AiResultsConform, AiConforms, In, NoAttempt
  <2> QED
    BY <1>2, <2>2, <2>3 DEF IInv
<1>6. CASE status = "running"
  <2>1. results' = stored /\ DOMAIN results = EarlierKeys
    BY <1>6 DEF ReportCompletion, IInv, StoredResults
  <2>2. DOMAIN results' = {definition[i].key : i \in 1..position}
    BY <1>3, <1>4, <2>1 DEF EarlierKeys, Step
  <2>3. \A i \in 1..position : AiConforms(i, results'[definition[i].key].output)
    <3> SUFFICES ASSUME NEW i \in 1..position
                 PROVE  AiConforms(i, results'[definition[i].key].output)
      OBVIOUS
    <3>1. CASE i = position
      <4>1. results'[definition[i].key] = attempt.result
        BY <2>1, <3>1 DEF Step
      <4> QED
        BY <3>1, <4>1 DEF ReportCompletion, IInv, AiResultsConform
    <3>2. CASE i # position
      <4>1. i \in 1..(position - 1) /\ i \in 1..Len(definition)
        BY <1>3, <1>4, <3>2
      <4>2. definition[i].key # Step.key /\ definition[i].key \in DOMAIN results
        BY <1>3, <2>1, <3>2, <4>1, DefinitionFacts DEF EarlierKeys, Step
      <4>3. results'[definition[i].key] = results[definition[i].key]
        BY <2>1, <4>2
      <4> QED
        BY <4>1, <4>3 DEF IInv, AiResultsConform
    <3> QED
      BY <3>1, <3>2
  <2>4. CASE position = Len(definition)
    <3>1. status' = "succeeded" /\ UNCHANGED <<position, stepStatus, attempts, inputs>>
      BY <1>6, <2>4 DEF ReportCompletion
    <3>2. RowsHold'
      BY <1>1, <3>1 DEF IInv, RowsHold, Step
    <3>3. StoredResults'
      BY <1>1, <2>2, <2>4, <3>1 DEF StoredResults, Keys
    <3>4. AiResultsConform'
      <4>1. \A i \in 1..(position - 1) : i \in 1..position
        BY <1>3, <1>4
      <4> QED
        BY <1>1, <2>3, <3>1, <4>1 DEF AiResultsConform, AiConforms, In, NoAttempt
    <3> QED
      BY <1>2, <3>2, <3>3, <3>4 DEF IInv
  <2>5. CASE position # Len(definition)
    <3>1. /\ position' = position + 1 /\ stepStatus' = "queued" /\ attempts' = 0
          /\ inputs' = Append(inputs, attempt.result.output)
          /\ UNCHANGED status
      BY <1>6, <2>5 DEF ReportCompletion
    <3>2. position' \in 1..Len(definition)
      BY <1>3, <1>4, <2>5, <3>1
    <3>3. Step'.maxAttempts \in Nat \ {0}
      BY <1>1, <1>3, <3>2, DefinitionFacts DEF Step
    <3>4. DOMAIN inputs' = 1..(position + 1)
      BY <3>1 DEF IInv, RowsHold
    <3>5. RowsHold'
      BY <1>1, <1>6, <3>1, <3>2, <3>3, <3>4 DEF IInv, RowsHold
    <3>6. 1..(position' - 1) = 1..position
      BY <1>3, <1>4, <3>1
    <3>7. StoredResults'
      BY <1>1, <1>6, <2>2, <3>1, <3>6 DEF StoredResults, EarlierKeys
    <3>8. AiResultsConform'
      BY <1>1, <2>3, <3>6 DEF AiResultsConform, AiConforms, In, NoAttempt
    <3> QED
      BY <1>2, <3>5, <3>7, <3>8 DEF IInv
  <2> QED
    BY <2>4, <2>5
<1> QED
  BY <1>5, <1>6

LEMMA FailureInvariant == IInv /\ ReportFailure => IInv'
<1> SUFFICES ASSUME IInv, ReportFailure PROVE IInv'
  OBVIOUS
<1>1. attempt' = NoAttempt
      /\ UNCHANGED <<definition, trigger, position, attempts, inputs, results>>
  BY DEF ReportFailure, AttemptsRemain
<1>2. AttemptHolds' /\ PhaseFacts'
  BY <1>1 DEF AttemptHolds, PhaseFacts, CauseHolds, TextIsScalar, In, NoAttempt
<1>3. RowsHold'
  BY <1>1 DEF IInv, RowsHold, ReportFailure, AttemptsRemain, Step
<1>4. StoredResults'
  BY <1>1 DEF IInv, StoredResults, ReportFailure, AttemptsRemain, EarlierKeys, Keys
<1>5. AiResultsConform'
  BY <1>1 DEF IInv, AiResultsConform, AiConforms, In, NoAttempt
<1> QED
  BY <1>2, <1>3, <1>4, <1>5 DEF IInv

LEMMA CancelInvariant == IInv /\ CancelExecution => IInv'
<1> SUFFICES ASSUME IInv, CancelExecution PROVE IInv'
  OBVIOUS
<1>1. RowsHold' /\ StoredResults'
  BY DEF IInv, CancelExecution, RowsHold, StoredResults, Step, Keys, EarlierKeys
<1>2. AttemptHolds' /\ PhaseFacts'
  BY DEF IInv, CancelExecution, AttemptHolds, PhaseFacts, CauseHolds, TextIsScalar, In, Step
<1>3. AiResultsConform'
  BY DEF IInv, CancelExecution, AiResultsConform, AiConforms, In
<1> QED
  BY <1>1, <1>2, <1>3 DEF IInv

LEMMA StepInvariant == IInv /\ [Next]_vars => IInv'
<1> SUFFICES ASSUME IInv, [Next]_vars PROVE IInv'
  OBVIOUS
<1>1. CASE Work
  BY <1>1, ClaimInvariant, LocalInvariant, CompletionInvariant, FailureInvariant DEF Work
<1>2. CASE CancelExecution
  BY <1>2, CancelInvariant
<1>3. CASE UNCHANGED vars
  <2>1. RowsHold' /\ StoredResults'
    BY <1>3 DEF IInv, vars, RowsHold, StoredResults, Step, Keys, EarlierKeys
  <2>2. AttemptHolds' /\ PhaseFacts'
    BY <1>3 DEF IInv, vars, AttemptHolds, PhaseFacts, CauseHolds, TextIsScalar, In, Step
  <2>3. AiResultsConform'
    BY <1>3 DEF IInv, vars, AiResultsConform, AiConforms, In
  <2> QED
    BY <2>1, <2>2, <2>3 DEF IInv
<1> QED
  BY <1>1, <1>2, <1>3 DEF Next

(* The invariant holds in every state.                                     *)
THEOREM ExecutionInvariant == Spec => []IInv
<1> QED
  BY InitInvariant, StepInvariant, PTL DEF Spec

-------------------------------------------------------------------------------
(* The rows of the execution always describe a prefix of the accepted      *)
(* definition that has run and one step within its attempts                *)
(* (claimQueuedExecutionStep, completeClaimedExecutionStep and             *)
(* failOrRetryClaimedExecutionStep around the executors).                  *)
THEOREM StepExecutionTypes == Spec => []StepExecutionTypeOK
<1>1. IInv => StepExecutionTypeOK
  BY DEF IInv, RowsHold, StoredResults, AttemptHolds, StepExecutionTypeOK
<1> QED
  BY <1>1, ExecutionInvariant, PTL

(* Whatever definition passes validateWorkflowDefinitionSemantics, the     *)
(* results that a claim loads contain every step the claimed step's        *)
(* templates refer to.                                                     *)
THEOREM ReferencesNeverFailAtStep == Spec => []EarlierResultsAvailable
<1>1. IInv => EarlierResultsAvailable
  <2> SUFFICES ASSUME IInv, ~In("idle"), NEW field \in DOMAIN Step.templates,
                      IsExpression(Step.templates[field]),
                      Step.templates[field].path[1] = "steps"
               PROVE  Step.templates[field].path[2] \in DOMAIN attempt.priorStepResults
    BY DEF EarlierResultsAvailable
  <2>1. position \in 1..Len(definition) /\ Accepted(definition)
    BY DEF IInv, RowsHold
  <2>2. ReferencesAvailable(Step.templates[field], AvailableStepKeys(definition, position))
    BY <2>1 DEF Accepted, SemanticsValid, Step
  <2>3. Step.templates[field].path[2] \in EarlierKeys
    BY <2>2 DEF ReferencesAvailable, IsExpression, AvailableStepKeys, EarlierKeys
  <2>4. DOMAIN attempt.priorStepResults = EarlierKeys
    BY DEF IInv, AttemptHolds, StoredResults
  <2> QED
    BY <2>3, <2>4
<1> QED
  BY <1>1, ExecutionInvariant, PTL

(* An accepted reference to a property of an AI step's schema finds the    *)
(* property in the result of that step, whatever the provider returned.    *)
THEOREM AiReferencesFindFields == Spec => []AiFieldsResolve
<1>1. IInv => AiFieldsResolve
  <2> SUFFICES ASSUME IInv, ~In("idle"), NEW field \in DOMAIN Step.templates,
                      NEW i \in 1..(position - 1), definition[i].type = "ai",
                      Step.templates[field].path[4] \in definition[i].schema.properties
               PROVE  LET output == attempt.priorStepResults[definition[i].key].output
                      IN  /\ output.kind = "object"
                          /\ Step.templates[field].path[4] \in DOMAIN output.at
    BY DEF AiFieldsResolve
  <2>1. Conforms(definition[i].schema, results[definition[i].key].output)
    BY DEF IInv, AiResultsConform, AiConforms
  <2>2. StrictSchema(definition[i].schema)
    <3>1. i \in 1..Len(definition) /\ Accepted(definition)
      BY DefinitionFacts DEF IInv, RowsHold
    <3> QED
      BY <3>1 DEF Accepted, SemanticsValid
  <2>3. attempt.priorStepResults = results
    BY DEF IInv, AttemptHolds
  <2> QED
    BY <2>1, <2>2, <2>3 DEF Conforms, StrictSchema
<1> QED
  BY <1>1, ExecutionInvariant, PTL

(* No request carries an object flattened into text, because the           *)
(* interpolation refuses it before fetch or the provider is called.        *)
THEOREM RequestsCarryScalars == Spec => []TextIsScalar
<1>1. IInv => TextIsScalar
  BY DEF IInv, PhaseFacts
<1> QED
  BY <1>1, ExecutionInvariant, PTL

(* A step whose number does not change is queued only by a failure.        *)
LEMMA OnlyFailuresQueueAgain ==
  ASSUME IInv, Next, stepStatus = "running", stepStatus' = "queued", position' = position
  PROVE  ReportFailure
<1>1. ~StoreUnchanged /\ ~ClaimStep /\ ~CancelExecution
  BY DEF StoreUnchanged, ClaimStep, CancelExecution
<1>2. ~ReportCompletion
  <2>1. position \in Nat
    BY DefinitionFacts DEF IInv, RowsHold
  <2> QED
    BY <2>1 DEF ReportCompletion
<1> QED
  BY <1>1, <1>2 DEF Next, Work, ResolveStepCredential, ExecuteNoop, StartDelay, EndDelay,
    SendRequest, FetchRefuses, RequestFails, ReceiveHeaders, ReadBody, ReceiveAiResponse

(* An attempt that has failed is forgotten only by the report of it.       *)
LEMMA OnlyReportsForgetFailures ==
  ASSUME Next, In("broken"), attempt' = NoAttempt
  PROVE  ReportFailure
<1>1. ~CancelExecution
  BY DEF CancelExecution, In, NoAttempt
<1>2. ~ResolveStepCredential /\ ~ExecuteNoop /\ ~StartDelay /\ ~EndDelay /\ ~ClaimStep
  BY DEF ResolveStepCredential, ExecuteNoop, StartDelay, EndDelay, ClaimStep, In
<1>3. ~SendRequest /\ ~FetchRefuses /\ ~RequestFails /\ ~ReceiveHeaders /\ ~ReadBody
      /\ ~ReceiveAiResponse /\ ~ReportCompletion
  BY DEF SendRequest, FetchRefuses, RequestFails, ReceiveHeaders, ReadBody,
         ReceiveAiResponse, ReportCompletion, In
<1> QED
  BY <1>1, <1>2, <1>3 DEF Next, Work

(* A failure is followed by a retry exactly if it may pass, or is that of  *)
(* a request that fetch refused to send, and attempts remain.              *)
THEOREM RetriesAreForTransientFailures == Spec => RetriesFollowTransientFailures
<1> DEFINE Retry == stepStatus = "running" /\ stepStatus' = "queued" /\ position' = position
<1> DEFINE Passing ==
      /\ In("broken") /\ attempt' = NoAttempt
      /\ status = "running"
      /\ attempts < Step.maxAttempts
      /\ attempt.cause \in {"timeout", "connection", "transientStatus", "refused"}
<1>1. IInv /\ [Next]_vars => [Retry <=> Passing]_vars
  <2> SUFFICES ASSUME IInv, Next PROVE Retry <=> Passing
    OBVIOUS
  <2>1. CauseHolds /\ (In("broken") => stepStatus = "running")
    BY DEF IInv, PhaseFacts, AttemptHolds, In
  <2>2. ASSUME ReportFailure PROVE Retry <=> Passing
    <3>1. In("broken") /\ attempt' = NoAttempt /\ position' = position
      BY <2>2 DEF ReportFailure
    <3>2. attempt.retryable <=>
            attempt.cause \in {"timeout", "connection", "transientStatus", "refused"}
      BY <2>1, <3>1 DEF CauseHolds, TransientCauses
    <3>3. stepStatus' = "queued" <=>
            status = "running" /\ attempt.retryable /\ AttemptsRemain
      BY <2>1, <2>2, <3>1 DEF ReportFailure
    <3> QED
      BY <2>1, <3>1, <3>2, <3>3 DEF AttemptsRemain
  <2>3. ASSUME ~ReportFailure PROVE ~Retry /\ ~Passing
    BY <2>3, OnlyFailuresQueueAgain, OnlyReportsForgetFailures
  <2> QED
    BY <2>2, <2>3
<1> QED
  BY <1>1, ExecutionInvariant, PTL DEF Spec, RetriesFollowTransientFailures
===============================================================================
