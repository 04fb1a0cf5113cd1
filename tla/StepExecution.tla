---------------------------- MODULE StepExecution ----------------------------
(***************************************************************************)
(* The steps of one execution from the data's side: the accepted           *)
(* definition with its templates, the prior results a claim loads, the     *)
(* executors of apps/worker and what they make of a service's answer, and  *)
(* the result that later steps refer to.                                   *)
(*                                                                         *)
(* One worker executes one attempt at a time here; rows, outbox and        *)
(* competing workers are those of ExecutionStore and WorkerRuntime.        *)
(*                                                                         *)
(* A JSON value is known by its kind; an array is an object whose fields   *)
(* are its indexes, a Boolean counts as a number.  A string of a step's    *)
(* configuration is known by what parseTemplate makes of it: plain text,   *)
(* one expression that is the whole value, text mixed with an expression,  *)
(* or malformed.                                                           *)
(***************************************************************************)
EXTENDS Integers, Sequences

CONSTANTS
  Steps,       \* step definitions that users write
  Definitions, \* sequences of them that users submit
  Triggers,    \* inputs an execution may be triggered with
  Answers      \* JSON values that services return

ASSUME StepsAssumption == \A s \in Steps : s.maxAttempts \in Nat \ {0}
ASSUME DefinitionsAssumption == Definitions \subseteq Seq(Steps)

VARIABLES
  definition, \* the steps of the version that the execution runs
  trigger,    \* executions.inputJson
  status,     \* executions.status
  position,   \* the current step
  stepStatus, \* the status of its row: "queued" or "running"
  attempts,   \* its attemptCount
  inputs,     \* step -> stepRuns.inputJson
  results,    \* key of a succeeded step -> its stepRuns.outputJson
  attempt     \* what the worker that claimed the step has in memory

vars == <<definition, trigger, status, position, stepStatus, attempts, inputs,
          results, attempt>>

-------------------------------------------------------------------------------
(* JSON values                                                             *)

Null == [kind |-> "null"]
Missing == [kind |-> "missing"]
Text(chars) == [kind |-> "text", chars |-> chars]
TextAround(value) == [kind |-> "text", around |-> value]
Number(n) == [kind |-> "number", number |-> n]
Object(at) == [kind |-> "object", at |-> at]

EmptyText == Text("")

(* hasOwnProperty, which is false for anything but an object.              *)
Field(value, segment) ==
  IF value.kind = "object" /\ segment \in DOMAIN value.at
    THEN value.at[segment]
    ELSE Missing

(* resolveExpressionPath, from the context down.                           *)
ResolvePath(context, path) ==
  LET current[i \in 0..Len(path)] ==
        IF i = 0 THEN context ELSE Field(current[i - 1], path[i])
  IN current[Len(path)]

-------------------------------------------------------------------------------
(* Templates                                                               *)

IsExpression(template) == template.shape \in {"whole", "mixed"}

(* validateWorkflowTemplateReferences                                      *)
ReferencesAvailable(template, keys) ==
  \/ template.shape = "plain"
  \/ /\ IsExpression(template)
     /\ \/ template.path[1] = "trigger"
        \/ /\ template.path[1] = "steps"
           /\ Len(template.path) >= 3
           /\ template.path[2] \in keys
           /\ template.path[3] \in {"output", "metadata"}

(* Inside text only a scalar has a form; null becomes the text "null".     *)
Interpolate(value) ==
  IF value.kind \in {"object", "missing"} THEN Missing ELSE TextAround(value)

(* resolveWorkflowTemplate: a whole-value expression keeps its JSON type.  *)
(* Missing stands for every WorkflowExpressionError.                       *)
ResolveWorkflowTemplate(template, context) ==
  CASE template.shape = "plain" -> template.value
    [] template.shape = "whole" -> ResolvePath(context, template.path)
    [] template.shape = "mixed" -> Interpolate(ResolvePath(context, template.path))
    [] OTHER -> Missing

(* The context that processing a job builds from the claim.                *)
ExpressionContext(priorStepResults) ==
  Object([root \in {"trigger", "steps"} |->
    IF root = "trigger" THEN trigger
    ELSE Object([key \in DOMAIN priorStepResults |->
           Object([part \in {"output", "metadata"} |->
             priorStepResults[key][part]])])])

-------------------------------------------------------------------------------
(* Definitions                                                             *)

(* validateStructuredOutputSchema: the root is an object, closed, and all  *)
(* of its properties are required.                                         *)
StrictSchema(schema) ==
  /\ schema.root = "object"
  /\ schema.closed
  /\ schema.properties \subseteq schema.required

(* validateStructuredOutput                                                *)
Conforms(schema, value) ==
  /\ value.kind = "object"
  /\ schema.required \subseteq DOMAIN value.at
  /\ schema.closed => DOMAIN value.at \subseteq schema.properties

(* Broken: a step may refer to itself.                                     *)
KeysUpTo(d, i) == {d[j].key : j \in 1..i}

(* availableStepKeys, to which a step's key is added after its check.      *)
AvailableStepKeys(d, i) == {d[j].key : j \in 1..(i - 1)}

(* workflowDefinitionSchema                                                *)
UniqueKeys(d) ==
  /\ Len(d) >= 1
  /\ \A i, j \in 1..Len(d) : i # j => d[i].key # d[j].key

(* validateWorkflowDefinitionSemantics                                     *)
SemanticsValid(d) ==
  \A i \in 1..Len(d) :
    /\ \A field \in DOMAIN d[i].templates :
         ReferencesAvailable(d[i].templates[field], AvailableStepKeys(d, i))
    /\ d[i].type = "ai" => StrictSchema(d[i].schema)

Accepted(d) == UniqueKeys(d) /\ SemanticsValid(d)

-------------------------------------------------------------------------------
(* The attempt                                                             *)

NoAttempt == [phase |-> "idle"]

Step == definition[position]

In(phase) == attempt.phase = phase

Goto(phase) == attempt' = [attempt EXCEPT !.phase = phase]

(* createResult, waiting to be reported.                                   *)
Finish(output, metadata) ==
  attempt' = [phase |-> "finished", priorStepResults |-> attempt.priorStepResults,
              result |-> [output |-> output, metadata |-> metadata]]

(* An error, waiting to be reported.  The cause is the event behind it,    *)
(* which only the properties read; retryable is what the executors say.    *)
Break(cause, retryable) ==
  attempt' = [phase |-> "broken", priorStepResults |-> attempt.priorStepResults,
              cause |-> cause, retryable |-> retryable]

StoreUnchanged ==
  UNCHANGED <<definition, trigger, status, position, stepStatus, attempts, inputs, results>>

(* triggerExecutionForWorkflow gives the first step no input of its own.   *)
Init ==
  /\ definition \in {d \in Definitions : Accepted(d)}
  /\ trigger \in Triggers
  /\ status = "queued"
  /\ position = 1
  /\ stepStatus = "queued"
  /\ attempts = 0
  /\ inputs = <<Null>>
  /\ results = [key \in {} |-> Null]
  /\ attempt = NoAttempt

(* claimQueuedExecutionStep, with the results it loads, and the input that *)
(* the worker passes on: `claim.stepRun.inputJson ?? execution.inputJson`. *)
ClaimStep ==
  /\ In("idle")
  /\ status \in {"queued", "running"}
  /\ stepStatus = "queued"
  /\ status' = "running"
  /\ stepStatus' = "running"
  /\ attempts' = attempts + 1
  /\ attempt' = [phase |-> "claimed", priorStepResults |-> results,
                 stepInput |-> IF inputs[position] = Null THEN trigger ELSE inputs[position]]
  /\ UNCHANGED <<definition, trigger, position, inputs, results>>

(* The credential may have been archived since the version was published.  *)
ResolveStepCredential ==
  /\ In("claimed")
  /\ \/ Goto("ready")
     \/ Step.credential # "none" /\ Break("credential", FALSE)
  /\ StoreUnchanged

ExecuteNoop ==
  /\ In("ready") /\ Step.type = "noop"
  /\ Finish(attempt.stepInput, Object([f \in {} |-> Null]))
  /\ StoreUnchanged

StartDelay ==
  /\ In("ready") /\ Step.type = "delay"
  /\ Goto("sleeping")
  /\ StoreUnchanged

EndDelay ==
  /\ In("sleeping")
  /\ Finish(attempt.stepInput, Object([f \in {"delayedForMs"} |-> Number(0)]))
  /\ StoreUnchanged

Resolved(field) ==
  ResolveWorkflowTemplate(Step.templates[field],
                          ExpressionContext(attempt.priorStepResults))

Request == [field \in DOMAIN Step.templates |-> Resolved(field)]

(* getHttpConfig and resolveHttpHeaders; every header is "headers".        *)
HttpConfigValid(request) ==
  /\ \A field \in DOMAIN request : request[field] # Missing
  /\ request["url"].kind = "text" /\ request["url"] # EmptyText
  /\ "headers" \in DOMAIN request => request["headers"].kind \in {"text", "number"}

(* getAiConfig and the checks that follow it.                              *)
AiConfigValid(request) ==
  /\ \A field \in DOMAIN request : request[field].kind = "text"
  /\ request["userPrompt"] # EmptyText
  /\ Step.credential = "bearer_token"
  /\ StrictSchema(Step.schema)

ConfigValid(request) ==
  \/ Step.type = "http" /\ HttpConfigValid(request)
  \/ Step.type = "ai" /\ AiConfigValid(request)

(* The request leaves with its timeout armed.                              *)
SendRequest ==
  /\ In("ready") /\ Step.type \in {"http", "ai"}
  /\ IF ConfigValid(Request)
       THEN attempt' = [phase |-> "waiting", request |-> Request,
                        priorStepResults |-> attempt.priorStepResults]
       ELSE Break("configuration", FALSE)
  /\ StoreUnchanged

-------------------------------------------------------------------------------
(* What becomes of a request                                               *)

(* fetch refuses a GET with a body before it connects, and executeHttpStep *)
(* takes any error of fetch for a failed connection.                       *)
Refused == Step.type = "http" /\ Step.method = "GET" /\ "body" \in DOMAIN attempt.request

TransientCauses == {"timeout", "connection", "transientStatus"}

(* Broken: a response that is not ok is always worth another attempt.      *)
AnyStatus(cause) == cause \in TransientCauses \cup {"permanentStatus"}

(* isTransientHttpStatus (408, 409, 429, 5xx) and toOpenAIExecutionError   *)
Retryable(cause) == cause \in TransientCauses

FetchRefuses ==
  /\ In("waiting") /\ Refused
  /\ Break("refused", TRUE)
  /\ StoreUnchanged

RequestFails ==
  /\ In("waiting") /\ ~Refused
  /\ \E cause \in {"timeout", "connection"} : Break(cause, Retryable(cause))
  /\ StoreUnchanged

(* Headers arrive and the timeout is cleared; the body is still to come.   *)
ReceiveHeaders ==
  /\ In("waiting") /\ ~Refused /\ Step.type = "http"
  /\ \E response \in {"ok", "transientStatus", "permanentStatus"} :
       attempt' = [phase |-> "reading", response |-> response,
                   priorStepResults |-> attempt.priorStepResults]
  /\ StoreUnchanged

(* readResponseBody comes before the check of response.ok: a body that     *)
(* does not parse is an error of its own, whatever the status was.         *)
ReadBody ==
  /\ In("reading")
  /\ \/ \E body \in Answers :
          IF attempt.response = "ok"
            THEN Finish(body, Object([f \in {"status"} |-> Number(200)]))
            ELSE Break(attempt.response, Retryable(attempt.response))
     \/ Break("unreadable", FALSE)
  /\ StoreUnchanged

(* Broken: the provider is trusted to have kept to the schema.             *)
TrustOutput(schema, output) == TRUE

OutputValid(schema, output) == Conforms(schema, output)

ReceiveAiResponse ==
  /\ In("waiting") /\ Step.type = "ai"
  /\ \/ \E output \in Answers :
          IF OutputValid(Step.schema, output)
            THEN Finish(output, Object([f \in {"provider"} |-> Text("openai")]))
            ELSE Break("output", FALSE)
     \/ \E cause \in {"incomplete", "output"} : Break(cause, FALSE)
     \/ \E cause \in {"transientStatus", "permanentStatus"} :
          Break(cause, Retryable(cause))
  /\ StoreUnchanged

-------------------------------------------------------------------------------
(* Reports                                                                 *)

(* completeClaimedExecutionStep; a report on a cancelled execution changes *)
(* nothing.                                                                *)
ReportCompletion ==
  /\ In("finished")
  /\ attempt' = NoAttempt
  /\ IF status # "running"
       THEN UNCHANGED <<status, position, stepStatus, attempts, inputs, results>>
       ELSE /\ results' = [key \in DOMAIN results \cup {Step.key} |->
                             IF key = Step.key THEN attempt.result ELSE results[key]]
            /\ IF position = Len(definition)
                 THEN /\ status' = "succeeded"
                      /\ UNCHANGED <<position, stepStatus, attempts, inputs>>
                 ELSE /\ position' = position + 1
                      /\ stepStatus' = "queued"
                      /\ attempts' = 0
                      /\ inputs' = Append(inputs, attempt.result.output)
                      /\ UNCHANGED status
  /\ UNCHANGED <<definition, trigger>>

AttemptsRemain == attempts < Step.maxAttempts

(* Broken: a step that is to be retried is left for someone else to queue. *)
RetryUnqueued ==
  /\ In("broken")
  /\ attempt' = NoAttempt
  /\ IF status # "running" \/ (attempt.retryable /\ AttemptsRemain)
       THEN UNCHANGED <<status, stepStatus>>
       ELSE status' = "failed" /\ UNCHANGED stepStatus
  /\ UNCHANGED <<definition, trigger, position, attempts, inputs, results>>

(* failOrRetryClaimedExecutionStep                                         *)
ReportFailure ==
  /\ In("broken")
  /\ attempt' = NoAttempt
  /\ IF status # "running"
       THEN UNCHANGED <<status, stepStatus>>
       ELSE IF attempt.retryable /\ AttemptsRemain
         THEN stepStatus' = "queued" /\ UNCHANGED status
         ELSE status' = "failed" /\ UNCHANGED stepStatus
  /\ UNCHANGED <<definition, trigger, position, attempts, inputs, results>>

CancelExecution ==
  /\ status \in {"queued", "running"}
  /\ status' = "cancelled"
  /\ UNCHANGED <<definition, trigger, position, stepStatus, attempts, inputs, results, attempt>>

Work ==
  \/ ClaimStep
  \/ ResolveStepCredential
  \/ ExecuteNoop \/ StartDelay \/ EndDelay
  \/ SendRequest
  \/ FetchRefuses \/ RequestFails
  \/ ReceiveHeaders \/ ReadBody
  \/ ReceiveAiResponse
  \/ ReportCompletion \/ ReportFailure

Next == Work \/ CancelExecution

(* The worker goes on, an unanswered request times out, and a body that    *)
(* has begun ends: undici gives up on one that pauses for 300 seconds.     *)
Spec == Init /\ [][Next]_vars

FairSpec == Spec /\ WF_vars(Work)
-------------------------------------------------------------------------------
(* Properties                                                              *)

Keys == {definition[i].key : i \in 1..Len(definition)}

EarlierKeys == {definition[i].key : i \in 1..(position - 1)}

(* The rows describe one execution of the accepted definition: the current *)
(* step is one of its steps, within its attempts, the steps before it are  *)
(* those with a result, and a worker that is busy has claimed it.          *)
StepExecutionTypeOK ==
  /\ definition \in Definitions /\ Accepted(definition)
  /\ status \in {"queued", "running", "succeeded", "failed", "cancelled"}
  /\ stepStatus \in {"queued", "running"}
  /\ position \in 1..Len(definition)
  /\ attempts \in 0..Step.maxAttempts
  /\ DOMAIN inputs = 1..position
  /\ DOMAIN results = IF status = "succeeded" THEN Keys ELSE EarlierKeys
  /\ ~In("idle") => /\ stepStatus = "running" /\ attempts > 0
                    /\ status \in {"running", "cancelled"}

(* "A step can reference only the trigger and earlier successful steps"    *)
(* (docs/architecture/workflow-data-and-ai.md): the definitions that pass  *)
(* the semantic validation never fail at a step's key, so the results a    *)
(* claim loads cover every reference of the claimed step.                  *)
EarlierResultsAvailable ==
  ~In("idle") =>
    \A field \in DOMAIN Step.templates :
      LET template == Step.templates[field] IN
        IsExpression(template) /\ template.path[1] = "steps" =>
          template.path[2] \in DOMAIN attempt.priorStepResults

(* A reference to a property of an AI step's schema finds it: the schema   *)
(* that was accepted requires it, and an output without it never became a  *)
(* result.                                                                 *)
AiFieldsResolve ==
  ~In("idle") =>
    \A field \in DOMAIN Step.templates : \A i \in 1..(position - 1) :
      LET template == Step.templates[field]
          output == attempt.priorStepResults[definition[i].key].output IN
        (/\ definition[i].type = "ai"
         /\ IsExpression(template)
         /\ Len(template.path) = 4
         /\ template.path[2] = definition[i].key
         /\ template.path[4] \in definition[i].schema.properties)
        => output.kind = "object" /\ template.path[4] \in DOMAIN output.at

(* "Interpolation inside a larger string accepts scalar values only"       *)
(* (workflow-data-and-ai.md): no request that leaves carries an object     *)
(* that was flattened into text, wherever the object came from.            *)
TextIsScalar ==
  In("waiting") =>
    \A field \in DOMAIN attempt.request :
      LET template == Step.templates[field]
          value == attempt.request[field] IN
        template.shape = "mixed" => value.around.kind # "object"

(* A step is queued again exactly when a failure that may pass is reported *)
(* of a running execution with attempts left: a timeout, a connection, a   *)
(* transient status whose body could be read.  A request that fetch        *)
(* refuses to send is retried too, although it cannot succeed; a transient *)
(* status with a body that does not parse is not.                          *)
RetriesFollowTransientFailures ==
  [][(stepStatus = "running" /\ stepStatus' = "queued" /\ position' = position)
     <=> (/\ In("broken") /\ attempt' = NoAttempt
          /\ status = "running"
          /\ attempts < Step.maxAttempts
          /\ attempt.cause \in {"timeout", "connection", "transientStatus", "refused"})]_vars

(* Every execution ends, whatever the services answer.                     *)
EveryExecutionEnds == <>(status \in {"succeeded", "failed", "cancelled"})

(* "output is business data and becomes the next step's input"             *)
(* (workflow-data-and-ai.md).                                              *)
StepInputIsPreviousOutput ==
  In("claimed") /\ position > 1 =>
    attempt.stepInput = results[definition[position - 1].key].output
===============================================================================
