--------------------------- MODULE MCStepExecution ---------------------------
(* Definitions of two and three steps over all shapes of templates, with   *)
(* triggers and answers of every kind.                                     *)
EXTENDS StepExecution, TLC

Plain(value) == [shape |-> "plain", value |-> value]
Whole(path) == [shape |-> "whole", path |-> path]
Mixed(path) == [shape |-> "mixed", path |-> path]

SomeText == Plain(Text("text"))

Expressions ==
  UNION {{Whole(path), Mixed(path)} : path \in
    {<<"trigger">>, <<"trigger", "f">>, <<"environment">>, <<"steps", "a">>,
     <<"steps", "a", "output">>, <<"steps", "a", "output", "f">>,
     <<"steps", "a", "metadata", "status">>, <<"steps", "b", "output">>}}

Templates == Expressions \cup {SomeText, Plain(EmptyText), [shape |-> "malformed"]}

SchemaOf(required) ==
  [root |-> "object", closed |-> TRUE, properties |-> {"f"}, required |-> required]

Noop(key, type) ==
  [key |-> key, type |-> type, templates |-> [f \in {} |-> SomeText],
   credential |-> "none", maxAttempts |-> 1]

Http(key, method, templates, credential) ==
  [key |-> key, type |-> "http", method |-> method, templates |-> templates,
   credential |-> credential, maxAttempts |-> 2]

Ai(key, user, required) ==
  [key |-> key, type |-> "ai", templates |-> "systemPrompt" :> SomeText @@ "userPrompt" :> user,
   schema |-> SchemaOf(required), credential |-> "bearer_token", maxAttempts |-> 2]

SomeUrl == "url" :> SomeText

FirstSteps ==
  {Noop("a", "noop"), Http("a", "GET", SomeUrl, "api_key"),
   Ai("a", SomeText, {"f"}), Ai("a", SomeText, {})}

SecondSteps ==
  {Noop("b", "delay")}
  \cup {Http("b", "POST", SomeUrl @@ "body" :> t, "none") : t \in Templates}
  \cup {Http("b", "GET", "url" :> t, "none") : t \in Templates}
  \cup {Http("b", "GET", SomeUrl @@ "headers" :> t, "none") : t \in Templates}
  \cup {Ai("b", t, {"f"}) : t \in Templates}

ThirdStep == Http("c", "GET", SomeUrl @@ "body" :> Mixed(<<"steps", "b", "output", "f">>), "none")

MCSteps == FirstSteps \cup SecondSteps \cup {ThirdStep, Noop("a", "delay"), Noop("b", "noop")}

MCDefinitions ==
  {<<first, second>> : first \in FirstSteps \cup {Noop("b", "noop")}, second \in SecondSteps}
  \cup {<<Noop("a", "delay"), Ai("b", Mixed(<<"trigger">>), {"f"}), ThirdStep>>}

Record(at) == Object([f \in {"f"} |-> at])

MCTriggers == {Null, Text("text"), Record(Number(1)), Record(Null)}

MCAnswers == {Null, Record(Number(1)), Record(Record(Null)), Object([f \in {} |-> Null])}

===============================================================================
