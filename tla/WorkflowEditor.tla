---------------------------- MODULE WorkflowEditor ----------------------------
(***************************************************************************)
(* One browser tab with the workflow editor (workflow-editor-screen.tsx    *)
(* and workflow-inspector.tsx) around the graph of WorkflowGraph, the      *)
(* workflow's versions on the server, and the other sessions of the same   *)
(* user, which save and publish too.                                       *)
(*                                                                         *)
(* A request is an await in a handler of the tab: the server's transaction *)
(* and the answer are steps of their own, and the user goes on editing in  *)
(* between unless the code disables it.  The API answers a save and a      *)
(* publication with what a later read of the workflow finds.  A request    *)
(* may fail before or after its transaction; the tab cannot tell which.    *)
(*                                                                         *)
(* The server's transactions are those of WorkflowRegistry, one step each  *)
(* here: the lock on the workflow's row makes them so.  Both modules       *)
(* implement WorkflowHistory, which says what these steps are.             *)
(***************************************************************************)
EXTENDS WorkflowGraph

CONSTANTS
  ValidConfigs, \* the configurations that the shared contract accepts
  OtherDrafts,  \* definitions that other sessions save
  NoStep,       \* selectedNodeId of nothing or of Start
  MaxVersions   \* bound on the versions of the workflow

ASSUME EditorAssumption ==
  /\ NoStep \notin Keys
  /\ ValidConfigs \subseteq Configs
  /\ \A steps \in OtherDrafts : IsDefinition(steps)
  /\ MaxVersions \in Nat \ {0}

VARIABLES
  versions,         \* the versions on the server: definition and status
  active,           \* activeVersionId on the server, as a position; 0 for null
  page,             \* "loading", "open" or "left"
  baseline,         \* baselineFingerprint
  detail,           \* workflowDetail: the statuses and the active version it knows
  loaded,           \* loadedVersionId, as a position; 0 for null
  selected,         \* selectedNodeId
  bodyError,        \* whether the text in the inspector does not parse
  bodyEditorError,  \* what the screen has been told of it
  request           \* the request that is in flight

server == <<versions, active>>
saved == <<baseline, detail, loaded>>
inspector == <<selected, bodyError, bodyEditorError>>
vars == <<server, page, canvas, saved, inspector, request>>

-------------------------------------------------------------------------------
NoRequest == [step |-> "none"]
NoFingerprint == [fingerprint |-> "none"]
NoDetail == [status |-> <<>>, active |-> 0]

At(step) == request.step = step

(* createFingerprint                                                       *)
Fingerprint(g) ==
  LET steps == CompileWorkflowGraph(g) IN
    IF steps # <<>> THEN [definition |-> steps] ELSE [graph |-> g]

Dirty == baseline # Fingerprint(graph)

(* definitionResult and validateWorkflowDefinitionSemantics                *)
DefinitionAccepted(definition) ==
  definition # <<>> /\ \A i \in DOMAIN definition : definition[i].config \in ValidConfigs

IsValid ==
  /\ ~connectionIssues
  /\ ~bodyEditorError
  /\ DefinitionAccepted(CompileWorkflowGraph(graph))

IsSaving == request.step \in {"saving", "saved"}
IsPublishing == request.step \in {"publishing", "published"}

(* Broken: an unsaved graph may be published.                              *)
CanPublishUnsaved ==
  /\ loaded # 0 /\ detail.status[loaded] = "draft"
  /\ IsValid /\ ~IsSaving /\ ~IsPublishing

CanPublish ==
  /\ loaded # 0 /\ detail.status[loaded] = "draft"
  /\ ~Dirty /\ IsValid /\ ~IsSaving /\ ~IsPublishing

-------------------------------------------------------------------------------
(* The server                                                              *)

Drafts == {i \in DOMAIN versions : versions[i].status = "draft"}

NewVersion(definition) ==
  Append([i \in DOMAIN versions |->
            IF i \in Drafts THEN [versions[i] EXCEPT !.status = "retired"] ELSE versions[i]],
         [definition |-> definition, status |-> "draft"])

LatestDraft == Max(Drafts)

CreateVersion(definition) ==
  /\ Len(versions) < MaxVersions
  /\ versions' = NewVersion(definition)
  /\ UNCHANGED active

PublishLatestDraft ==
  /\ Drafts # {}
  /\ versions' = [i \in DOMAIN versions |->
                    IF i = LatestDraft THEN [versions[i] EXCEPT !.status = "published"]
                    ELSE IF i = active THEN [versions[i] EXCEPT !.status = "retired"]
                    ELSE versions[i]]
  /\ active' = LatestDraft

(* getWorkflow                                                             *)
Detail == [status |-> [i \in DOMAIN versions |-> versions[i].status], active |-> active]

OtherSessions ==
  /\ versions # <<>>
  /\ (\E definition \in OtherDrafts : CreateVersion(definition)) \/ PublishLatestDraft
  /\ UNCHANGED <<page, canvas, saved, inspector, request>>

-------------------------------------------------------------------------------
(* The page                                                                *)

(* Broken: the fields do not clear the error when they unmount.            *)
InspectOnly(id) ==
  /\ selected' = id
  /\ bodyError' = (IF id = selected THEN bodyError ELSE FALSE)
  /\ UNCHANGED bodyEditorError

(* The inspector's fields unmount: their cleanup clears the error.         *)
Inspect(id) ==
  /\ selected' = id
  /\ IF id = selected
       THEN UNCHANGED <<bodyError, bodyEditorError>>
       ELSE bodyError' = FALSE /\ bodyEditorError' = FALSE

Init ==
  /\ versions = <<>> /\ active = 0
  /\ page = "open"
  /\ GraphInit
  /\ baseline = NoFingerprint
  /\ detail = NoDetail /\ loaded = 0
  /\ selected = NoStep /\ bodyError = FALSE /\ bodyEditorError = FALSE
  /\ request = NoRequest

(* Broken: the page keeps the graph and takes it for the saved one.        *)
KeepEdits(known, version, forceNewDraft) ==
  /\ detail' = known
  /\ loaded' = version
  /\ connectionIssues' = FALSE
  /\ baseline' = IF forceNewDraft THEN NoFingerprint ELSE Fingerprint(graph)
  /\ Inspect(NoStep)
  /\ UNCHANGED graph

HydrateVersion(known, version, forceNewDraft) ==
  /\ detail' = known
  /\ Load(versions[version].definition)
  /\ loaded' = version
  /\ baseline' = IF forceNewDraft THEN NoFingerprint ELSE Fingerprint(graph')
  /\ Inspect(NoStep)

(* Another page, after the confirmation that a dirty editor asks for, or   *)
(* without it where the router navigates.  The answer to a request that is *)
(* in flight finds no page; what it does on the server is done as if by    *)
(* another session.                                                        *)
Leave ==
  /\ page # "left"
  /\ versions # <<>>
  /\ page' = "left"
  /\ Load(<<>>)
  /\ baseline' = NoFingerprint /\ detail' = NoDetail /\ loaded' = 0
  /\ Inspect(NoStep)
  /\ request' = NoRequest
  /\ UNCHANGED server

(* With ?baseVersion= a version to start a new draft from.                 *)
OpenEditor ==
  /\ page = "left"
  /\ page' = "loading"
  /\ \E base \in 0..Len(versions) : request' = [step |-> "loading", base |-> base]
  /\ UNCHANGED <<server, canvas, saved, inspector>>

(* The versions come newest first.                                         *)
SelectEditorVersion(base) ==
  IF base # 0 THEN base
  ELSE IF Drafts # {} THEN LatestDraft
  ELSE IF active # 0 THEN active
  ELSE Len(versions)

LoadAnswered ==
  /\ At("loading")
  /\ HydrateVersion(Detail, SelectEditorVersion(request.base), request.base # 0)
  /\ page' = "open"
  /\ request' = NoRequest
  /\ UNCHANGED server

-------------------------------------------------------------------------------
(* Saving, publishing and running                                          *)

SaveDraft ==
  /\ page = "open"
  /\ Dirty /\ IsValid /\ ~IsSaving /\ ~IsPublishing
  /\ request' = [step |-> "saving", definition |-> CompileWorkflowGraph(graph)]
  /\ UNCHANGED <<server, page, canvas, saved, inspector>>

SaveCommits ==
  /\ At("saving")
  /\ CreateVersion(request.definition)
  /\ request' = [step |-> "saved", own |-> Len(versions) + 1]
  /\ UNCHANGED <<page, canvas, saved, inspector>>

(* Broken: the version that is active.                                     *)
ActiveVersion == IF active = 0 THEN Len(versions) ELSE active

(* detail.versions[0]                                                      *)
SavedVersion == Len(versions)

SaveAnswered ==
  /\ At("saved")
  /\ HydrateVersion(Detail, SavedVersion, FALSE)
  /\ request' = NoRequest
  /\ UNCHANGED <<server, page>>

PublishDraft ==
  /\ page = "open"
  /\ CanPublish
  /\ request' = [step |-> "publishing", graph |-> graph, known |-> Len(detail.status)]
  /\ UNCHANGED <<server, page, canvas, saved, inspector>>

PublishCommits ==
  /\ At("publishing")
  /\ PublishLatestDraft
  /\ request' = [step |-> "published", graph |-> request.graph]
  /\ UNCHANGED <<page, canvas, saved, inspector>>

PublishAnswered ==
  /\ At("published")
  /\ detail' = Detail
  /\ baseline' = Fingerprint(request.graph)
  /\ request' = NoRequest
  /\ UNCHANGED <<server, page, canvas, loaded, inspector>>

(* The server refuses, or the connection is lost before or after it has    *)
(* done what was asked.                                                    *)
RequestFails ==
  /\ IsSaving \/ IsPublishing
  /\ request' = NoRequest
  /\ UNCHANGED <<server, page, canvas, saved, inspector>>

-------------------------------------------------------------------------------
(* Editing.  Nothing is disabled while a request is in flight.             *)

Editing == page = "open" /\ UNCHANGED <<server, page, saved, request>>

EditOnCanvas ==
  /\ Editing
  /\ \/ \E id \in Keys, config \in Configs : AddStep(id, config) /\ Inspect(id)
     \/ \E id \in Keys, config \in Configs : DragNode(id, config) /\ UNCHANGED inspector
     \/ \E source \in Nodes(graph) \cup {Start}, target \in Nodes(graph) :
          Connect(source, target) /\ UNCHANGED inspector
     \/ \E ids \in SUBSET Nodes(graph), others \in SUBSET graph.edges :
          /\ DeleteSelection(ids, others)
          /\ IF ids # {} THEN Inspect(NoStep) ELSE UNCHANGED inspector

SelectNode ==
  /\ Editing
  /\ \E id \in (Nodes(graph) \cup {NoStep}) \ {selected} : Inspect(id)
  /\ UNCHANGED canvas

DeleteInspectedNode ==
  /\ Editing
  /\ DeleteNode(selected)
  /\ Inspect(NoStep)

(* Another field than the text, or a text that parses.                     *)
EditField ==
  /\ Editing
  /\ \E config \in Configs : EditStep(selected, config)
  /\ \/ bodyError' = FALSE /\ bodyEditorError' = FALSE
     \/ bodyError /\ UNCHANGED <<bodyError, bodyEditorError>>
  /\ UNCHANGED selected

(* The step keeps the last text that parsed.                               *)
TypeInvalidText ==
  /\ Editing
  /\ selected # NoStep /\ selected \in Nodes(graph)
  /\ bodyError' = TRUE /\ bodyEditorError' = TRUE
  /\ UNCHANGED <<canvas, selected>>

Next ==
  \/ OtherSessions
  \/ Leave \/ OpenEditor \/ LoadAnswered
  \/ SaveDraft \/ SaveCommits \/ SaveAnswered
  \/ PublishDraft \/ PublishCommits \/ PublishAnswered
  \/ RequestFails
  \/ EditOnCanvas \/ SelectNode \/ DeleteInspectedNode \/ EditField \/ TypeInvalidText

EditorSpec == Init /\ [][Next]_vars

-------------------------------------------------------------------------------
(* What WorkflowRegistry promises of a workflow is all that this module    *)
(* takes for granted of the server: only definitions are saved, of this    *)
(* page and of other sessions, and a publication activates the last.       *)
History == INSTANCE WorkflowHistory WITH
  Definitions <- {steps \in Seq([id : Keys, config : Configs]) : IsDefinition(steps)},
  saved <- [i \in DOMAIN versions |-> versions[i].definition],
  active <- active,
  drafted <- Drafts # {}

ImplementsHistory == History!Spec

-------------------------------------------------------------------------------
(* Properties                                                              *)

(* While the page says "Saved", the graph it shows is that of the version  *)
(* it names, although edits go on during a save or a publication and their *)
(* answers come late.                                                      *)
SavedIsLoadedVersion ==
  page = "open" /\ ~Dirty =>
    /\ loaded # 0
    /\ Fingerprint(graph) = Fingerprint(DefinitionToWorkflowGraph(versions[loaded].definition))

(* A text in the inspector that does not parse blocks saving and           *)
(* publishing for exactly as long as it is shown: no definition is saved   *)
(* with the older text behind the user's back, and none is blocked by a    *)
(* text that is gone.                                                      *)
ShownTextIsAccountedFor == bodyEditorError = bodyError /\ (bodyError => selected \in Nodes(graph))

(* A publication activates the graph that was shown when it was asked for; *)
(* it can only be another one if the server has a version the page does    *)
(* not know, of another session or of a save whose answer was lost.        *)
PublishesWhatIsShown ==
  [][PublishCommits =>
       \/ Len(versions) > request.known
       \/ versions[active'].definition = CompileWorkflowGraph(request.graph)]_vars

(* The page that a save leaves shows the definition that was saved, unless *)
(* another session has saved before the answer was read: then it shows     *)
(* that session's graph.                                                   *)
SaveShowsItsVersion ==
  [][SaveAnswered => loaded' = request.own \/ Len(versions) > request.own]_vars
===============================================================================
