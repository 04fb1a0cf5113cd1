------------------------- MODULE WorkflowEditorProofs -------------------------
(***************************************************************************)
(* Proofs that the editor knows what it has saved and what is written in   *)
(* its inspector, that it publishes what it shows, and that what it takes  *)
(* for the server keeps the history of a workflow, for every set of steps, *)
(* configurations and versions, whatever is edited while a request is in   *)
(* flight and whatever other sessions do.                                  *)
(***************************************************************************)
EXTENDS WorkflowEditor, WorkflowGraphProofs

VersionStatuses == {"draft", "published", "retired"}

(* The definitions of the versions are left as they are.                   *)
VersionsHold ==
  /\ \E definitions : versions \in Seq([definition : definitions, status : VersionStatuses])
  /\ \A i, j \in Drafts : i = j
  /\ active \in 0..Len(versions)

SavedFingerprint(version) ==
  Fingerprint(DefinitionToWorkflowGraph(versions[version].definition))

(* What the page takes for saved is the version it has loaded.             *)
BaselineHolds ==
  /\ loaded \in 0..Len(versions)
  /\ baseline # NoFingerprint => loaded # 0 /\ baseline = SavedFingerprint(loaded)

RequestHolds ==
  /\ IsPublishing => loaded # 0 /\ Fingerprint(request.graph) = SavedFingerprint(loaded)
  /\ At("saved") => request.own \in 1..Len(versions)
  /\ At("loading") => Len(versions) > 0 /\ request.base \in 0..Len(versions)
  /\ page = "left" => Len(versions) > 0

InspectorHolds ==
  /\ ShownTextIsAccountedFor
  /\ bodyError \in BOOLEAN
  /\ bodyError => selected # NoStep

IInv == VersionsHold /\ BaselineHolds /\ RequestHolds /\ InspectorHolds

-------------------------------------------------------------------------------
(* No fingerprint is the one that stands for none.                         *)
LEMMA FingerprintsAreSome == \A g : Fingerprint(g) # NoFingerprint
<1> SUFFICES ASSUME NEW g PROVE Fingerprint(g) # NoFingerprint
  OBVIOUS
<1>1. \A d : [definition |-> d] # NoFingerprint
  <2> SUFFICES ASSUME NEW d PROVE [definition |-> d] # NoFingerprint
    OBVIOUS
  <2>1. "definition" \in DOMAIN [definition |-> d] /\ "definition" \notin DOMAIN NoFingerprint
    BY DEF NoFingerprint
  <2> QED
    BY <2>1
<1>2. \A h : [graph |-> h] # NoFingerprint
  <2> SUFFICES ASSUME NEW h PROVE [graph |-> h] # NoFingerprint
    OBVIOUS
  <2>1. "graph" \in DOMAIN [graph |-> h] /\ "graph" \notin DOMAIN NoFingerprint
    BY DEF NoFingerprint
  <2> QED
    BY <2>1
<1> QED
  BY <1>1, <1>2 DEF Fingerprint

LEMMA StatusReplaced ==
  ASSUME NEW v, v = [definition |-> v.definition, status |-> v.status], NEW status
  PROVE  [v EXCEPT !.status = status] = [definition |-> v.definition, status |-> status]
OBVIOUS

(* The versions, whatever their definitions.                               *)
LEMMA VersionsAre ==
  ASSUME VersionsHold
  PROVE  /\ Len(versions) \in Nat /\ DOMAIN versions = 1..Len(versions)
         /\ \A i \in 1..Len(versions) :
              /\ versions[i] = [definition |-> versions[i].definition, status |-> versions[i].status]
              /\ versions[i].status \in VersionStatuses
         /\ \E definitions :
              \A i \in 1..Len(versions) : versions[i].definition \in definitions
<1>1. PICK definitions : versions \in Seq([definition : definitions, status : VersionStatuses])
  BY DEF VersionsHold
<1>2. Len(versions) \in Nat /\ DOMAIN versions = 1..Len(versions)
  BY <1>1
<1>3. \A i \in 1..Len(versions) :
        versions[i] = [definition |-> versions[i].definition, status |-> versions[i].status]
        /\ versions[i].definition \in definitions /\ versions[i].status \in VersionStatuses
  <2>1. PICK V : V = [definition : definitions, status : VersionStatuses]
    OBVIOUS
  <2>2. versions \in Seq(V)
    BY <1>1, <2>1
  <2>3. \A i \in 1..Len(versions) : versions[i] \in V
    BY <2>2
  <2> QED
    BY <2>1, <2>3
<1> QED
  BY <1>2, <1>3

(* A new version is the only draft.                                        *)
LEMMA VersionCreated ==
  ASSUME VersionsHold, NEW d, CreateVersion(d)
  PROVE  /\ VersionsHold' /\ Len(versions') = Len(versions) + 1
         /\ \A i \in 1..Len(versions) : versions'[i].definition = versions[i].definition
         /\ versions'[Len(versions) + 1].definition = d
         /\ Drafts' = {Len(versions) + 1}
<1>1. PICK definitions :
        \A i \in 1..Len(versions) : versions[i].definition \in definitions
  BY VersionsAre
<1>2. Len(versions) \in Nat /\ DOMAIN versions = 1..Len(versions)
  BY VersionsAre
<1>0. \A i \in 1..Len(versions) :
         /\ versions[i] = [definition |-> versions[i].definition, status |-> versions[i].status]
         /\ versions[i].definition \in definitions /\ versions[i].status \in VersionStatuses
  BY <1>1, VersionsAre
<1> DEFINE V == [definition : definitions \cup {d}, status : VersionStatuses]
           old == [i \in DOMAIN versions |->
             IF i \in Drafts THEN [versions[i] EXCEPT !.status = "retired"] ELSE versions[i]]
           new == [definition |-> d, status |-> "draft"]
<1>3. versions' = Append(old, new) /\ active' = active
  BY DEF CreateVersion, NewVersion
<1>4. \A i \in 1..Len(versions) :
        /\ old[i] \in V /\ old[i].definition = versions[i].definition
        /\ old[i].status # "draft"
  <2> SUFFICES ASSUME NEW i \in 1..Len(versions)
               PROVE  /\ old[i] \in V /\ old[i].definition = versions[i].definition
                      /\ old[i].status # "draft"
    OBVIOUS
  <2>1. old[i] = IF versions[i].status = "draft"
                   THEN [versions[i] EXCEPT !.status = "retired"] ELSE versions[i]
    BY <1>2 DEF Drafts
  <2>2. [versions[i] EXCEPT !.status = "retired"]
          = [definition |-> versions[i].definition, status |-> "retired"]
    BY <1>0, StatusReplaced, Zenon
  <2>3. PICK v : v = old[i]
    OBVIOUS
  <2>4. \E status \in VersionStatuses \ {"draft"} :
          v = [definition |-> versions[i].definition, status |-> status]
    <3>1. CASE versions[i].status = "draft"
      BY <2>1, <2>2, <2>3, <3>1 DEF VersionStatuses
    <3>2. CASE versions[i].status # "draft"
      BY <1>0, <2>1, <2>3, <3>2 DEF VersionStatuses
    <3> QED
      BY <3>1, <3>2
  <2>5. v.definition = versions[i].definition /\ v.status \in VersionStatuses \ {"draft"}
        /\ v = [definition |-> v.definition, status |-> v.status]
    BY <2>4
  <2>6. v \in V
    BY <1>0, <2>5
  <2> HIDE DEF old, V
  <2> QED
    BY <2>3, <2>5, <2>6
<1>5. old \in [1..Len(versions) -> V]
  BY <1>2, <1>4
<1>6. old \in Seq(V) /\ Len(old) = Len(versions)
  BY <1>2, <1>5
<1>7. new \in V /\ new.status = "draft" /\ new.definition = d
  BY DEF VersionStatuses
<1>8. \A i \in 1..Len(versions) : old[i] \in V /\ old[i].definition = versions[i].definition
                                  /\ old[i].status # "draft"
  BY <1>4
<1> HIDE DEF old, new, V
<1>9. /\ versions' \in Seq(V) /\ Len(versions') = Len(versions) + 1
      /\ \A i \in 1..Len(versions) : versions'[i] = old[i]
      /\ versions'[Len(versions) + 1] = new
  BY <1>2, <1>3, <1>6, <1>7
<1>10. Drafts' = {Len(versions) + 1}
  <2>1. DOMAIN versions' = 1..(Len(versions) + 1)
    BY <1>2, <1>9
  <2> QED
    BY <1>2, <1>7, <1>8, <1>9, <2>1 DEF Drafts
<1>11. active' \in 0..Len(versions')
  BY <1>2, <1>3, <1>9 DEF VersionsHold
<1>12. \E S : versions' \in Seq([definition : S, status : VersionStatuses])
  BY <1>9 DEF V
<1> QED
  BY <1>7, <1>8, <1>9, <1>10, <1>11, <1>12 DEF VersionsHold

(* A publication makes no drafts.                                          *)
LEMMA DraftPublished ==
  ASSUME VersionsHold, PublishLatestDraft
  PROVE  /\ VersionsHold' /\ Len(versions') = Len(versions)
         /\ \A i \in 1..Len(versions) : versions'[i].definition = versions[i].definition
         /\ LatestDraft \in Drafts /\ Drafts' = {}
<1>1. PICK definitions :
        \A i \in 1..Len(versions) : versions[i].definition \in definitions
  BY VersionsAre
<1>2. Len(versions) \in Nat /\ DOMAIN versions = 1..Len(versions)
  BY VersionsAre
<1>0. \A i \in 1..Len(versions) :
         /\ versions[i] = [definition |-> versions[i].definition, status |-> versions[i].status]
         /\ versions[i].definition \in definitions /\ versions[i].status \in VersionStatuses
  BY <1>1, VersionsAre
<1> DEFINE V == [definition : definitions, status : VersionStatuses]
<1>3. LatestDraft \in Drafts
  BY <1>2 DEF PublishLatestDraft, VersionsHold, LatestDraft, Max, Drafts
<1>4. DOMAIN versions' = 1..Len(versions)
  BY <1>2 DEF PublishLatestDraft
<1>5. \A i \in 1..Len(versions) :
        /\ versions'[i] \in V /\ versions'[i].definition = versions[i].definition
        /\ versions'[i].status = "draft" => versions[i].status = "draft"
  <2> SUFFICES ASSUME NEW i \in 1..Len(versions)
               PROVE /\ versions'[i] \in V /\ versions'[i].definition = versions[i].definition
                     /\ versions'[i].status = "draft" => versions[i].status = "draft"
    OBVIOUS
  <2>1. \A status \in VersionStatuses :
          [versions[i] EXCEPT !.status = status]
            = [definition |-> versions[i].definition, status |-> status]
    BY <1>0, StatusReplaced, Zenon
  <2>2. versions'[i] = IF i = LatestDraft THEN [versions[i] EXCEPT !.status = "published"]
                       ELSE IF i = active THEN [versions[i] EXCEPT !.status = "retired"]
                       ELSE versions[i]
    BY <1>2 DEF PublishLatestDraft
  <2>3. PICK v : v = versions'[i]
    OBVIOUS
  <2>4. \E status \in VersionStatuses :
          /\ v = [definition |-> versions[i].definition, status |-> status]
          /\ status = "draft" => versions[i].status = "draft"
    <3>1. CASE i = LatestDraft
      BY <2>1, <2>2, <2>3, <3>1 DEF VersionStatuses
    <3>2. CASE i # LatestDraft /\ i = active
      BY <2>1, <2>2, <2>3, <3>2 DEF VersionStatuses
    <3>3. CASE i # LatestDraft /\ i # active
      BY <1>0, <2>2, <2>3, <3>3
    <3> QED
      BY <3>1, <3>2, <3>3
  <2>5. /\ v.definition = versions[i].definition /\ v.status \in VersionStatuses
        /\ v = [definition |-> v.definition, status |-> v.status]
        /\ v.status = "draft" => versions[i].status = "draft"
    BY <2>4
  <2>6. v \in V
    <3>1. v.definition \in definitions
      BY <1>0, <2>5
    <3> QED
      BY <2>5, <3>1
  <2> HIDE DEF V
  <2> QED
    BY <2>3, <2>5, <2>6
<1>6. versions' \in Seq(V) /\ Len(versions') = Len(versions)
  <2>1. versions' \in [1..Len(versions) -> V]
    BY <1>4, <1>5 DEF PublishLatestDraft
  <2> HIDE DEF V
  <2> QED
    BY <1>2, <2>1
<1>7. Drafts' \subseteq Drafts
  BY <1>2, <1>4, <1>5 DEF Drafts
<1>8. active' \in 0..Len(versions')
  BY <1>2, <1>3, <1>6 DEF PublishLatestDraft, Drafts
<1>12. Drafts' = {}
  <2>1. LatestDraft \in 1..Len(versions) /\ versions'[LatestDraft].status = "published"
    <3>1. LatestDraft \in 1..Len(versions)
      BY <1>2, <1>3 DEF Drafts
    <3>2. versions'[LatestDraft] = [versions[LatestDraft] EXCEPT !.status = "published"]
      BY <1>2, <3>1 DEF PublishLatestDraft
    <3>3. PICK i \in 1..Len(versions) : i = LatestDraft
      BY <3>1
    <3>4. [versions[i] EXCEPT !.status = "published"]
            = [definition |-> versions[i].definition, status |-> "published"]
      BY <1>0, StatusReplaced, Zenon
    <3>. QED BY <3>1, <3>2, <3>3, <3>4
  <2>2. LatestDraft \notin Drafts'
    BY <2>1 DEF Drafts
  <2>3. Drafts \subseteq {LatestDraft}
    BY <1>3 DEF VersionsHold
  <2>. QED BY <1>7, <2>2, <2>3
<1>9. \A i, j \in Drafts' : i = j
  BY <1>7 DEF VersionsHold
<1>10. \E S : versions' \in Seq([definition : S, status : VersionStatuses])
  BY <1>6
<1>11. VersionsHold'
  BY <1>8, <1>9, <1>10 DEF VersionsHold
<1> QED
  BY <1>3, <1>5, <1>6, <1>11, <1>12

(* Saving and publishing keep the definitions of all versions.             *)
LEMMA VersionsGrow ==
  ASSUME VersionsHold, (\E d : CreateVersion(d)) \/ PublishLatestDraft \/ UNCHANGED server
  PROVE  /\ VersionsHold'
         /\ Len(versions) \in Nat /\ Len(versions') \in Nat /\ Len(versions) <= Len(versions')
         /\ \A i \in 1..Len(versions) : versions'[i].definition = versions[i].definition
<1>1. Len(versions) \in Nat
  BY VersionsAre
<1>2. CASE UNCHANGED server
  <2>1. versions' = versions /\ active' = active
    BY <1>2 DEF server
  <2>2. Drafts' = Drafts
    BY <2>1 DEF Drafts
  <2>3. VersionsHold'
    BY <2>1, <2>2 DEF VersionsHold
  <2> QED
    BY <1>1, <2>1, <2>3
<1>3. CASE \E d : CreateVersion(d)
  <2>1. PICK d : CreateVersion(d)
    BY <1>3
  <2> QED
    BY <1>1, <2>1, VersionCreated
<1>4. CASE PublishLatestDraft
  BY <1>1, <1>4, DraftPublished
<1> QED
  BY <1>2, <1>3, <1>4

(* A version keeps its fingerprint.                                        *)
LEMMA FingerprintsStay ==
  ASSUME VersionsHold, (\E d : CreateVersion(d)) \/ PublishLatestDraft \/ UNCHANGED server
  PROVE  \A i \in 1..Len(versions) : SavedFingerprint(i)' = SavedFingerprint(i)
BY VersionsGrow DEF SavedFingerprint

LEMMA InitInvariant == Init => IInv
<1> SUFFICES ASSUME Init PROVE IInv
  OBVIOUS
<1>1. VersionsHold
  <2>1. versions = <<>> /\ active = 0
    BY DEF Init
  <2>2. versions \in Seq([definition : {}, status : VersionStatuses]) /\ Len(versions) = 0
    BY <2>1
  <2>3. Drafts = {}
    BY <2>1 DEF Drafts
  <2> QED
    BY <2>1, <2>2, <2>3 DEF VersionsHold
<1>2. BaselineHolds
  BY DEF Init, BaselineHolds
<1>3. RequestHolds
  BY DEF Init, RequestHolds, NoRequest, IsPublishing, At
<1>4. InspectorHolds
  BY DEF Init, InspectorHolds, ShownTextIsAccountedFor
<1> QED
  BY <1>1, <1>2, <1>3, <1>4 DEF IInv

-------------------------------------------------------------------------------
(* The page's own request, and those of others, leave what the page knows. *)
LEMMA ServerInvariant ==
  ASSUME IInv, OtherSessions \/ SaveCommits \/ PublishCommits
  PROVE  IInv'
<1>1. (\E d : CreateVersion(d)) \/ PublishLatestDraft
  BY DEF OtherSessions, SaveCommits, PublishCommits
<1>2. UNCHANGED <<page, canvas, saved, inspector>>
  BY DEF OtherSessions, SaveCommits, PublishCommits
<1>3. /\ VersionsHold' /\ Len(versions) \in Nat /\ Len(versions') \in Nat
      /\ Len(versions) <= Len(versions')
  BY <1>1, VersionsGrow DEF IInv
<1>4. loaded \in 0..Len(versions)
  BY DEF IInv, BaselineHolds
<1>5. loaded # 0 => SavedFingerprint(loaded)' = SavedFingerprint(loaded)
  BY <1>1, <1>2, <1>3, <1>4, FingerprintsStay DEF IInv, saved, SavedFingerprint
<1>6. BaselineHolds'
  BY <1>2, <1>3, <1>4, <1>5 DEF IInv, BaselineHolds, saved
<1>7. RequestHolds'
  <2>1. CASE OtherSessions
    BY <1>2, <1>3, <1>4, <1>5, <2>1
    DEF OtherSessions, IInv, RequestHolds, IsPublishing, At, saved
  <2>2. CASE SaveCommits
    <3>1. Len(versions') = Len(versions) + 1
      <4>1. PICK d : CreateVersion(d)
        BY <2>2 DEF SaveCommits
      <4>2. versions' = NewVersion(d)
        BY <4>1 DEF CreateVersion
      <4> QED
        BY <4>1, VersionsGrow, <4>2 DEF NewVersion, IInv
    <3> QED
      BY <1>2, <1>3, <2>2, <3>1 DEF SaveCommits, IInv, RequestHolds, IsPublishing, At
  <2>3. CASE PublishCommits
    BY <1>2, <1>3, <1>5, <2>3
    DEF PublishCommits, IInv, RequestHolds, IsPublishing, At, saved
  <2> QED
    BY <2>1, <2>2, <2>3
<1>8. InspectorHolds'
  BY <1>2 DEF IInv, InspectorHolds, ShownTextIsAccountedFor, inspector, canvas, Nodes
<1> QED
  BY <1>3, <1>6, <1>7, <1>8 DEF IInv

(* A request begins or ends, and the page is otherwise as it was.          *)
LEMMA RequestInvariant ==
  ASSUME IInv, SaveDraft \/ PublishDraft \/ RequestFails \/ OpenEditor
  PROVE  IInv'
<1>1. UNCHANGED <<server, canvas, saved, inspector>>
  BY DEF SaveDraft, PublishDraft, RequestFails, OpenEditor
<1>2. VersionsHold'
  BY <1>1, VersionsGrow DEF IInv
<1>3. BaselineHolds'
  BY <1>1 DEF IInv, BaselineHolds, SavedFingerprint, server, saved
<1>4. InspectorHolds'
  BY <1>1 DEF IInv, InspectorHolds, ShownTextIsAccountedFor, inspector, canvas, Nodes
<1>5. RequestHolds'
  <2>1. CASE SaveDraft
    BY <1>1, <2>1 DEF SaveDraft, IInv, RequestHolds, IsPublishing, At, server
  <2>2. CASE PublishDraft
    <3>1. loaded # 0 /\ Fingerprint(graph) = SavedFingerprint(loaded)
      BY <2>2, FingerprintsAreSome DEF PublishDraft, CanPublish, Dirty, IInv, BaselineHolds
    <3>2. /\ request'.step = "publishing" /\ request'.graph = graph /\ page' = "open"
      BY <2>2 DEF PublishDraft
    <3> QED
      BY <1>1, <3>1, <3>2 DEF RequestHolds, IsPublishing, At, SavedFingerprint, server, saved
  <2>3. CASE RequestFails
    BY <1>1, <2>3 DEF RequestFails, IInv, RequestHolds, IsPublishing, At, NoRequest, server
  <2>4. CASE OpenEditor
    BY <1>1, <2>4 DEF OpenEditor, IInv, RequestHolds, IsPublishing, At, server
  <2> QED
    BY <2>1, <2>2, <2>3, <2>4
<1> QED
  BY <1>2, <1>3, <1>4, <1>5 DEF IInv

(* The fields of the inspector unmount.                                    *)
LEMMA InspectInvariant ==
  ASSUME InspectorHolds, NEW id, Inspect(id), id = NoStep \/ id # selected
  PROVE  InspectorHolds' /\ bodyError' = FALSE
BY DEF InspectorHolds, ShownTextIsAccountedFor, Inspect

LEMMA HydrateInvariant ==
  ASSUME IInv, NEW known, NEW version \in 1..Len(versions), NEW forceNewDraft \in BOOLEAN,
         HydrateVersion(known, version, forceNewDraft), UNCHANGED server
  PROVE  BaselineHolds' /\ InspectorHolds'
<1>1. InspectorHolds'
  BY InspectInvariant DEF HydrateVersion, IInv
<1>2. loaded' = version /\ (baseline' # NoFingerprint => baseline' = Fingerprint(graph'))
  BY DEF HydrateVersion
<1>3. graph' = DefinitionToWorkflowGraph(versions[version].definition)
  BY DEF HydrateVersion, Load, Show
<1>4. versions' = versions /\ Len(versions) \in Nat
  BY VersionsGrow DEF server, IInv
<1>5. BaselineHolds'
  BY <1>2, <1>3, <1>4 DEF BaselineHolds, SavedFingerprint
<1> QED
  BY <1>1, <1>5

(* An answer to a load or a save shows one of the versions.                *)
LEMMA ShownVersion ==
  ASSUME IInv
  PROVE  /\ At("loading") => SelectEditorVersion(request.base) \in 1..Len(versions)
         /\ At("saved") => SavedVersion \in 1..Len(versions)
<1>1. Len(versions) \in Nat /\ DOMAIN versions = 1..Len(versions)
  BY VersionsAre DEF IInv
<1>2. Drafts # {} => LatestDraft \in 1..Len(versions)
  <2>1. Drafts # {} => LatestDraft \in Drafts
    BY <1>1 DEF IInv, VersionsHold, LatestDraft, Max, Drafts
  <2> QED
    BY <1>1, <2>1 DEF Drafts
<1>3. active \in 0..Len(versions)
  BY DEF IInv, VersionsHold
<1>4. ASSUME At("loading") PROVE SelectEditorVersion(request.base) \in 1..Len(versions)
  <2>1. Len(versions) > 0 /\ request.base \in 0..Len(versions)
    BY <1>4 DEF IInv, RequestHolds
  <2> QED
    BY <1>1, <1>2, <1>3, <2>1 DEF SelectEditorVersion
<1> QED
  BY <1>1, <1>4 DEF IInv, RequestHolds, SavedVersion

(* An answer arrives, or the page is left.                                 *)
LEMMA AnswerInvariant ==
  ASSUME IInv, LoadAnswered \/ SaveAnswered \/ PublishAnswered \/ Leave
  PROVE  IInv'
<1>1. UNCHANGED server /\ request' = NoRequest
  BY DEF LoadAnswered, SaveAnswered, PublishAnswered, Leave
<1>2. VersionsHold' /\ Len(versions) \in Nat
  BY <1>1, VersionsGrow DEF IInv
<1>3. RequestHolds'
  <2>1. page' = "left" => Len(versions') > 0
    <3>1. CASE Leave
      <4>1. versions # <<>>
        BY <3>1 DEF Leave
      <4>2. \E definitions : versions \in Seq([definition : definitions, status : VersionStatuses])
        BY DEF IInv, VersionsHold
      <4>3. Len(versions) > 0
        BY <1>2, <4>1, <4>2
      <4> QED
        BY <1>1, <4>3 DEF server
    <3> QED
      BY <1>1, <3>1 DEF LoadAnswered, SaveAnswered, PublishAnswered, IInv, RequestHolds, server
  <2> QED
    BY <1>1, <2>1 DEF RequestHolds, NoRequest, IsPublishing, At
<1>4. BaselineHolds' /\ InspectorHolds'
  <2>1. CASE LoadAnswered
    <3>1. SelectEditorVersion(request.base) \in 1..Len(versions)
      BY <2>1, ShownVersion DEF LoadAnswered
    <3> QED
      BY <1>1, <2>1, <3>1, HydrateInvariant DEF LoadAnswered
  <2>2. CASE SaveAnswered
    <3>1. SavedVersion \in 1..Len(versions)
      BY <2>2, ShownVersion DEF SaveAnswered
    <3> QED
      BY <1>1, <2>2, <3>1, HydrateInvariant DEF SaveAnswered
  <2>3. CASE PublishAnswered
    <3>1. loaded # 0 /\ Fingerprint(request.graph) = SavedFingerprint(loaded)
      BY <2>3 DEF PublishAnswered, At, IsPublishing, IInv, RequestHolds
    <3>2. BaselineHolds'
      BY <1>1, <2>3, <3>1 DEF PublishAnswered, IInv, BaselineHolds, SavedFingerprint, server
    <3>3. InspectorHolds'
      BY <2>3 DEF PublishAnswered, IInv, InspectorHolds, ShownTextIsAccountedFor, inspector,
        canvas, Nodes
    <3> QED
      BY <3>2, <3>3
  <2>4. CASE Leave
    <3>1. InspectorHolds'
      BY <2>4, InspectInvariant DEF Leave, IInv
    <3> QED
      BY <1>1, <1>2, <2>4, <3>1 DEF Leave, BaselineHolds, server
  <2> QED
    BY <2>1, <2>2, <2>3, <2>4
<1> QED
  BY <1>2, <1>3, <1>4 DEF IInv

-------------------------------------------------------------------------------
(* A changed configuration or position, and edges, leave the nodes.        *)
LEMMA NodesStay ==
  ASSUME NEW next, Show(next) \/ graph' = next,
         \/ \E id, config : next = UpdateStep(graph, id, config)
         \/ \E edges : next = [nodes |-> graph.nodes, edges |-> edges]
  PROVE  Nodes(graph)' = Nodes(graph)
<1>1. graph' = next
  BY DEF Show
<1>2. CASE \E id, config : next = UpdateStep(graph, id, config)
  <2>1. PICK id, config : next = UpdateStep(graph, id, config)
    BY <1>2
  <2>2. /\ DOMAIN graph'.nodes = DOMAIN graph.nodes
        /\ \A i \in DOMAIN graph.nodes : graph'.nodes[i].id = graph.nodes[i].id
    BY <1>1, <2>1 DEF UpdateStep
  <2> QED
    BY <2>2 DEF Nodes, Ids, ToSet
<1>3. CASE \E edges : next = [nodes |-> graph.nodes, edges |-> edges]
  BY <1>1, <1>3 DEF Nodes, Ids
<1> QED
  BY <1>2, <1>3

LEMMA ConnectKeepsNodes ==
  ASSUME NEW source, NEW target, Connect(source, target)
  PROVE  Nodes(graph)' = Nodes(graph)
<1>1. CASE graph' = graph
  BY <1>1 DEF Nodes
<1>2. CASE Show(Proposal(graph, source, target))
  BY <1>2, NodesStay DEF Proposal, ReorderStepAfter, ReplaceConnection
<1> QED
  BY <1>1, <1>2 DEF Connect

(* What is selected and what is written stay, and so do the nodes.         *)
LEMMA InspectorStays ==
  ASSUME InspectorHolds, UNCHANGED inspector, Nodes(graph)' = Nodes(graph)
  PROVE  InspectorHolds'
BY DEF InspectorHolds, ShownTextIsAccountedFor, inspector

LEMMA CanvasInvariant == InspectorHolds /\ EditOnCanvas => InspectorHolds'
<1> SUFFICES ASSUME InspectorHolds, EditOnCanvas PROVE InspectorHolds'
  OBVIOUS
<1>1. CASE \E id \in Keys, config \in Configs : AddStep(id, config) /\ Inspect(id)
  <2>1. PICK id \in Keys, config \in Configs : AddStep(id, config) /\ Inspect(id)
    BY <1>1
  <2>2. CASE id # selected
    BY <2>1, <2>2, InspectInvariant
  <2>3. CASE id = selected
    <3>1. ~bodyError
      BY <2>1, <2>3 DEF AddStep, InspectorHolds, ShownTextIsAccountedFor
    <3>2. UNCHANGED inspector
      BY <2>1, <2>3 DEF Inspect, inspector
    <3> QED
      BY <3>1, <3>2 DEF InspectorHolds, ShownTextIsAccountedFor, inspector
  <2> QED
    BY <2>2, <2>3
<1>2. CASE \E id \in Keys, config \in Configs : DragNode(id, config) /\ UNCHANGED inspector
  BY <1>2, NodesStay, InspectorStays DEF DragNode
<1>3. CASE \E source \in Nodes(graph) \cup {Start}, target \in Nodes(graph) :
             Connect(source, target) /\ UNCHANGED inspector
  BY <1>3, ConnectKeepsNodes, InspectorStays
<1>4. CASE \E ids \in SUBSET Nodes(graph), others \in SUBSET graph.edges :
             /\ DeleteSelection(ids, others)
             /\ IF ids # {} THEN Inspect(NoStep) ELSE UNCHANGED inspector
  <2>1. PICK ids \in SUBSET Nodes(graph), others \in SUBSET graph.edges :
             /\ DeleteSelection(ids, others)
             /\ IF ids # {} THEN Inspect(NoStep) ELSE UNCHANGED inspector
    BY <1>4
  <2>2. CASE ids # {}
    BY <2>1, <2>2, InspectInvariant
  <2>3. CASE ids = {}
    <3>1. \E edges : Show(WithoutEdges(edges))
      BY <2>1, <2>3 DEF DeleteSelection, AfterDeletion
    <3> QED
      BY <2>1, <2>3, <3>1, NodesStay, InspectorStays DEF WithoutEdges
  <2> QED
    BY <2>2, <2>3
<1> QED
  BY <1>1, <1>2, <1>3, <1>4 DEF EditOnCanvas

LEMMA EditInvariant ==
  ASSUME IInv,
         \/ EditOnCanvas \/ SelectNode \/ DeleteInspectedNode
         \/ EditField \/ TypeInvalidText
  PROVE  IInv'
<1>1. UNCHANGED <<server, page, saved, request>>
  BY DEF Editing, EditOnCanvas, SelectNode, DeleteInspectedNode, EditField, TypeInvalidText
<1>2. VersionsHold' /\ BaselineHolds' /\ RequestHolds'
  <2>1. VersionsHold'
    BY <1>1, VersionsGrow DEF IInv
  <2>2. BaselineHolds'
    BY <1>1 DEF IInv, BaselineHolds, SavedFingerprint, server, saved
  <2>3. RequestHolds'
    BY <1>1 DEF IInv, RequestHolds, SavedFingerprint, IsPublishing, At, server, saved
  <2> QED
    BY <2>1, <2>2, <2>3
<1>3. InspectorHolds'
  <2>1. CASE EditOnCanvas
    BY <2>1, CanvasInvariant DEF IInv
  <2>2. CASE SelectNode
    BY <2>2, InspectInvariant DEF SelectNode, IInv
  <2>3. CASE DeleteInspectedNode
    BY <2>3, InspectInvariant DEF DeleteInspectedNode, IInv
  <2>4. CASE EditField
    <3>1. Nodes(graph)' = Nodes(graph)
      BY <2>4, NodesStay DEF EditField, EditStep
    <3> QED
      BY <2>4, <3>1 DEF EditField, IInv, InspectorHolds, ShownTextIsAccountedFor
  <2>5. CASE TypeInvalidText
    BY <2>5 DEF TypeInvalidText, IInv, InspectorHolds, ShownTextIsAccountedFor, canvas, Nodes
  <2> QED
    BY <2>1, <2>2, <2>3, <2>4, <2>5
<1> QED
  BY <1>2, <1>3 DEF IInv

LEMMA StepInvariant == IInv /\ [Next]_vars => IInv'
<1> SUFFICES ASSUME IInv, [Next]_vars PROVE IInv'
  OBVIOUS
<1>1. CASE UNCHANGED vars
  <2>1. UNCHANGED <<server, page, canvas, saved, inspector, request>>
    BY <1>1 DEF vars
  <2>2. VersionsHold'
    BY <2>1, VersionsGrow DEF IInv
  <2>3. BaselineHolds'
    BY <2>1 DEF IInv, BaselineHolds, SavedFingerprint, server, saved
  <2>4. RequestHolds'
    BY <2>1 DEF IInv, RequestHolds, SavedFingerprint, IsPublishing, At, server, saved
  <2>5. InspectorHolds'
    BY <2>1, InspectorStays DEF IInv, canvas, Nodes
  <2> QED
    BY <2>2, <2>3, <2>4, <2>5 DEF IInv
<1> QED
  BY <1>1, ServerInvariant, RequestInvariant, AnswerInvariant, EditInvariant DEF Next

(* The invariant holds in every state.                                     *)
THEOREM EditorInvariant == EditorSpec => []IInv
<1> QED
  BY InitInvariant, StepInvariant, PTL DEF EditorSpec

-------------------------------------------------------------------------------
(* Whatever was edited, saved or published meanwhile and by whomever, a    *)
(* page that is not dirty shows the version it has loaded                  *)
(* (baselineFingerprint of workflow-editor-screen.tsx).                    *)
THEOREM NotDirtyIsSaved == EditorSpec => []SavedIsLoadedVersion
<1>1. IInv => SavedIsLoadedVersion
  BY FingerprintsAreSome
  DEF IInv, BaselineHolds, SavedIsLoadedVersion, SavedFingerprint, Dirty
<1> QED
  BY <1>1, EditorInvariant, PTL

(* The screen knows of a text that does not parse for as long as the       *)
(* inspector shows it (onBodyErrorChange and the fields' clean-up).        *)
THEOREM InvalidTextIsKnown == EditorSpec => []ShownTextIsAccountedFor
<1>1. IInv => ShownTextIsAccountedFor
  BY DEF IInv, InspectorHolds
<1> QED
  BY <1>1, EditorInvariant, PTL

(* The answer to a save shows its version or a newer one of another        *)
(* session, never an older one.                                            *)
THEOREM SavesAreShown == EditorSpec => SaveShowsItsVersion
<1> DEFINE ShowsOwn == loaded' = request.own \/ Len(versions) > request.own
<1>1. IInv /\ [Next]_vars => [SaveAnswered => ShowsOwn]_vars
  <2> SUFFICES ASSUME IInv, SaveAnswered PROVE ShowsOwn
    OBVIOUS
  <2>1. request.own \in 1..Len(versions) /\ loaded' = Len(versions)
    BY DEF SaveAnswered, HydrateVersion, SavedVersion, IInv, RequestHolds
  <2>2. Len(versions) \in Nat
    BY VersionsGrow DEF IInv
  <2> QED
    BY <2>1, <2>2
<1> QED
  BY <1>1, EditorInvariant, PTL DEF EditorSpec, SaveShowsItsVersion

-------------------------------------------------------------------------------
(* What is published                                                       *)

(* The versions on the server, and the one being saved, are definitions.   *)
DefinitionsHold ==
  /\ \A i \in 1..Len(versions) : IsDefinition(versions[i].definition)
  /\ At("saving") => IsDefinition(request.definition)

(* The page knows the versions as they were: if there are no more than it  *)
(* knows, what is a draft is the one it takes for a draft.                 *)
DetailHolds ==
  /\ Len(detail.status) \in 0..Len(versions)
  /\ loaded \in 0..Len(detail.status)
  /\ \A i, j \in 1..Len(detail.status) :
       detail.status[i] = "draft" /\ detail.status[j] = "draft" => i = j
  /\ Len(detail.status) = Len(versions) => \A i \in Drafts : detail.status[i] = "draft"

(* What is being published is the draft that has been loaded.              *)
PublishingHolds ==
  At("publishing") =>
    /\ request.known = Len(detail.status)
    /\ loaded # 0 /\ detail.status[loaded] = "draft"
    /\ CompileWorkflowGraph(request.graph) = versions[loaded].definition

PublishInv == CanvasInv /\ DefinitionsHold /\ DetailHolds /\ PublishingHolds

(* Only a graph that compiles has the fingerprint of a definition.         *)
LEMMA FingerprintOfDefinition ==
  ASSUME NEW g, CompileWorkflowGraph(g) # <<>>, NEW steps, IsDefinition(steps),
         Fingerprint(g) = Fingerprint(DefinitionToWorkflowGraph(steps))
  PROVE  CompileWorkflowGraph(g) = steps
<1>1. CompileWorkflowGraph(DefinitionToWorkflowGraph(steps)) = steps
  BY DefinitionIsShown
<1> DEFINE c == CompileWorkflowGraph(g)
           h == DefinitionToWorkflowGraph(steps)
<1>2. Fingerprint(g) = [definition |-> c]
  BY DEF Fingerprint
<1>3. Fingerprint(h) = IF steps # <<>> THEN [definition |-> steps] ELSE [graph |-> h]
  BY <1>1 DEF Fingerprint
<1> HIDE DEF c, h
<1>4. [definition |-> c] # [graph |-> h]
  <2>1. "definition" \in DOMAIN [definition |-> c] /\ "definition" \notin DOMAIN [graph |-> h]
    OBVIOUS
  <2>. QED BY <2>1
<1>5. [definition |-> c] = [definition |-> steps] => c = steps
  <2>1. [definition |-> c].definition = c /\ [definition |-> steps].definition = steps
    OBVIOUS
  <2>. QED BY <2>1
<1>. QED BY <1>2, <1>3, <1>4, <1>5 DEF c, h

(* A new workflow has no versions.                                         *)
LEMMA PublishInit == Init => PublishInv
<1> SUFFICES ASSUME Init PROVE PublishInv
  OBVIOUS
<1>1. CanvasInv
  BY CanvasInit DEF Init
<1>2. versions = <<>> /\ detail.status = <<>> /\ loaded = 0 /\ request.step = "none"
  BY DEF Init, NoDetail, NoRequest
<1>3. Len(versions) = 0 /\ Len(detail.status) = 0 /\ Drafts = {}
  BY <1>2 DEF Drafts
<1>. QED BY <1>1, <1>2, <1>3 DEF PublishInv, DefinitionsHold, DetailHolds, PublishingHolds, At

(* What another session, a save or a publication does on the server.       *)
LEMMA ServerPublishInv ==
  ASSUME IInv, PublishInv, OtherSessions \/ SaveCommits \/ PublishCommits
  PROVE  PublishInv'
<1>1. UNCHANGED <<page, canvas, saved, inspector>>
  BY DEF OtherSessions, SaveCommits, PublishCommits
<1>2. VersionsHold /\ Len(versions) \in Nat
  BY VersionsAre DEF IInv
<1>3. CanvasInv'
  BY <1>1 DEF PublishInv, CanvasInv, canvas, Paths, Wellformed, Ranked, Nodes
<1>4. /\ At("saving")' => request' = request
      /\ At("publishing")' => request' = request
  BY DEF OtherSessions, SaveCommits, PublishCommits, At
<1>5. detail' = detail /\ loaded' = loaded
  BY <1>1 DEF saved
<1>6. /\ Len(detail.status) \in Nat /\ Len(detail.status) <= Len(versions)
      /\ loaded \in Nat /\ loaded <= Len(detail.status)
  BY <1>2 DEF PublishInv, DetailHolds
<1>7. CASE \E d : IsDefinition(d) /\ CreateVersion(d)
  <2>1. PICK d : IsDefinition(d) /\ CreateVersion(d)
    BY <1>7
  <2>2. /\ Len(versions') = Len(versions) + 1 /\ versions'[Len(versions) + 1].definition = d
        /\ \A i \in 1..Len(versions) : versions'[i].definition = versions[i].definition
    BY <1>2, <2>1, VersionCreated
  <2>3. DefinitionsHold'
    <3>1. \A i \in 1..Len(versions') : IsDefinition(versions'[i].definition)
      BY <1>2, <2>1, <2>2 DEF PublishInv, DefinitionsHold
    <3>. QED BY <1>4, <3>1 DEF PublishInv, DefinitionsHold, At
  <2>4. DetailHolds'
    BY <1>2, <1>5, <1>6, <2>2 DEF PublishInv, DetailHolds
  <2>5. PublishingHolds'
    BY <1>2, <1>4, <1>5, <1>6, <2>2 DEF PublishInv, PublishingHolds, At
  <2>. QED BY <1>3, <2>3, <2>4, <2>5 DEF PublishInv
<1>8. CASE PublishLatestDraft
  <2>1. /\ Len(versions') = Len(versions) /\ Drafts' \subseteq Drafts
        /\ \A i \in 1..Len(versions) : versions'[i].definition = versions[i].definition
    BY <1>2, <1>8, DraftPublished
  <2>2. DefinitionsHold'
    <3>1. \A i \in 1..Len(versions') : IsDefinition(versions'[i].definition)
      BY <1>2, <2>1 DEF PublishInv, DefinitionsHold
    <3>. QED BY <1>4, <3>1 DEF PublishInv, DefinitionsHold, At
  <2>3. DetailHolds'
    BY <1>2, <1>5, <1>6, <2>1 DEF PublishInv, DetailHolds
  <2>4. PublishingHolds'
    BY <1>2, <1>4, <1>5, <1>6, <2>1 DEF PublishInv, PublishingHolds, At
  <2>. QED BY <1>3, <2>2, <2>3, <2>4 DEF PublishInv
<1>9. (\E d : IsDefinition(d) /\ CreateVersion(d)) \/ PublishLatestDraft
  BY EditorAssumption
  DEF OtherSessions, SaveCommits, PublishCommits, PublishInv, DefinitionsHold
<1>. QED BY <1>7, <1>8, <1>9

(* The page begins or gives up a request.                                  *)
LEMMA RequestPublishInv ==
  ASSUME IInv, PublishInv, SaveDraft \/ PublishDraft \/ RequestFails \/ OpenEditor
  PROVE  PublishInv'
<1>1. UNCHANGED <<server, canvas, saved, inspector>>
  BY DEF SaveDraft, PublishDraft, RequestFails, OpenEditor
<1>2. CanvasInv'
  BY <1>1 DEF PublishInv, CanvasInv, canvas, Paths, Wellformed, Ranked, Nodes
<1>3. versions' = versions /\ detail' = detail /\ loaded' = loaded
  BY <1>1 DEF server, saved
<1>4. DetailHolds'
  BY <1>3 DEF PublishInv, DetailHolds, Drafts
<1>5. DefinitionsHold' /\ PublishingHolds'
  <2>1. CASE SaveDraft
    <3>1. request'.step = "saving" /\ request'.definition = CompileWorkflowGraph(graph)
      BY <2>1 DEF SaveDraft
    <3>2. CompileWorkflowGraph(graph) # <<>>
      BY <2>1 DEF SaveDraft, IsValid, DefinitionAccepted
    <3>3. IsDefinition(CompileWorkflowGraph(graph))
      BY <3>2, CompiledIsDefinition DEF PublishInv, CanvasInv
    <3>. QED BY <1>3, <3>1, <3>3 DEF PublishInv, DefinitionsHold, PublishingHolds, At
  <2>2. CASE PublishDraft
    <3>1. /\ request'.step = "publishing" /\ request'.graph = graph
          /\ request'.known = Len(detail.status)
      BY <2>2 DEF PublishDraft
    <3>2. loaded # 0 /\ detail.status[loaded] = "draft" /\ CompileWorkflowGraph(graph) # <<>>
      BY <2>2 DEF PublishDraft, CanPublish, IsValid, DefinitionAccepted
    <3>3. Fingerprint(graph) = Fingerprint(DefinitionToWorkflowGraph(versions[loaded].definition))
      BY <2>2, FingerprintsAreSome
      DEF PublishDraft, CanPublish, Dirty, IInv, BaselineHolds, SavedFingerprint
    <3>4. IsDefinition(versions[loaded].definition)
      <4>1. loaded \in 1..Len(versions)
        BY <3>2, VersionsAre DEF IInv, BaselineHolds
      <4>. QED BY <4>1 DEF PublishInv, DefinitionsHold
    <3>5. CompileWorkflowGraph(graph) = versions[loaded].definition
      BY <3>2, <3>3, <3>4, FingerprintOfDefinition
    <3>. QED BY <1>3, <3>1, <3>2, <3>5 DEF PublishInv, DefinitionsHold, PublishingHolds, At
  <2>3. CASE RequestFails \/ OpenEditor
    <3>1. request'.step \notin {"saving", "publishing"}
      BY <2>3 DEF RequestFails, OpenEditor, NoRequest
    <3>. QED BY <1>3, <3>1 DEF PublishInv, DefinitionsHold, PublishingHolds, At
  <2>. QED BY <2>1, <2>2, <2>3
<1>. QED BY <1>2, <1>4, <1>5 DEF PublishInv

(* The page knows the versions as they are.                                *)
LEMMA DetailRead ==
  ASSUME IInv, detail' = Detail, UNCHANGED server, loaded' \in 0..Len(versions)
  PROVE  DetailHolds'
<1>1. Len(versions) \in Nat /\ DOMAIN versions = 1..Len(versions)
  BY VersionsAre DEF IInv
<1>2. detail'.status = [i \in 1..Len(versions) |-> versions[i].status]
  BY <1>1 DEF Detail
<1>3. Len(detail'.status) = Len(versions) /\ \A i \in 1..Len(versions) : detail'.status[i] = versions[i].status
  <2>1. PICK f : f = [i \in 1..Len(versions) |-> versions[i].status]
    OBVIOUS
  <2>2. Len(f) = Len(versions) /\ \A i \in 1..Len(versions) : f[i] = versions[i].status
    BY <1>1, <2>1
  <2>. QED BY <1>2, <2>1, <2>2
<1>4. versions' = versions
  BY DEF server
<1>5. \A i \in 1..Len(versions) : i \in Drafts <=> versions[i].status = "draft"
  BY <1>1 DEF Drafts
<1>6. Drafts \subseteq 1..Len(versions)
  BY <1>1 DEF Drafts
<1>7. \A i, j \in Drafts : i = j
  BY DEF IInv, VersionsHold
<1>8. Drafts' = Drafts
  BY <1>4 DEF Drafts
<1>. QED BY <1>1, <1>3, <1>4, <1>5, <1>6, <1>7, <1>8 DEF DetailHolds

(* An answer arrives, or the page is left.                                 *)
LEMMA AnswerPublishInv ==
  ASSUME IInv, IInv', PublishInv, LoadAnswered \/ SaveAnswered \/ PublishAnswered \/ Leave
  PROVE  PublishInv'
<1>1. UNCHANGED server /\ request' = NoRequest
  BY DEF LoadAnswered, SaveAnswered, PublishAnswered, Leave
<1>2. versions' = versions /\ Len(versions) \in Nat
  BY <1>1, VersionsAre DEF server, IInv
<1>3. DefinitionsHold' /\ PublishingHolds'
  BY <1>1, <1>2 DEF PublishInv, DefinitionsHold, PublishingHolds, NoRequest, At
<1>4. loaded' \in 0..Len(versions)
  BY <1>2 DEF IInv, BaselineHolds
<1>5. DetailHolds'
  <2>1. CASE LoadAnswered \/ SaveAnswered \/ PublishAnswered
    <3>1. detail' = Detail
      BY <2>1 DEF LoadAnswered, SaveAnswered, PublishAnswered, HydrateVersion
    <3>. QED BY <1>1, <1>4, <3>1, DetailRead
  <2>2. CASE Leave
    <3>1. detail'.status = <<>> /\ loaded' = 0
      BY <2>2 DEF Leave, NoDetail
    <3>2. Len(detail'.status) = 0 /\ \A i \in Drafts : i \in 1..Len(versions)
      BY <1>2, <3>1, VersionsAre DEF IInv, Drafts
    <3>3. Drafts' = Drafts
      BY <1>2 DEF Drafts
    <3>. QED BY <1>2, <3>1, <3>2, <3>3 DEF DetailHolds
  <2>. QED BY <2>1, <2>2
<1>6. CanvasInv'
  <2>1. \A steps : IsDefinition(steps) /\ Load(steps) => CanvasInv'
    <3> SUFFICES ASSUME NEW steps, IsDefinition(steps), Load(steps) PROVE CanvasInv'
      OBVIOUS
    <3>1. graph' = DefinitionToWorkflowGraph(steps)
      BY DEF Load, Show
    <3>2. Paths(graph')
      BY <3>1, DefinitionIsShown
    <3>. QED BY <3>2 DEF CanvasInv, Paths, Wellformed, Ranked, Nodes
  <2>2. CASE LoadAnswered \/ SaveAnswered
    <3>1. PICK version \in 1..Len(versions) : Load(versions[version].definition)
      BY <2>2, ShownVersion DEF LoadAnswered, SaveAnswered, HydrateVersion
    <3>. QED BY <2>1, <3>1 DEF PublishInv, DefinitionsHold
  <2>3. CASE PublishAnswered
    BY <2>3 DEF PublishAnswered, PublishInv, CanvasInv, canvas, Paths, Wellformed, Ranked, Nodes
  <2>4. CASE Leave
    <3>1. IsDefinition(<<>>)
      BY DEF IsDefinition
    <3>. QED BY <2>1, <2>4, <3>1 DEF Leave
  <2>. QED BY <2>2, <2>3, <2>4
<1>. QED BY <1>3, <1>5, <1>6 DEF PublishInv

(* The user edits: the steps of the canvas.                                *)
LEMMA EditPublishInv ==
  ASSUME PublishInv,
         \/ EditOnCanvas \/ SelectNode \/ DeleteInspectedNode
         \/ EditField \/ TypeInvalidText
  PROVE  PublishInv'
<1>1. UNCHANGED <<server, page, saved, request>>
  BY DEF Editing, EditOnCanvas, SelectNode, DeleteInspectedNode, EditField, TypeInvalidText
<1>2. DefinitionsHold' /\ DetailHolds' /\ PublishingHolds'
  BY <1>1 DEF PublishInv, DefinitionsHold, DetailHolds, PublishingHolds, Drafts, At, server, saved
<1>3. [GraphNext]_canvas
  <2>1. CASE EditOnCanvas
    <3>1. CASE \E id \in Keys, config \in Configs : AddStep(id, config) \/ DragNode(id, config)
      BY <3>1 DEF GraphNext
    <3>2. CASE \E source \in Nodes(graph) \cup {Start}, target \in Nodes(graph) :
                 Connect(source, target)
      BY <3>2 DEF GraphNext
    <3>3. CASE \E ids \in SUBSET Nodes(graph), others \in SUBSET graph.edges :
                 DeleteSelection(ids, others)
      BY <3>3 DEF GraphNext
    <3>. QED BY <2>1, <3>1, <3>2, <3>3 DEF EditOnCanvas
  <2>2. CASE SelectNode \/ TypeInvalidText
    BY <2>2 DEF SelectNode, TypeInvalidText
  <2>3. ASSUME NEW id \in Nodes(graph) PROVE id \in Keys
    <3>1. Wellformed(graph)
      BY DEF PublishInv, CanvasInv, Paths
    <3>. QED BY <3>1, NodesAre
  <2>4. CASE DeleteInspectedNode
    <3>1. DeleteNode(selected)
      BY <2>4 DEF DeleteInspectedNode
    <3>. QED BY <2>3, <3>1 DEF GraphNext, DeleteNode
  <2>5. CASE EditField
    <3>1. PICK config \in Configs : EditStep(selected, config)
      BY <2>5 DEF EditField
    <3>. QED BY <2>3, <3>1 DEF GraphNext, EditStep
  <2>. QED BY <2>1, <2>2, <2>4, <2>5
<1>4. CanvasInv'
  BY <1>3, CanvasStep DEF PublishInv
<1>. QED BY <1>2, <1>4 DEF PublishInv

(* Every step preserves the invariant of a publication.                    *)
LEMMA PublishStep == IInv /\ IInv' /\ PublishInv /\ [Next]_vars => PublishInv'
<1> SUFFICES ASSUME IInv, IInv', PublishInv, [Next]_vars PROVE PublishInv'
  OBVIOUS
<1>1. CASE UNCHANGED vars
  <2>1. CanvasInv'
    BY <1>1 DEF vars, PublishInv, CanvasInv, canvas, Paths, Wellformed, Ranked, Nodes
  <2>2. DefinitionsHold' /\ DetailHolds' /\ PublishingHolds'
    BY <1>1
    DEF vars, PublishInv, DefinitionsHold, DetailHolds, PublishingHolds, Drafts, At, server, saved
  <2>. QED BY <2>1, <2>2 DEF PublishInv
<1>. QED
  BY <1>1, ServerPublishInv, RequestPublishInv, AnswerPublishInv, EditPublishInv DEF Next

(* The canvas shows paths, the versions are definitions, and the page knows*)
(* the versions as they were.                                              *)
THEOREM PublicationInvariant == EditorSpec => []PublishInv
<1> QED
  BY PublishInit, PublishStep, EditorInvariant, PTL DEF EditorSpec

(* What a publication activates is the graph that was shown when it was    *)
(* asked for, unless the server has a version the page does not know of    *)
(* (publishDraft of workflow-editor-screen.tsx, publishLatestDraftVersion).*)
THEOREM PublicationsAreShown == EditorSpec => PublishesWhatIsShown
<1> DEFINE Shown == \/ Len(versions) > request.known
                    \/ versions[active'].definition = CompileWorkflowGraph(request.graph)
<1>1. IInv /\ PublishInv /\ [Next]_vars => [PublishCommits => Shown]_vars
  <2> SUFFICES ASSUME IInv, PublishInv, PublishCommits, ~(Len(versions) > request.known)
               PROVE  versions[active'].definition = CompileWorkflowGraph(request.graph)
    OBVIOUS
  <2>1. At("publishing") /\ PublishLatestDraft /\ active' = LatestDraft
    BY DEF PublishCommits, PublishLatestDraft
  <2>2. LatestDraft \in Drafts /\ Drafts \subseteq 1..Len(versions) /\ Len(versions) \in Nat
    BY <2>1, DraftPublished, VersionsAre DEF IInv, Drafts
  <2>3. /\ request.known = Len(detail.status) /\ loaded # 0 /\ detail.status[loaded] = "draft"
        /\ CompileWorkflowGraph(request.graph) = versions[loaded].definition
    BY <2>1 DEF PublishInv, PublishingHolds
  <2>4. Len(detail.status) = Len(versions)
    BY <2>2, <2>3 DEF PublishInv, DetailHolds
  <2>5. LatestDraft \in 1..Len(detail.status) /\ detail.status[LatestDraft] = "draft"
    BY <2>2, <2>4 DEF PublishInv, DetailHolds
  <2>6. loaded \in 1..Len(detail.status)
    BY <2>2, <2>3, <2>4 DEF PublishInv, DetailHolds
  <2>7. LatestDraft = loaded
    BY <2>3, <2>5, <2>6 DEF PublishInv, DetailHolds
  <2>. QED BY <2>1, <2>3, <2>7
<1> QED
  BY <1>1, EditorInvariant, PublicationInvariant, PTL DEF EditorSpec, PublishesWhatIsShown
-------------------------------------------------------------------------------
(* The server                                                              *)

(* The versions, seen as a history: only the newest may be a draft.        *)
OnlyNewestIsDraft == \A i \in Drafts : i = Len(versions)

Definition == {steps \in Seq([id : Keys, config : Configs]) : IsDefinition(steps)}

Definitions(rows) == [i \in 1..Len(rows) |-> rows[i].definition]

(* A sequence that goes on by one element.                                 *)
LEMMA AppendIs ==
  ASSUME NEW n \in Nat, NEW S, NEW s \in [1..n -> S], NEW d \in S, NEW t \in [1..(n + 1) -> S],
         \A i \in 1..n : t[i] = s[i], t[n + 1] = d
  PROVE  t = Append(s, d)
<1>1. s \in Seq(S) /\ Len(s) = n
  OBVIOUS
<1>2. Append(s, d) \in Seq(S) /\ Len(Append(s, d)) = n + 1
      /\ (\A i \in 1..n : Append(s, d)[i] = s[i]) /\ Append(s, d)[n + 1] = d
  BY <1>1
<1>3. DOMAIN Append(s, d) = 1..(n + 1)
  BY <1>2
<1>. QED BY <1>2, <1>3

(* Saving and publishing are saving and publishing of the history.         *)
LEMMA ServerHistory ==
  ASSUME IInv, PublishInv, OnlyNewestIsDraft, [Next]_vars
  PROVE  OnlyNewestIsDraft' /\ [History!Next]_(History!vars)
<1>1. VersionsHold /\ Len(versions) \in Nat /\ DOMAIN versions = 1..Len(versions)
  BY VersionsAre DEF IInv
<1>2. CASE UNCHANGED server
  <2>1. versions' = versions /\ active' = active
    BY <1>2 DEF server
  <2>. QED BY <2>1 DEF OnlyNewestIsDraft, Drafts, History!vars
<1>3. CASE \E d : IsDefinition(d) /\ CreateVersion(d)
  <2>1. PICK d : IsDefinition(d) /\ CreateVersion(d)
    BY <1>3
  <2>2. PICK n, old, new : n = Len(versions) /\ old = versions /\ new = versions'
    OBVIOUS
  <2>3. /\ VersionsHold' /\ Len(new) = n + 1 /\ new[n + 1].definition = d /\ Drafts' = {n + 1}
        /\ \A i \in 1..n : new[i].definition = old[i].definition
    BY <1>1, <2>1, <2>2, VersionCreated
  <2>4. (\A i \in 1..n : old[i].definition \in Definition) /\ d \in Definition
    BY <2>1, <2>2 DEF PublishInv, DefinitionsHold, IsDefinition, Definition
  <2>5. DOMAIN new = 1..(n + 1) /\ DOMAIN old = 1..n /\ n \in Nat
    <3>1. PICK definitions : new \in Seq([definition : definitions, status : VersionStatuses])
      BY <2>2, <2>3 DEF VersionsHold
    <3>2. DOMAIN new = 1..Len(new)
      BY <3>1
    <3>. QED BY <1>1, <2>2, <2>3, <3>2
  <2>6. Definitions(new) = Append(Definitions(old), d)
    <3>1. Definitions(old) \in [1..n -> Definition] /\ Definitions(new) \in [1..(n + 1) -> Definition]
      BY <2>2, <2>3, <2>4, <2>5 DEF Definitions
    <3>2. (\A i \in 1..n : Definitions(new)[i] = Definitions(old)[i]) /\ Definitions(new)[n + 1] = d
      BY <2>2, <2>3, <2>5 DEF Definitions
    <3>. QED BY <2>4, <2>5, <3>1, <3>2, AppendIs
  <2>7. History!Save(d)
    <3>1. (Drafts # {})' = TRUE
      BY <2>3
    <3>2. active' = active
      BY <2>1 DEF CreateVersion
    <3>. QED BY <2>2, <2>3, <2>5, <2>6, <3>1, <3>2 DEF History!Save, Definitions
  <2>8. OnlyNewestIsDraft'
    BY <2>2, <2>3 DEF OnlyNewestIsDraft
  <2>. QED BY <2>4, <2>7, <2>8 DEF History!Next, Definition
<1>4. CASE PublishLatestDraft
  <2>1. PICK n, old, new : n = Len(versions) /\ old = versions /\ new = versions'
    OBVIOUS
  <2>2. /\ VersionsHold' /\ Len(new) = n /\ LatestDraft \in Drafts /\ Drafts' = {}
        /\ \A i \in 1..n : new[i].definition = old[i].definition
    BY <1>1, <1>4, <2>1, DraftPublished
  <2>3. DOMAIN new = 1..n /\ DOMAIN old = 1..n
    BY <1>1, <1>4, <2>1 DEF PublishLatestDraft
  <2>4. Definitions(new) = Definitions(old)
    BY <2>1, <2>2 DEF Definitions
  <2>5. LatestDraft = n
    BY <2>1, <2>2 DEF OnlyNewestIsDraft
  <2>6. History!Publish
    <3>1. active' = n /\ Drafts # {}
      BY <1>4, <2>5 DEF PublishLatestDraft
    <3>2. Len([i \in DOMAIN old |-> old[i].definition]) = n
      BY <1>1, <2>1, <2>3
    <3>. QED BY <2>1, <2>2, <2>3, <2>4, <3>1, <3>2 DEF History!Publish, Definitions
  <2>7. OnlyNewestIsDraft'
    BY <2>2 DEF OnlyNewestIsDraft
  <2>. QED BY <2>6, <2>7 DEF History!Next
<1>5. (\E d : IsDefinition(d) /\ CreateVersion(d)) \/ PublishLatestDraft \/ UNCHANGED server
  <2>1. CASE OtherSessions \/ SaveCommits \/ PublishCommits
    BY <2>1, EditorAssumption
    DEF OtherSessions, SaveCommits, PublishCommits, PublishInv, DefinitionsHold
  <2>2. CASE ~(OtherSessions \/ SaveCommits \/ PublishCommits)
    BY <2>2 DEF Next, vars, Leave, OpenEditor, LoadAnswered, SaveDraft, SaveAnswered, PublishDraft,
       PublishAnswered, RequestFails, Editing, EditOnCanvas, SelectNode, DeleteInspectedNode,
       EditField, TypeInvalidText
  <2>. QED BY <2>1, <2>2
<1>. QED BY <1>2, <1>3, <1>4, <1>5

(* The server that the editor talks to does what WorkflowRegistry promises *)
(* of a workflow: createDraftWorkflowVersion and publishLatestDraftVersion *)
(* under the lock of its row.                                              *)
THEOREM ServerImplementsHistory == EditorSpec => ImplementsHistory
<1>1. Init => OnlyNewestIsDraft /\ History!Init
  BY DEF Init, OnlyNewestIsDraft, Drafts, History!Init
<1>2. IInv /\ PublishInv /\ OnlyNewestIsDraft /\ [Next]_vars
        => OnlyNewestIsDraft' /\ [History!Next]_(History!vars)
  BY ServerHistory
<1>. QED BY <1>1, <1>2, EditorInvariant, PublicationInvariant, PTL
     DEF EditorSpec, ImplementsHistory, History!Spec
===============================================================================
