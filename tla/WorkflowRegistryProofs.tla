------------------------ MODULE WorkflowRegistryProofs ------------------------
(***************************************************************************)
(* Theorems about WorkflowRegistry, for every set of workflows, credentials*)
(* and requests and every bound on versions and secrets.                   *)
(***************************************************************************)
EXTENDS WorkflowRegistry, SequenceTheorems, TLAPS

(* The inductive invariant.                                                *)
RegistryInvariant ==
  /\ RegistryTypeOK
  /\ ActiveIsPublished
  /\ VersionNumbersDiffer
  /\ LockedReadsHold

-------------------------------------------------------------------------------
(* Lemmas about requests and locks                                         *)

(* What a request carries at each step.                                    *)
LEMMA RequestFields ==
  ASSUME RegistryTypeOK, NEW r \in Requests
  PROVE  /\ At(r, "updating") \/ At(r, "archiving") => request[r].credential \in Credentials
         /\ At(r, "creating") \/ At(r, "drafting") \/ At(r, "draftLocked") =>
              request[r].workflow \in Workflows /\ request[r].uses \in SUBSET Credentials
         /\ At(r, "draftRead") \/ At(r, "validated") \/ At(r, "noActiveVersion") =>
              request[r].workflow \in Workflows
         /\ At(r, "publishing") =>
              /\ request[r].workflow \in Workflows
              /\ request[r].draft \in 1..MaxVersions
              /\ request[r].previous \in 0..MaxVersions
         /\ At(r, "triggering") =>
              request[r].workflow \in Workflows /\ request[r].version \in 1..MaxVersions
BY DEF RegistryTypeOK, RequestState, Idle, At

(* The states a request goes to are states of requests.                    *)
LEMMA RequestStates ==
  /\ Idle \in RequestState
  /\ \A c \in Credentials :
       /\ [step |-> "updating", credential |-> c] \in RequestState
       /\ [step |-> "archiving", credential |-> c] \in RequestState
  /\ \A w \in Workflows :
       /\ [step |-> "validated", workflow |-> w] \in RequestState
       /\ NoActiveVersion(w) \in RequestState
       /\ \A uses \in SUBSET Credentials :
            /\ [step |-> "creating", workflow |-> w, uses |-> uses] \in RequestState
            /\ [step |-> "drafting", workflow |-> w, uses |-> uses] \in RequestState
            /\ \A n \in 0..MaxVersions :
                 [step |-> "draftLocked", workflow |-> w, uses |-> uses, latest |-> n]
                   \in RequestState
       /\ \A n \in 0..MaxVersions :
            /\ [step |-> "draftRead", workflow |-> w, draft |-> n] \in RequestState
            /\ \A m \in 1..MaxVersions :
                 [step |-> "publishing", workflow |-> w, draft |-> m, previous |-> n]
                   \in RequestState
       /\ \A m \in 1..MaxVersions :
            [step |-> "triggering", workflow |-> w, version |-> m] \in RequestState
BY DEF RequestState, NoActiveVersion

(* A request that moves leaves the others where they are.                  *)
LEMMA GotoType ==
  ASSUME request \in [Requests -> RequestState], NEW r \in Requests,
         NEW state \in RequestState, Goto(r, state)
  PROVE  /\ request' \in [Requests -> RequestState]
         /\ request'[r] = state
         /\ \A q \in Requests \ {r} : request'[q] = request[q]
BY DEF Goto

(* Taking a lock takes it from nobody.                                     *)
LEMMA LockRowType ==
  ASSUME RegistryTypeOK, NEW r \in Requests, NEW row \in Workflows \cup Credentials,
         LockRow(r, row)
  PROVE  /\ rowLock' \in [Workflows \cup Credentials -> Requests \cup {NoOne}]
         /\ rowLock'[row] = r
         /\ \A q \in Requests \ {r} : \A x \in Workflows \cup Credentials :
              rowLock[x] = q => rowLock'[x] = q
BY RegistryAssumption DEF RegistryTypeOK, LockRow

(* The end of a transaction frees no lock of another one.                  *)
LEMMA UnlockRowsType ==
  ASSUME RegistryTypeOK, NEW r \in Requests, UnlockRows(r)
  PROVE  /\ rowLock' \in [Workflows \cup Credentials -> Requests \cup {NoOne}]
         /\ \A q \in Requests \ {r} : \A x \in Workflows \cup Credentials :
              rowLock[x] = q => rowLock'[x] = q
BY RegistryAssumption DEF RegistryTypeOK, UnlockRows

-------------------------------------------------------------------------------
(* Lemmas about versions                                                   *)

(* The latest draft is the newest version.                                 *)
LEMMA LatestDraftIsNewest ==
  ASSUME RegistryTypeOK, ActiveIsPublished, NEW w \in Workflows
  PROVE  /\ LatestDraft(w) \in 0..MaxVersions
         /\ LatestDraft(w) # 0 =>
              /\ LatestDraft(w) \in 1..MaxVersions
              /\ LatestDraft(w) = Len(versions[w])
              /\ versions[w][LatestDraft(w)].status = "draft"
<1>1. Len(versions[w]) \in Nat /\ Len(versions[w]) <= MaxVersions
  BY DEF RegistryTypeOK
<1>2. \A i \in Drafts(w) : /\ i \in 1..Len(versions[w])
                           /\ i = Len(versions[w])
                           /\ versions[w][i].status = "draft"
  BY DEF Drafts, ActiveIsPublished
<1>3. ASSUME Drafts(w) # {}
      PROVE  Newest(w, Drafts(w)) \in Drafts(w)
  <2>1. PICK d \in Drafts(w) : TRUE
    BY <1>3
  <2>2. versions[w][d] \in Version
    BY <1>2 DEF RegistryTypeOK
  <2>3. \A j \in Drafts(w) : versions[w][j].versionNo <= versions[w][d].versionNo
    BY <1>2, <2>1, <2>2 DEF Version
  <2> QED
    BY <2>1, <2>3 DEF Newest
<1>4. CASE Drafts(w) = {}
  BY <1>4, RegistryAssumption DEF LatestDraft
<1>5. CASE Drafts(w) # {}
  BY <1>1, <1>2, <1>3, <1>5, RegistryAssumption DEF LatestDraft
<1> QED
  BY <1>4, <1>5

(* The highest number is the number of versions.                           *)
LEMMA LatestNoIsLength ==
  ASSUME RegistryTypeOK, VersionNumbersDiffer, NEW w \in Workflows
  PROVE  LatestVersionNo(w) = Len(versions[w])
<1>1. versions[w] \in Seq(Version) /\ Len(versions[w]) \in Nat
  BY DEF RegistryTypeOK
<1>2. CASE versions[w] = <<>>
  BY <1>2 DEF LatestVersionNo
<1>3. CASE versions[w] # <<>>
  <2> DEFINE n == Len(versions[w])
  <2>1. n \in 1..n
    BY <1>1, <1>3, EmptySeq
  <2>2. \A j \in 1..n : versions[w][j].versionNo = j
    BY DEF VersionNumbersDiffer
  <2>3. Newest(w, 1..n) = n
    <3>1. \A j \in 1..n : versions[w][j].versionNo <= versions[w][n].versionNo
      BY <1>1, <2>1, <2>2
    <3>2. \A i \in 1..n :
            (\A j \in 1..n : versions[w][j].versionNo <= versions[w][i].versionNo) => i = n
      BY <1>1, <2>1, <2>2
    <3> QED
      BY <2>1, <3>1, <3>2 DEF Newest
  <2> QED
    BY <1>3, <2>1, <2>2, <2>3 DEF LatestVersionNo
<1> QED
  BY <1>2, <1>3

(* A new draft is the only one, and everything else stays.                 *)
LEMMA WithNewDraftRows ==
  ASSUME NEW rows \in Seq(Version), NEW draft \in Version
  PROVE  /\ WithNewDraft(rows, draft) \in Seq(Version)
         /\ Len(WithNewDraft(rows, draft)) = Len(rows) + 1
         /\ WithNewDraft(rows, draft)[Len(rows) + 1] = draft
         /\ \A i \in 1..Len(rows) :
              WithNewDraft(rows, draft)[i] =
                IF rows[i].status = "draft" THEN Retired(rows[i]) ELSE rows[i]
<1> DEFINE row(i) == IF rows[i].status = "draft" THEN Retired(rows[i]) ELSE rows[i]
           old == [i \in 1..Len(rows) |-> row(i)]
<1>1. Len(rows) \in Nat
  OBVIOUS
<1>2. \A i \in 1..Len(rows) : row(i) \in Version
  <2> SUFFICES ASSUME NEW i \in 1..Len(rows) PROVE row(i) \in Version
    OBVIOUS
  <2>1. rows[i] \in Version
    OBVIOUS
  <2> QED
    BY <2>1 DEF Version, Retired
<1> HIDE DEF row
<1>3. old \in Seq(Version) /\ Len(old) = Len(rows)
  <2>1. old \in Seq(Version)
    BY <1>1, <1>2, IsASeq
  <2>2. DOMAIN old = 1..Len(rows)
    OBVIOUS
  <2> QED
    BY <1>1, <2>1, <2>2, LenProperties
<1>4. WithNewDraft(rows, draft) = Append(old, draft)
  BY DEF WithNewDraft, row
<1>5. \A i \in 1..Len(rows) : old[i] = row(i)
  OBVIOUS
<1> HIDE DEF old
<1>6. /\ Append(old, draft) \in Seq(Version)
      /\ Len(Append(old, draft)) = Len(rows) + 1
      /\ Append(old, draft)[Len(rows) + 1] = draft
      /\ \A i \in 1..Len(rows) : Append(old, draft)[i] = old[i]
  BY <1>1, <1>3, AppendProperties
<1> QED
  BY <1>4, <1>5, <1>6 DEF row

(* The rows after a publication.                                           *)
LEMMA WithPublishedRows ==
  ASSUME NEW rows \in Seq(Version), NEW draft \in 1..Len(rows), NEW previous \in Nat
  PROVE  /\ WithPublished(rows, draft, previous) \in Seq(Version)
         /\ Len(WithPublished(rows, draft, previous)) = Len(rows)
         /\ \A i \in 1..Len(rows) :
              WithPublished(rows, draft, previous)[i] =
                IF i = draft THEN Published(rows[i])
                ELSE IF i = previous /\ rows[i].status = "published" THEN Retired(rows[i])
                ELSE rows[i]
<1> DEFINE row(i) == IF i = draft THEN Published(rows[i])
                     ELSE IF i = previous /\ rows[i].status = "published" THEN Retired(rows[i])
                     ELSE rows[i]
           new == [i \in 1..Len(rows) |-> row(i)]
<1>1. Len(rows) \in Nat
  OBVIOUS
<1>2. \A i \in 1..Len(rows) : row(i) \in Version
  <2> SUFFICES ASSUME NEW i \in 1..Len(rows) PROVE row(i) \in Version
    OBVIOUS
  <2>1. rows[i] \in Version
    OBVIOUS
  <2>2. Published(rows[i]) \in Version /\ Retired(rows[i]) \in Version
    BY <2>1 DEF Version, Published, Retired
  <2> QED
    BY <2>1, <2>2
<1> HIDE DEF row
<1>3. new \in Seq(Version) /\ Len(new) = Len(rows)
  <2>1. new \in Seq(Version)
    BY <1>1, <1>2, IsASeq
  <2>2. DOMAIN new = 1..Len(rows)
    OBVIOUS
  <2> QED
    BY <1>1, <2>1, <2>2, LenProperties
<1>4. WithPublished(rows, draft, previous) = new
  BY DEF WithPublished, row
<1>5. \A i \in 1..Len(rows) : new[i] = row(i)
  OBVIOUS
<1> QED
  BY <1>3, <1>4, <1>5 DEF row

-------------------------------------------------------------------------------
(* The invariant                                                           *)

(* What a request has read stays true while another one moves, as long as  *)
(* that one writes only rows it has locked, new rows and longer histories. *)
LEMMA OthersHold ==
  ASSUME RegistryTypeOK, NEW r \in Requests, NEW q \in Requests \ {r},
         request'[q] = request[q],
         RequestHolds(q),
         \A x \in Workflows \cup Credentials : rowLock[x] = q => rowLock'[x] = q,
         \A w \in Workflows :
           /\ Len(versions[w]) <= Len(versions'[w])
           /\ Len(versions'[w]) \in Nat
           /\ versions[w] # <<>> => versions'[w] # <<>>
           /\ \/ versions'[w] = versions[w] /\ active'[w] = active[w]
              \/ rowLock[w] = r
              \/ versions[w] = <<>>,
         \A c \in Credentials :
           \/ credentials'[c] = credentials[c]
           \/ rowLock[c] = r
           \/ credentials[c].state = "absent"
  PROVE  RequestHolds(q)'
<1>1. request[q] \in RequestState
  BY DEF RegistryTypeOK
<1>2. ASSUME At(q, "updating") \/ At(q, "archiving")
      PROVE  RequestHolds(q)'
  <2>1. request[q].credential \in Credentials
    BY <1>2, RequestFields
  <2>2. /\ rowLock[request[q].credential] = q
        /\ Available(request[q].credential)
        /\ At(q, "updating") => credentials[request[q].credential].secret < MaxSecrets
    BY <1>2 DEF RequestHolds
  <2>3. credentials'[request[q].credential] = credentials[request[q].credential]
    BY <2>1, <2>2 DEF Available
  <2>4. rowLock'[request[q].credential] = q
    BY <2>1, <2>2
  <2> QED
    BY <1>2, <2>2, <2>3, <2>4 DEF RequestHolds, At, Available
<1>3. ASSUME At(q, "drafting")
      PROVE  RequestHolds(q)'
  <2>1. request[q].workflow \in Workflows
    BY <1>3, RequestFields
  <2> QED
    BY <1>3, <2>1 DEF RequestHolds, At
<1>4. ASSUME At(q, "draftLocked")
      PROVE  RequestHolds(q)'
  <2>1. request[q].workflow \in Workflows
    BY <1>4, RequestFields
  <2>2. versions[request[q].workflow] # <<>>
    <3>1. Len(versions[request[q].workflow]) \in 1..(MaxVersions - 1)
      BY <1>4 DEF RequestHolds
    <3> QED
      BY <3>1, RegistryAssumption
  <2>3. rowLock[request[q].workflow] = q
    BY <1>4 DEF RequestHolds
  <2>4. versions'[request[q].workflow] = versions[request[q].workflow]
    BY <2>1, <2>2, <2>3
  <2>5. rowLock'[request[q].workflow] = q
    BY <2>1, <2>3
  <2> QED
    BY <1>4, <2>4, <2>5 DEF RequestHolds, At
<1>5. ASSUME At(q, "publishing")
      PROVE  RequestHolds(q)'
  <2>1. request[q].workflow \in Workflows /\ request[q].draft \in 1..MaxVersions
    BY <1>5, RequestFields
  <2>2. request[q].draft = Len(versions[request[q].workflow])
    BY <1>5 DEF RequestHolds
  <2>3. versions[request[q].workflow] # <<>>
    BY <2>1, <2>2, RegistryAssumption
  <2>4. rowLock[request[q].workflow] = q
    BY <1>5 DEF RequestHolds
  <2>5. /\ versions'[request[q].workflow] = versions[request[q].workflow]
        /\ active'[request[q].workflow] = active[request[q].workflow]
    BY <2>1, <2>3, <2>4
  <2>6. rowLock'[request[q].workflow] = q
    BY <2>1, <2>4
  <2> QED
    BY <1>5, <2>5, <2>6 DEF RequestHolds, At
<1>6. ASSUME At(q, "triggering")
      PROVE  RequestHolds(q)'
  <2>1. request[q].workflow \in Workflows /\ request[q].version \in 1..MaxVersions
    BY <1>6, RequestFields
  <2>2. request[q].version \in 1..Len(versions[request[q].workflow])
    BY <1>6 DEF RequestHolds
  <2>3. Len(versions[request[q].workflow]) \in Nat
    BY <2>1 DEF RegistryTypeOK
  <2>4. request[q].version \in 1..Len(versions'[request[q].workflow])
    BY <2>1, <2>2, <2>3, RegistryAssumption
  <2> QED
    BY <1>6, <2>4 DEF RequestHolds, At
<1> QED
  BY <1>2, <1>3, <1>4, <1>5, <1>6 DEF RequestHolds, At

(* A step that leaves workflows and versions alone.                        *)
LEMMA QuietStep ==
  ASSUME RegistryInvariant, NEW r \in Requests, NEW state \in RequestState,
         Goto(r, state),
         UNCHANGED <<versions, active>>,
         credentials' \in [Credentials -> Credential],
         rowLock' \in [Workflows \cup Credentials -> Requests \cup {NoOne}],
         executions' \in SUBSET (Workflows \X (1..MaxVersions)),
         \A q \in Requests \ {r} : \A x \in Workflows \cup Credentials :
           rowLock[x] = q => rowLock'[x] = q,
         \A c \in Credentials :
           \/ credentials'[c] = credentials[c]
           \/ rowLock[c] = r
           \/ credentials[c].state = "absent",
         RequestHolds(r)'
  PROVE  RegistryInvariant'
<1>1. /\ request' \in [Requests -> RequestState]
      /\ \A q \in Requests \ {r} : request'[q] = request[q]
  BY GotoType DEF RegistryInvariant, RegistryTypeOK
<1>2. RegistryTypeOK'
  BY <1>1 DEF RegistryInvariant, RegistryTypeOK
<1>3. ActiveIsPublished' /\ VersionNumbersDiffer'
  BY DEF RegistryInvariant, ActiveIsPublished, VersionNumbersDiffer
<1>4. \A w \in Workflows : Len(versions[w]) \in Nat
  BY DEF RegistryInvariant, RegistryTypeOK
<1>5. ASSUME NEW q \in Requests \ {r}
      PROVE  RequestHolds(q)'
  <2>1. RegistryTypeOK /\ RequestHolds(q) /\ request'[q] = request[q]
    BY <1>1 DEF RegistryInvariant, LockedReadsHold
  <2>2. \A w \in Workflows :
           /\ Len(versions[w]) <= Len(versions'[w])
           /\ Len(versions'[w]) \in Nat
           /\ versions[w] # <<>> => versions'[w] # <<>>
           /\ \/ versions'[w] = versions[w] /\ active'[w] = active[w]
              \/ rowLock[w] = r
              \/ versions[w] = <<>>
    BY <1>4
  <2> QED
    BY <2>1, <2>2, OthersHold
<1>6. LockedReadsHold'
  BY <1>5 DEF LockedReadsHold
<1> QED
  BY <1>2, <1>3, <1>6 DEF RegistryInvariant

-------------------------------------------------------------------------------
(* The actions that leave workflows and versions alone                     *)

(* Creating, rotating and archiving a credential.                          *)
LEMMA CredentialSteps ==
  ASSUME RegistryInvariant, NEW r \in Requests,
         \/ \E c \in Credentials :
              \/ CreateCredentialRecord(r, c)
              \/ LockCredentialForUpdate(r, c)
              \/ LockCredentialForArchive(r, c)
         \/ UpdateCredentialRecord(r)
         \/ ArchiveCredentialRecord(r)
  PROVE  RegistryInvariant'
<1> USE RegistryAssumption
<1>1. RegistryTypeOK /\ RequestHolds(r)
  BY DEF RegistryInvariant, LockedReadsHold
<1>2. ASSUME NEW c \in Credentials, CreateCredentialRecord(r, c)
      PROVE  RegistryInvariant'
  <2>1. credentials' \in [Credentials -> Credential]
    BY <1>1, <1>2 DEF CreateCredentialRecord, RegistryTypeOK, Credential
  <2>2. \A d \in Credentials : credentials'[d] = credentials[d] \/ credentials[d].state = "absent"
    BY <1>1, <1>2 DEF CreateCredentialRecord, RegistryTypeOK
  <2>3. request[r] = Idle /\ request' = request /\ Goto(r, Idle)
    BY <1>1, <1>2 DEF CreateCredentialRecord, Goto, RegistryTypeOK
  <2>4. RequestHolds(r)'
    BY <2>3 DEF RequestHolds, At, Idle
  <2> QED
    BY <1>1, <1>2, <2>1, <2>2, <2>3, <2>4, RequestStates, QuietStep
       DEF CreateCredentialRecord, RegistryTypeOK
<1>3. ASSUME NEW c \in Credentials, LockCredentialForUpdate(r, c)
      PROVE  RegistryInvariant'
  <2> DEFINE state == [step |-> "updating", credential |-> c]
  <2>1. state \in RequestState /\ Goto(r, state) /\ LockRow(r, c)
    BY <1>3, RequestStates DEF LockCredentialForUpdate
  <2>2. request'[r] = state
    BY <1>1, <2>1, GotoType DEF RegistryTypeOK
  <2>3. rowLock'[c] = r
    BY <1>1, <2>1, LockRowType
  <2>4. RequestHolds(r)'
    BY <1>3, <2>2, <2>3 DEF RequestHolds, At, LockCredentialForUpdate, Available
  <2> QED
    BY <1>1, <1>3, <2>1, <2>4, LockRowType, QuietStep DEF LockCredentialForUpdate, RegistryTypeOK
<1>4. ASSUME NEW c \in Credentials, LockCredentialForArchive(r, c)
      PROVE  RegistryInvariant'
  <2> DEFINE state == [step |-> "archiving", credential |-> c]
  <2>1. state \in RequestState /\ Goto(r, state) /\ LockRow(r, c)
    BY <1>4, RequestStates DEF LockCredentialForArchive
  <2>2. request'[r] = state
    BY <1>1, <2>1, GotoType DEF RegistryTypeOK
  <2>3. rowLock'[c] = r
    BY <1>1, <2>1, LockRowType
  <2>4. RequestHolds(r)'
    BY <1>4, <2>2, <2>3 DEF RequestHolds, At, LockCredentialForArchive, Available
  <2> QED
    BY <1>1, <1>4, <2>1, <2>4, LockRowType, QuietStep DEF LockCredentialForArchive, RegistryTypeOK
<1>5. ASSUME UpdateCredentialRecord(r) \/ ArchiveCredentialRecord(r)
      PROVE  RegistryInvariant'
  <2> DEFINE c == request[r].credential
  <2>1. At(r, "updating") \/ At(r, "archiving")
    BY <1>5 DEF UpdateCredentialRecord, ArchiveCredentialRecord
  <2>2. c \in Credentials
    BY <1>1, <2>1, RequestFields
  <2>3. rowLock[c] = r /\ (At(r, "updating") => credentials[c].secret < MaxSecrets)
    BY <1>1, <2>1 DEF RequestHolds
  <2>4. credentials[c] \in Credential
    BY <1>1, <2>2 DEF RegistryTypeOK
  <2>5. /\ credentials' \in [Credentials -> Credential]
        /\ \A d \in Credentials : credentials'[d] = credentials[d] \/ rowLock[d] = r
    <3>1. CASE UpdateCredentialRecord(r)
      <4>1. [state |-> credentials[c].state, secret |-> credentials[c].secret + 1] \in Credential
        BY <2>3, <2>4, <3>1 DEF Credential, UpdateCredentialRecord
      <4> QED
        BY <1>1, <2>2, <2>3, <3>1, <4>1 DEF UpdateCredentialRecord, RegistryTypeOK
    <3>2. CASE ArchiveCredentialRecord(r)
      <4>1. [state |-> "archived", secret |-> credentials[c].secret] \in Credential
        BY <2>4 DEF Credential
      <4> QED
        BY <1>1, <2>2, <2>3, <3>2, <4>1 DEF ArchiveCredentialRecord, RegistryTypeOK
    <3> QED
      BY <1>5, <3>1, <3>2
  <2>6. Goto(r, Idle) /\ UnlockRows(r) /\ UNCHANGED <<versions, active, executions>>
    BY <1>5 DEF UpdateCredentialRecord, ArchiveCredentialRecord
  <2>7. request'[r] = Idle
    BY <1>1, <2>6, RequestStates, GotoType DEF RegistryTypeOK
  <2>8. RequestHolds(r)'
    BY <2>7 DEF RequestHolds, At, Idle
  <2>9. executions' \in SUBSET (Workflows \X (1..MaxVersions))
    BY <1>1, <2>6 DEF RegistryTypeOK
  <2> QED
    BY <1>1, <2>5, <2>6, <2>8, <2>9, RequestStates, UnlockRowsType, QuietStep
<1> QED
  BY <1>2, <1>3, <1>4, <1>5

(* The steps that read or validate and write nothing.                      *)
LEMMA ReadingSteps ==
  ASSUME RegistryInvariant, NEW r \in Requests,
         \/ \E w \in Workflows :
              \/ ReadDraft(r, w)
              \/ ReadActiveVersion(r, w)
              \/ \E uses \in SUBSET Credentials :
                   ValidateWorkflow(r, w, uses) \/ ValidateDraft(r, w, uses)
         \/ ValidatePublication(r)
         \/ AnswerNoActiveVersion(r)
         \/ TriggerExecution(r)
  PROVE  RegistryInvariant'
<1> USE RegistryAssumption
<1>1. /\ RegistryTypeOK /\ ActiveIsPublished /\ RequestHolds(r)
      /\ UNCHANGED <<versions, active, credentials, rowLock>>
  BY DEF RegistryInvariant, LockedReadsHold, ReadDraft, ReadActiveVersion, ValidateWorkflow,
         ValidateDraft, ValidatePublication, AnswerNoActiveVersion, TriggerExecution
<1>2. /\ credentials' \in [Credentials -> Credential]
      /\ rowLock' \in [Workflows \cup Credentials -> Requests \cup {NoOne}]
  BY <1>1 DEF RegistryTypeOK
<1>3. executions' \in SUBSET (Workflows \X (1..MaxVersions))
  <2>1. CASE TriggerExecution(r)
    <3>1. request[r].workflow \in Workflows /\ request[r].version \in 1..MaxVersions
      BY <1>1, <2>1, RequestFields DEF TriggerExecution
    <3> QED
      BY <1>1, <2>1, <3>1 DEF TriggerExecution, RegistryTypeOK
  <2>2. CASE UNCHANGED executions
    BY <1>1, <2>2 DEF RegistryTypeOK
  <2> QED
    BY <2>1, <2>2 DEF ReadDraft, ReadActiveVersion, ValidateWorkflow, ValidateDraft,
         ValidatePublication, AnswerNoActiveVersion
<1>4. ASSUME NEW state \in RequestState, Goto(r, state),
             request'[r] = state => RequestHolds(r)'
      PROVE  RegistryInvariant'
  <2>1. request'[r] = state
    BY <1>1, <1>4, GotoType DEF RegistryTypeOK
  <2> QED
    BY <1>1, <1>2, <1>3, <1>4, <2>1, QuietStep
<1>5. ASSUME NEW w \in Workflows, ReadDraft(r, w)
      PROVE  RegistryInvariant'
  <2> DEFINE state == [step |-> "draftRead", workflow |-> w, draft |-> LatestDraft(w)]
  <2>1. state \in RequestState /\ Goto(r, state)
    BY <1>1, <1>5, LatestDraftIsNewest, RequestStates DEF ReadDraft
  <2> QED
    BY <1>4, <2>1 DEF RequestHolds, At
<1>6. ASSUME NEW w \in Workflows, ReadActiveVersion(r, w)
      PROVE  RegistryInvariant'
  <2>1. CASE active[w] = 0
    <3>1. NoActiveVersion(w) \in RequestState /\ Goto(r, NoActiveVersion(w))
      BY <1>6, <2>1, RequestStates DEF ReadActiveVersion
    <3> QED
      BY <1>4, <3>1 DEF RequestHolds, At, NoActiveVersion
  <2>2. CASE active[w] # 0
    <3> DEFINE state == [step |-> "triggering", workflow |-> w, version |-> active[w]]
    <3>1. active[w] \in 1..Len(versions[w]) /\ active[w] \in 1..MaxVersions
      BY <1>1, <2>2 DEF ActiveIsPublished, RegistryTypeOK
    <3>2. state \in RequestState /\ Goto(r, state)
      BY <1>6, <2>2, <3>1, RequestStates DEF ReadActiveVersion
    <3> QED
      BY <1>1, <1>4, <3>1, <3>2 DEF RequestHolds, At
  <2> QED
    BY <2>1, <2>2
<1>7. ASSUME NEW w \in Workflows, NEW uses \in SUBSET Credentials, ValidateWorkflow(r, w, uses)
      PROVE  RegistryInvariant'
  <2> DEFINE state == [step |-> "creating", workflow |-> w, uses |-> uses]
  <2>1. state \in RequestState /\ Goto(r, state)
    BY <1>7, RequestStates DEF ValidateWorkflow
  <2> QED
    BY <1>4, <2>1 DEF RequestHolds, At
<1>8. ASSUME NEW w \in Workflows, NEW uses \in SUBSET Credentials, ValidateDraft(r, w, uses)
      PROVE  RegistryInvariant'
  <2> DEFINE state == [step |-> "drafting", workflow |-> w, uses |-> uses]
  <2>1. state \in RequestState /\ Goto(r, state)
    BY <1>8, RequestStates DEF ValidateDraft
  <2> QED
    BY <1>1, <1>4, <1>8, <2>1 DEF RequestHolds, At, ValidateDraft
<1>9. ASSUME Goto(r, Idle)
      PROVE  RegistryInvariant'
  BY <1>4, <1>9, RequestStates DEF RequestHolds, At, Idle
<1>10. ASSUME ValidatePublication(r)
       PROVE  RegistryInvariant'
  <2> DEFINE w == request[r].workflow
             state == [step |-> "validated", workflow |-> w]
  <2>1. w \in Workflows
    BY <1>1, <1>10, RequestFields DEF ValidatePublication
  <2>2. Goto(r, state) \/ Goto(r, Idle)
    BY <1>10 DEF ValidatePublication
  <2>3. CASE Goto(r, state)
    BY <1>4, <2>1, <2>3, RequestStates DEF RequestHolds, At
  <2> QED
    BY <1>9, <2>2, <2>3
<1>11. ASSUME TriggerExecution(r)
       PROVE  RegistryInvariant'
  <2> DEFINE w == request[r].workflow
  <2>1. w \in Workflows
    BY <1>1, <1>11, RequestFields DEF TriggerExecution
  <2>2. Goto(r, NoActiveVersion(w)) \/ Goto(r, Idle)
    BY <1>11 DEF TriggerExecution
  <2>3. CASE Goto(r, NoActiveVersion(w))
    <3>1. NoActiveVersion(w) \in RequestState
      BY <2>1, RequestStates
    <3>2. request'[r] = NoActiveVersion(w) => RequestHolds(r)'
      BY DEF RequestHolds, At, NoActiveVersion
    <3> QED
      BY <1>4, <2>3, <3>1, <3>2
  <2> QED
    BY <1>9, <2>2, <2>3
<1> QED
  BY <1>5, <1>6, <1>7, <1>8, <1>9, <1>10, <1>11 DEF AnswerNoActiveVersion

-------------------------------------------------------------------------------
(* The actions that lock or write a workflow                               *)

(* Taking the lock for a draft or for a publication.                       *)
LEMMA LockingSteps ==
  ASSUME RegistryInvariant, NEW r \in Requests, LockForDraft(r) \/ LockForPublication(r)
  PROVE  RegistryInvariant'
<1> USE RegistryAssumption
<1> DEFINE w == request[r].workflow
<1>1. /\ RegistryTypeOK /\ ActiveIsPublished /\ VersionNumbersDiffer /\ RequestHolds(r)
      /\ UNCHANGED <<versions, active, credentials, executions>>
  BY DEF RegistryInvariant, LockedReadsHold, LockForDraft, LockForPublication
<1>2. /\ credentials' \in [Credentials -> Credential]
      /\ executions' \in SUBSET (Workflows \X (1..MaxVersions))
  BY <1>1 DEF RegistryTypeOK
<1>3. w \in Workflows
  BY <1>1, RequestFields DEF LockForDraft, LockForPublication
<1>4. ASSUME LockForDraft(r)
      PROVE  RegistryInvariant'
  <2> DEFINE state == [step |-> "draftLocked", workflow |-> w, uses |-> request[r].uses,
                       latest |-> LatestVersionNo(w)]
  <2>1. Goto(r, state) /\ LockRow(r, w) /\ At(r, "drafting") /\ Len(versions[w]) < MaxVersions
    BY <1>4 DEF LockForDraft
  <2>2. versions[w] # <<>> /\ request[r].uses \in SUBSET Credentials
    BY <1>1, <2>1, RequestFields DEF RequestHolds
  <2>3. LatestVersionNo(w) = Len(versions[w]) /\ Len(versions[w]) \in 1..(MaxVersions - 1)
    <3>1. Len(versions[w]) \in Nat \ {0}
      BY <1>1, <1>3, <2>2, EmptySeq DEF RegistryTypeOK
    <3> QED
      BY <1>1, <1>3, <2>1, <3>1, LatestNoIsLength
  <2>4. state \in RequestState
    <3>1. LatestVersionNo(w) \in 0..MaxVersions
      BY <2>3
    <3> QED
      BY <1>3, <2>2, <3>1 DEF RequestState
  <2>5. request'[r] = state
    BY <1>1, <2>1, <2>4, GotoType DEF RegistryTypeOK
  <2>6. rowLock'[w] = r
    BY <1>1, <1>3, <2>1, LockRowType
  <2>7. RequestHolds(r)'
    BY <1>1, <2>3, <2>5, <2>6 DEF RequestHolds, At
  <2>8. /\ rowLock' \in [Workflows \cup Credentials -> Requests \cup {NoOne}]
        /\ \A q \in Requests \ {r} : \A x \in Workflows \cup Credentials :
             rowLock[x] = q => rowLock'[x] = q
    BY <1>1, <1>3, <2>1, LockRowType
  <2> HIDE DEF state, w
  <2> QED
    BY <1>1, <1>2, <2>1, <2>4, <2>7, <2>8, QuietStep
<1>5. ASSUME LockForPublication(r), LatestDraft(w) # 0
      PROVE  RegistryInvariant'
  <2> DEFINE state == [step |-> "publishing", workflow |-> w, draft |-> LatestDraft(w),
                       previous |-> active[w]]
  <2>1. Goto(r, state) /\ LockRow(r, w)
    BY <1>5 DEF LockForPublication
  <2>2. /\ LatestDraft(w) \in 1..MaxVersions
        /\ LatestDraft(w) = Len(versions[w])
        /\ versions[w][LatestDraft(w)].status = "draft"
    BY <1>1, <1>3, <1>5, LatestDraftIsNewest
  <2>3. active[w] \in 0..MaxVersions
    BY <1>1, <1>3 DEF RegistryTypeOK
  <2>4. state \in RequestState
    BY <1>3, <2>2, <2>3, RequestStates
  <2>5. request'[r] = state
    BY <1>1, <2>1, <2>4, GotoType DEF RegistryTypeOK
  <2>6. rowLock'[w] = r
    BY <1>1, <1>3, <2>1, LockRowType
  <2>7. RequestHolds(r)'
    BY <1>1, <2>2, <2>5, <2>6 DEF RequestHolds, At
  <2>8. /\ rowLock' \in [Workflows \cup Credentials -> Requests \cup {NoOne}]
        /\ \A q \in Requests \ {r} : \A x \in Workflows \cup Credentials :
             rowLock[x] = q => rowLock'[x] = q
    BY <1>1, <1>3, <2>1, LockRowType
  <2> HIDE DEF state, w
  <2> QED
    BY <1>1, <1>2, <2>1, <2>4, <2>7, <2>8, QuietStep
<1>6. ASSUME LockForPublication(r), LatestDraft(w) = 0
      PROVE  RegistryInvariant'
  <2>1. Goto(r, Idle) /\ UNCHANGED rowLock
    BY <1>6 DEF LockForPublication
  <2>2. request'[r] = Idle
    BY <1>1, <2>1, RequestStates, GotoType DEF RegistryTypeOK
  <2>3. RequestHolds(r)'
    BY <2>2 DEF RequestHolds, At, Idle
  <2>4. rowLock' \in [Workflows \cup Credentials -> Requests \cup {NoOne}]
    BY <1>1, <2>1 DEF RegistryTypeOK
  <2> QED
    BY <1>1, <1>2, <2>1, <2>3, <2>4, RequestStates, QuietStep
<1> QED
  BY <1>4, <1>5, <1>6

(* A request that dies releases its locks and writes nothing.              *)
LEMMA DyingStep ==
  ASSUME RegistryInvariant, NEW r \in Requests, RequestDies(r)
  PROVE  RegistryInvariant'
<1>1. /\ RegistryTypeOK /\ Goto(r, Idle) /\ UnlockRows(r)
      /\ UNCHANGED <<versions, active, credentials, executions>>
  BY DEF RegistryInvariant, RequestDies
<1>2. request'[r] = Idle
  BY <1>1, RequestStates, GotoType DEF RegistryTypeOK
<1>3. RequestHolds(r)'
  BY <1>2 DEF RequestHolds, At, Idle
<1>4. /\ credentials' \in [Credentials -> Credential]
      /\ executions' \in SUBSET (Workflows \X (1..MaxVersions))
  BY <1>1 DEF RegistryTypeOK
<1> QED
  BY <1>1, <1>3, <1>4, RequestStates, UnlockRowsType, QuietStep

(* A request that writes the versions of one workflow, which is new or     *)
(* whose lock it holds, and is done.                                       *)
LEMMA WritingStep ==
  ASSUME RegistryInvariant, NEW r \in Requests, NEW w \in Workflows, NEW rows \in Seq(Version),
         Goto(r, Idle),
         UnlockRows(r) \/ UNCHANGED rowLock,
         UNCHANGED <<credentials, executions>>,
         rowLock[w] = r \/ versions[w] = <<>>,
         versions' = [versions EXCEPT ![w] = rows],
         active' \in [Workflows -> 0..MaxVersions],
         \A x \in Workflows \ {w} : active'[x] = active[x],
         rows # <<>>, Len(versions[w]) <= Len(rows), Len(rows) <= MaxVersions,
         active'[w] \in 0..Len(rows),
         \A i \in 1..Len(rows) :
           /\ rows[i].versionNo = i
           /\ rows[i].status = "published" <=> i = active'[w]
           /\ rows[i].status = "draft" => i = Len(rows)
  PROVE  RegistryInvariant'
<1>1. RegistryTypeOK /\ ActiveIsPublished /\ VersionNumbersDiffer
  BY DEF RegistryInvariant
<1>2. versions'[w] = rows /\ \A x \in Workflows \ {w} : versions'[x] = versions[x]
  BY <1>1 DEF RegistryTypeOK
<1>3. /\ request' \in [Requests -> RequestState]
      /\ request'[r] = Idle
      /\ \A q \in Requests \ {r} : request'[q] = request[q]
  BY <1>1, RequestStates, GotoType DEF RegistryTypeOK
<1>4. /\ rowLock' \in [Workflows \cup Credentials -> Requests \cup {NoOne}]
      /\ \A q \in Requests \ {r} : \A x \in Workflows \cup Credentials :
           rowLock[x] = q => rowLock'[x] = q
  BY <1>1, UnlockRowsType DEF RegistryTypeOK
<1>5. RegistryTypeOK'
  <2>1. versions' \in [Workflows -> Seq(Version)]
    BY <1>1 DEF RegistryTypeOK
  <2>2. \A x \in Workflows : Len(versions'[x]) <= MaxVersions
    BY <1>1, <1>2 DEF RegistryTypeOK
  <2> QED
    BY <1>1, <1>3, <1>4, <2>1, <2>2 DEF RegistryTypeOK
<1>6. ActiveIsPublished'
  BY <1>1, <1>2 DEF ActiveIsPublished
<1>7. VersionNumbersDiffer'
  BY <1>1, <1>2 DEF VersionNumbersDiffer
<1>8. \A x \in Workflows :
        /\ Len(versions[x]) <= Len(versions'[x])
        /\ Len(versions'[x]) \in Nat
        /\ versions[x] # <<>> => versions'[x] # <<>>
        /\ \/ versions'[x] = versions[x] /\ active'[x] = active[x]
           \/ rowLock[x] = r
           \/ versions[x] = <<>>
  BY <1>1, <1>2 DEF RegistryTypeOK
<1>9. LockedReadsHold'
  <2>1. ASSUME NEW q \in Requests \ {r}
        PROVE  RequestHolds(q)'
    <3>1. RequestHolds(q)
      BY DEF RegistryInvariant, LockedReadsHold
    <3> QED
      BY <1>1, <1>3, <1>4, <1>8, <3>1, OthersHold
  <2>2. RequestHolds(r)'
    BY <1>3 DEF RequestHolds, At, Idle
  <2> QED
    BY <2>1, <2>2 DEF LockedReadsHold
<1> QED
  BY <1>5, <1>6, <1>7, <1>9 DEF RegistryInvariant

(* createWorkflowWithInitialVersion                                        *)
LEMMA CreatingStep ==
  ASSUME RegistryInvariant, NEW r \in Requests, CreateWorkflowWithInitialVersion(r)
  PROVE  RegistryInvariant'
<1> USE RegistryAssumption
<1> DEFINE w == request[r].workflow
           rows == <<DraftVersion(1, request[r].uses)>>
<1>1. RegistryTypeOK /\ ActiveIsPublished /\ At(r, "creating")
  BY DEF RegistryInvariant, CreateWorkflowWithInitialVersion
<1>2. w \in Workflows /\ request[r].uses \in SUBSET Credentials
  BY <1>1, RequestFields
<1>3. DraftVersion(1, request[r].uses) \in Version
  BY <1>2 DEF DraftVersion, Version
<1>4. /\ rows \in Seq(Version) /\ rows # <<>> /\ Len(rows) = 1
      /\ rows[1].versionNo = 1 /\ rows[1].status = "draft"
  BY <1>3 DEF DraftVersion
<1>5. /\ versions[w] = <<>>
      /\ versions' = [versions EXCEPT ![w] = rows]
      /\ Goto(r, Idle)
      /\ UNCHANGED <<active, credentials, rowLock, executions>>
  BY DEF CreateWorkflowWithInitialVersion
<1>6. active'[w] = 0 /\ active' \in [Workflows -> 0..MaxVersions]
  BY <1>1, <1>2, <1>5 DEF ActiveIsPublished, RegistryTypeOK
<1>7. /\ Len(versions[w]) <= Len(rows) /\ Len(rows) <= MaxVersions
      /\ active'[w] \in 0..Len(rows)
      /\ \A i \in 1..Len(rows) :
           /\ rows[i].versionNo = i
           /\ rows[i].status = "published" <=> i = active'[w]
           /\ rows[i].status = "draft" => i = Len(rows)
  BY <1>4, <1>5, <1>6
<1> HIDE DEF rows, w
<1> QED
  BY <1>2, <1>4, <1>5, <1>6, <1>7, WritingStep

(* createDraftWorkflowVersion                                              *)
LEMMA DraftingStep ==
  ASSUME RegistryInvariant, NEW r \in Requests, CreateDraftWorkflowVersion(r)
  PROVE  RegistryInvariant'
<1> USE RegistryAssumption
<1> DEFINE w == request[r].workflow
           draft == DraftVersion(request[r].latest + 1, request[r].uses)
           rows == WithNewDraft(versions[w], draft)
<1>1. /\ RegistryTypeOK /\ ActiveIsPublished /\ VersionNumbersDiffer
      /\ RequestHolds(r) /\ At(r, "draftLocked")
  BY DEF RegistryInvariant, LockedReadsHold, CreateDraftWorkflowVersion
<1>2. w \in Workflows /\ request[r].uses \in SUBSET Credentials
  BY <1>1, RequestFields
<1>3. /\ rowLock[w] = r
      /\ request[r].latest = Len(versions[w])
      /\ request[r].latest \in 1..(MaxVersions - 1)
  BY <1>1 DEF RequestHolds
<1>4. versions[w] \in Seq(Version) /\ Len(versions[w]) \in Nat
  BY <1>1, <1>2 DEF RegistryTypeOK
<1>5. draft \in Version /\ draft.versionNo = Len(versions[w]) + 1 /\ draft.status = "draft"
  BY <1>2, <1>3, <1>4 DEF DraftVersion, Version
<1> HIDE DEF draft
<1>6. /\ rows \in Seq(Version)
      /\ Len(rows) = Len(versions[w]) + 1
      /\ rows[Len(versions[w]) + 1] = draft
      /\ \A i \in 1..Len(versions[w]) :
           rows[i] = IF versions[w][i].status = "draft"
                       THEN Retired(versions[w][i]) ELSE versions[w][i]
  BY <1>4, <1>5, WithNewDraftRows
<1> HIDE DEF rows
<1>7. \A i \in 1..Len(versions[w]) :
        /\ rows[i].versionNo = versions[w][i].versionNo
        /\ rows[i].status = "published" <=> versions[w][i].status = "published"
        /\ rows[i].status # "draft"
  <2> SUFFICES ASSUME NEW i \in 1..Len(versions[w])
               PROVE  /\ rows[i].versionNo = versions[w][i].versionNo
                      /\ rows[i].status = "published" <=> versions[w][i].status = "published"
                      /\ rows[i].status # "draft"
    OBVIOUS
  <2>1. versions[w][i] \in Version
    BY <1>4
  <2> QED
    BY <1>6, <2>1 DEF Retired, Version
<1>8. /\ versions' = [versions EXCEPT ![w] = rows]
      /\ Goto(r, Idle) /\ UnlockRows(r)
      /\ UNCHANGED <<active, credentials, executions>>
  BY DEF CreateDraftWorkflowVersion, rows, draft
<1>9. /\ active'[w] = active[w] /\ active[w] \in 0..Len(versions[w])
      /\ active' \in [Workflows -> 0..MaxVersions]
  BY <1>1, <1>2, <1>8 DEF ActiveIsPublished, RegistryTypeOK
<1>10. ASSUME NEW i \in 1..Len(rows)
       PROVE  /\ rows[i].versionNo = i
              /\ rows[i].status = "published" <=> i = active'[w]
              /\ rows[i].status = "draft" => i = Len(rows)
  <2>1. CASE i = Len(versions[w]) + 1
    BY <1>4, <1>5, <1>6, <1>9, <2>1
  <2>2. CASE i \in 1..Len(versions[w])
    BY <1>1, <1>2, <1>7, <1>9, <2>2 DEF VersionNumbersDiffer, ActiveIsPublished
  <2> QED
    BY <1>4, <1>6, <2>1, <2>2
<1>11. /\ rows # <<>> /\ Len(versions[w]) <= Len(rows) /\ Len(rows) <= MaxVersions
       /\ active'[w] \in 0..Len(rows)
  BY <1>3, <1>4, <1>6, <1>9
<1> HIDE DEF w
<1> QED
  BY <1>2, <1>3, <1>6, <1>8, <1>9, <1>10, <1>11, WritingStep

(* publishLatestDraftVersion                                               *)
LEMMA PublishingStep ==
  ASSUME RegistryInvariant, NEW r \in Requests, PublishLatestDraftVersion(r)
  PROVE  RegistryInvariant'
<1> USE RegistryAssumption
<1> DEFINE w == request[r].workflow
           draft == request[r].draft
           previous == request[r].previous
           rows == WithPublished(versions[w], draft, previous)
<1>1. /\ RegistryTypeOK /\ ActiveIsPublished /\ VersionNumbersDiffer
      /\ RequestHolds(r) /\ At(r, "publishing")
  BY DEF RegistryInvariant, LockedReadsHold, PublishLatestDraftVersion
<1>2. w \in Workflows /\ draft \in 1..MaxVersions /\ previous \in 0..MaxVersions
  BY <1>1, RequestFields
<1>3. /\ rowLock[w] = r
      /\ draft = Len(versions[w])
      /\ versions[w][draft].status = "draft"
      /\ previous = active[w]
  BY <1>1 DEF RequestHolds
<1>4. versions[w] \in Seq(Version) /\ draft \in 1..Len(versions[w]) /\ previous \in Nat
  BY <1>1, <1>2, <1>3 DEF RegistryTypeOK
<1>5. /\ rows \in Seq(Version)
      /\ Len(rows) = Len(versions[w])
      /\ \A i \in 1..Len(versions[w]) :
           rows[i] = IF i = draft THEN Published(versions[w][i])
                     ELSE IF i = previous /\ versions[w][i].status = "published"
                       THEN Retired(versions[w][i])
                     ELSE versions[w][i]
  BY <1>4, WithPublishedRows
<1>6. /\ versions' = [versions EXCEPT ![w] = rows]
      /\ active' = [active EXCEPT ![w] = draft]
      /\ Goto(r, Idle) /\ UnlockRows(r)
      /\ UNCHANGED <<credentials, executions>>
  BY DEF PublishLatestDraftVersion
<1> HIDE DEF rows
<1>7. /\ active'[w] = draft
      /\ active' \in [Workflows -> 0..MaxVersions]
      /\ \A x \in Workflows \ {w} : active'[x] = active[x]
  BY <1>1, <1>2, <1>6 DEF RegistryTypeOK
<1>8. ASSUME NEW i \in 1..Len(rows)
      PROVE  /\ rows[i].versionNo = i
             /\ rows[i].status = "published" <=> i = active'[w]
             /\ rows[i].status = "draft" => i = Len(rows)
  <2>1. i \in 1..Len(versions[w]) /\ versions[w][i] \in Version
    BY <1>4, <1>5
  <2>2. /\ versions[w][i].versionNo = i
        /\ versions[w][i].status = "published" <=> i = active[w]
        /\ versions[w][i].status = "draft" => i = Len(versions[w])
    BY <1>1, <1>2, <2>1 DEF VersionNumbersDiffer, ActiveIsPublished
  <2>3. CASE i = draft
    BY <1>5, <1>7, <2>1, <2>2, <2>3 DEF Published, Version
  <2>4. CASE i # draft
    BY <1>3, <1>5, <1>7, <2>1, <2>2, <2>4 DEF Retired, Version
  <2> QED
    BY <2>3, <2>4
<1>9. /\ rows # <<>> /\ Len(versions[w]) <= Len(rows) /\ Len(rows) <= MaxVersions
      /\ active'[w] \in 0..Len(rows)
  <2>1. Len(rows) = draft
    BY <1>3, <1>5
  <2>2. rows # <<>>
    BY <1>2, <2>1
  <2> QED
    BY <1>2, <1>3, <1>7, <2>1, <2>2
<1> HIDE DEF w, draft, previous
<1> QED
  BY <1>2, <1>3, <1>5, <1>6, <1>7, <1>8, <1>9, WritingStep

-------------------------------------------------------------------------------
(* Theorems                                                                *)

(* The invariant holds at the start and is kept by every step.             *)
LEMMA InvariantHolds == RegistrySpec => []RegistryInvariant
<1>1. Init => RegistryInvariant
  <2> SUFFICES ASSUME Init PROVE RegistryInvariant
    OBVIOUS
  <2>1. RegistryTypeOK
    BY RegistryAssumption, RequestStates DEF Init, RegistryTypeOK, Credential
  <2>2. ActiveIsPublished /\ VersionNumbersDiffer
    BY DEF Init, ActiveIsPublished, VersionNumbersDiffer
  <2>3. LockedReadsHold
    BY DEF Init, LockedReadsHold, RequestHolds, At, Idle
  <2> QED
    BY <2>1, <2>2, <2>3 DEF RegistryInvariant
<1>2. RegistryInvariant /\ [Next]_vars => RegistryInvariant'
  <2> SUFFICES ASSUME RegistryInvariant, [Next]_vars PROVE RegistryInvariant'
    OBVIOUS
  <2>1. CASE UNCHANGED vars
    BY <2>1 DEF vars, RegistryInvariant, RegistryTypeOK, ActiveIsPublished,
         VersionNumbersDiffer, LockedReadsHold, RequestHolds, At, Available
  <2>2. CASE Next
    BY <2>2, CredentialSteps, ReadingSteps, LockingSteps, DyingStep, CreatingStep,
       DraftingStep, PublishingStep DEF Next
  <2> QED
    BY <2>1, <2>2
<1> QED
  BY <1>1, <1>2, PTL DEF RegistrySpec

(* Type correctness of workflows, versions, credentials and requests.      *)
THEOREM RegistryTypeCorrect == RegistrySpec => []RegistryTypeOK
<1>1. RegistryInvariant => RegistryTypeOK
  BY DEF RegistryInvariant
<1> QED
  BY <1>1, InvariantHolds, PTL

(* At most one published version, named by activeVersionId, and at most    *)
(* one draft, which is the newest version.                                 *)
THEOREM OneActiveVersion == RegistrySpec => []ActiveIsPublished
<1>1. RegistryInvariant => ActiveIsPublished
  BY DEF RegistryInvariant
<1> QED
  BY <1>1, InvariantHolds, PTL

(* Concurrent requests never allocate the same version number.             *)
THEOREM VersionNumbersUnique == RegistrySpec => []VersionNumbersDiffer
<1>1. RegistryInvariant => VersionNumbersDiffer
  BY DEF RegistryInvariant
<1> QED
  BY <1>1, InvariantHolds, PTL

(* What was read under a lock is true until the transaction commits.       *)
THEOREM LockedReadsStay == RegistrySpec => []LockedReadsHold
<1>1. RegistryInvariant => LockedReadsHold
  BY DEF RegistryInvariant
<1> QED
  BY <1>1, InvariantHolds, PTL

(* Only three operations write versions or the active version.             *)
LEMMA WritersOfVersions ==
  ASSUME [Next]_vars, UNCHANGED <<versions, active>> => FALSE
  PROVE  \E r \in Requests :
           \/ CreateWorkflowWithInitialVersion(r)
           \/ CreateDraftWorkflowVersion(r)
           \/ PublishLatestDraftVersion(r)
BY DEF Next, vars, CreateCredentialRecord, LockCredentialForUpdate, LockCredentialForArchive,
       ReadDraft, ReadActiveVersion, ValidateWorkflow, ValidateDraft, UpdateCredentialRecord,
       ArchiveCredentialRecord, LockForDraft, ValidatePublication, LockForPublication,
       TriggerExecution, AnswerNoActiveVersion, RequestDies

(* No step changes what a version holds.                                   *)
LEMMA VersionsKept == RegistryInvariant /\ [Next]_vars => \A w \in Workflows : KeepsVersions(w)
<1> SUFFICES ASSUME RegistryInvariant, [Next]_vars, NEW w \in Workflows
             PROVE  KeepsVersions(w)
  OBVIOUS
<1> USE RegistryAssumption
<1>1. /\ RegistryTypeOK /\ LockedReadsHold
      /\ versions[w] \in Seq(Version) /\ Len(versions[w]) \in Nat
  BY DEF RegistryInvariant, RegistryTypeOK
<1>2. CASE versions'[w] = versions[w]
  BY <1>1, <1>2 DEF KeepsVersions
<1>3. ASSUME NEW r \in Requests, CreateWorkflowWithInitialVersion(r), versions'[w] # versions[w]
      PROVE  KeepsVersions(w)
  <2>1. w = request[r].workflow /\ versions[w] = <<>>
    BY <1>1, <1>3 DEF CreateWorkflowWithInitialVersion, RegistryTypeOK
  <2>2. versions'[w] = <<DraftVersion(1, request[r].uses)>>
    BY <1>1, <1>3, <2>1 DEF CreateWorkflowWithInitialVersion, RegistryTypeOK
  <2> QED
    BY <2>1, <2>2 DEF KeepsVersions
<1>4. ASSUME NEW r \in Requests, CreateDraftWorkflowVersion(r), versions'[w] # versions[w]
      PROVE  KeepsVersions(w)
  <2> DEFINE draft == DraftVersion(request[r].latest + 1, request[r].uses)
  <2>1. At(r, "draftLocked") /\ w = request[r].workflow
    BY <1>1, <1>4 DEF CreateDraftWorkflowVersion, RegistryTypeOK
  <2>2. draft \in Version
    <3>1. request[r].uses \in SUBSET Credentials
      BY <1>1, <2>1, RequestFields
    <3>2. request[r].latest \in Nat
      BY <1>1, <2>1 DEF LockedReadsHold, RequestHolds
    <3> QED
      BY <3>1, <3>2 DEF DraftVersion, Version
  <2>3. versions'[w] = WithNewDraft(versions[w], draft)
    BY <1>1, <1>4, <2>1 DEF CreateDraftWorkflowVersion, RegistryTypeOK
  <2> HIDE DEF draft
  <2> DEFINE rows == WithNewDraft(versions[w], draft)
  <2>4. /\ Len(rows) = Len(versions[w]) + 1
        /\ \A i \in 1..Len(versions[w]) :
             rows[i] = IF versions[w][i].status = "draft"
                         THEN Retired(versions[w][i]) ELSE versions[w][i]
    BY <1>1, <2>2, WithNewDraftRows
  <2> HIDE DEF rows
  <2>5. ASSUME NEW i \in 1..Len(versions[w])
        PROVE  /\ rows[i].versionNo = versions[w][i].versionNo
               /\ rows[i].uses = versions[w][i].uses
               /\ versions[w][i].status = "retired" => rows[i] = versions[w][i]
    <3>1. versions[w][i] \in Version
      BY <1>1
    <3> QED
      BY <2>4, <3>1 DEF Retired, Version
  <2>6. versions'[w] = rows
    BY <2>3 DEF rows
  <2> QED
    BY <1>1, <2>4, <2>5, <2>6 DEF KeepsVersions
<1>5. ASSUME NEW r \in Requests, PublishLatestDraftVersion(r), versions'[w] # versions[w]
      PROVE  KeepsVersions(w)
  <2> DEFINE draft == request[r].draft
             previous == request[r].previous
  <2>1. At(r, "publishing") /\ w = request[r].workflow
    BY <1>1, <1>5 DEF PublishLatestDraftVersion, RegistryTypeOK
  <2>2. /\ draft = Len(versions[w]) /\ draft \in 1..Len(versions[w])
        /\ previous \in Nat
        /\ versions[w][draft].status = "draft"
    BY <1>1, <2>1, RequestFields DEF LockedReadsHold, RequestHolds
  <2>3. versions'[w] = WithPublished(versions[w], draft, previous)
    BY <1>1, <1>5, <2>1 DEF PublishLatestDraftVersion, RegistryTypeOK
  <2> HIDE DEF draft, previous
  <2> DEFINE rows == WithPublished(versions[w], draft, previous)
  <2>4. /\ Len(rows) = Len(versions[w])
        /\ \A i \in 1..Len(versions[w]) :
             rows[i] =
               IF i = draft THEN Published(versions[w][i])
               ELSE IF i = previous /\ versions[w][i].status = "published"
                 THEN Retired(versions[w][i])
               ELSE versions[w][i]
    BY <1>1, <2>2, WithPublishedRows
  <2> HIDE DEF rows
  <2>5. ASSUME NEW i \in 1..Len(versions[w])
        PROVE  /\ rows[i].versionNo = versions[w][i].versionNo
               /\ rows[i].uses = versions[w][i].uses
               /\ versions[w][i].status = "retired" => rows[i] = versions[w][i]
    <3>1. versions[w][i] \in Version
      BY <1>1
    <3> QED
      BY <2>2, <2>4, <3>1 DEF Retired, Published, Version
  <2>6. versions'[w] = rows
    BY <2>3 DEF rows
  <2> QED
    BY <1>1, <2>4, <2>5, <2>6 DEF KeepsVersions
<1> QED
  BY <1>2, <1>3, <1>4, <1>5, WritersOfVersions

(* Version content is immutable after creation, and a retired version      *)
(* never returns.                                                          *)
THEOREM VersionContentIsImmutable == RegistrySpec => VersionsAreImmutable
BY VersionsKept, InvariantHolds, PTL DEF RegistrySpec, VersionsAreImmutable

(* A publication never brings back a version older than the active one.    *)
THEOREM ActiveVersionNeverGoesBack == RegistrySpec => ActiveVersionMovesForward
<1>1. RegistryInvariant /\ [Next]_vars => \A w \in Workflows : active[w] <= active'[w]
  <2> SUFFICES ASSUME RegistryInvariant, [Next]_vars, NEW w \in Workflows
               PROVE  active[w] <= active'[w]
    OBVIOUS
  <2> USE RegistryAssumption
  <2>1. RegistryTypeOK /\ LockedReadsHold /\ active[w] \in 0..Len(versions[w])
    BY DEF RegistryInvariant, ActiveIsPublished
  <2>2. CASE active'[w] = active[w]
    BY <2>1, <2>2 DEF RegistryTypeOK
  <2>3. ASSUME NEW r \in Requests, PublishLatestDraftVersion(r), active'[w] # active[w]
        PROVE  active[w] <= active'[w]
    <3>1. /\ At(r, "publishing") /\ w = request[r].workflow
          /\ active'[w] = request[r].draft
      BY <2>1, <2>3 DEF PublishLatestDraftVersion, RegistryTypeOK
    <3>2. request[r].draft = Len(versions[w]) /\ Len(versions[w]) \in Nat
      BY <2>1, <3>1 DEF LockedReadsHold, RequestHolds, RegistryTypeOK
    <3> QED
      BY <2>1, <3>1, <3>2
  <2> QED
    BY <2>2, <2>3, WritersOfVersions
       DEF CreateWorkflowWithInitialVersion, CreateDraftWorkflowVersion
<1> QED
  BY <1>1, InvariantHolds, PTL DEF RegistrySpec, ActiveVersionMovesForward

(* An execution runs the version that is active when its trigger reads it. *)
THEOREM ExecutionsStartActive == RegistrySpec => ExecutionsRunActiveVersion
<1>1. RegistryInvariant /\ [Next]_vars =>
        \A run \in executions' \ executions : run[2] = active[run[1]]
  <2> SUFFICES ASSUME RegistryInvariant, [Next]_vars, NEW run \in executions' \ executions
               PROVE  run[2] = active[run[1]]
    OBVIOUS
  <2>1. PICK r \in Requests : TriggerExecution(r)
    BY DEF Next, vars, CreateCredentialRecord, LockCredentialForUpdate, LockCredentialForArchive,
       ReadDraft, ReadActiveVersion, ValidateWorkflow, ValidateDraft, UpdateCredentialRecord,
       ArchiveCredentialRecord, LockForDraft, ValidatePublication, LockForPublication,
       AnswerNoActiveVersion, RequestDies, CreateWorkflowWithInitialVersion,
       CreateDraftWorkflowVersion, PublishLatestDraftVersion
  <2> DEFINE w == request[r].workflow
             version == request[r].version
  <2>2. run = <<w, version>> /\ Runs(w, version) /\ At(r, "triggering")
    BY <2>1 DEF TriggerExecution
  <2>3. w \in Workflows /\ version \in 1..Len(versions[w])
    BY <2>2, RequestFields DEF RegistryInvariant, LockedReadsHold, RequestHolds
  <2>4. version = active[w]
    BY <2>2, <2>3 DEF RegistryInvariant, ActiveIsPublished, Runs
  <2> QED
    BY <2>2, <2>4
<1> QED
  BY <1>1, InvariantHolds, PTL DEF RegistrySpec, ExecutionsRunActiveVersion

(* Nothing is written to an archived credential.                           *)
THEOREM ArchivedCredentialsStay == RegistrySpec => ArchivedCredentialsAreFinal
<1>1. RegistryInvariant /\ [Next]_vars =>
        \A c \in Credentials :
          credentials[c].state = "archived" => credentials'[c] = credentials[c]
  <2> SUFFICES ASSUME RegistryInvariant, [Next]_vars, NEW c \in Credentials,
                      credentials[c].state = "archived"
               PROVE  credentials'[c] = credentials[c]
    OBVIOUS
  <2>1. RegistryTypeOK /\ LockedReadsHold
    BY DEF RegistryInvariant
  <2>2. ASSUME NEW r \in Requests, UpdateCredentialRecord(r) \/ ArchiveCredentialRecord(r)
        PROVE  credentials'[c] = credentials[c]
    <3>1. Available(request[r].credential)
      BY <2>1, <2>2 DEF LockedReadsHold, RequestHolds, UpdateCredentialRecord,
           ArchiveCredentialRecord
    <3>2. request[r].credential # c
      BY <3>1 DEF Available
    <3> QED
      BY <2>1, <2>2, <3>2 DEF UpdateCredentialRecord, ArchiveCredentialRecord, RegistryTypeOK
  <2>3. ASSUME NEW r \in Requests, NEW d \in Credentials, CreateCredentialRecord(r, d)
        PROVE  credentials'[c] = credentials[c]
    BY <2>1, <2>3 DEF CreateCredentialRecord, RegistryTypeOK
  <2>4. CASE UNCHANGED credentials
    BY <2>4
  <2> QED
    BY <2>2, <2>3, <2>4 DEF Next, vars, LockCredentialForUpdate, LockCredentialForArchive,
       ReadDraft, ReadActiveVersion, ValidateWorkflow, ValidateDraft,
       LockForDraft, ValidatePublication, LockForPublication, TriggerExecution,
       AnswerNoActiveVersion, RequestDies, CreateWorkflowWithInitialVersion,
       CreateDraftWorkflowVersion, PublishLatestDraftVersion
<1> QED
  BY <1>1, InvariantHolds, PTL DEF RegistrySpec, ArchivedCredentialsAreFinal

(* A trigger that is refused although a version is active had read another *)
(* one: nothing but a publication between its two statements can refuse it. *)
THEOREM RefusedTriggersLost == RegistrySpec => TriggersLoseOnlyToPublication
<1> DEFINE Refused(r) == At(r, "noActiveVersion")' /\ ~At(r, "noActiveVersion")
           Lost(r) == LET w == request'[r].workflow IN
                        active[w] = 0 \/ (At(r, "triggering") /\ request[r].version # active[w])
<1>1. RegistryInvariant /\ [Next]_vars => \A r \in Requests : Refused(r) => Lost(r)
  <2> SUFFICES ASSUME RegistryInvariant, [Next]_vars, NEW r \in Requests, Refused(r)
               PROVE  Lost(r)
    OBVIOUS
  <2>1. DOMAIN request = Requests
    BY DEF RegistryInvariant, RegistryTypeOK
  <2>2. ASSUME NEW s \in Requests, NEW state, Goto(s, state), s # r \/ state.step # "noActiveVersion"
        PROVE  FALSE
    BY <2>1, <2>2 DEF At, Goto
  <2>3. ASSUME UNCHANGED request PROVE FALSE
    BY <2>3 DEF At
  <2>4. ASSUME NEW s \in Requests, NEW c \in Credentials,
               LockCredentialForUpdate(s, c) \/ LockCredentialForArchive(s, c)
        PROVE  FALSE
    BY <2>2, <2>4 DEF LockCredentialForUpdate, LockCredentialForArchive
  <2>5. ASSUME NEW s \in Requests, NEW w \in Workflows, NEW uses \in SUBSET Credentials,
               ValidateWorkflow(s, w, uses) \/ ValidateDraft(s, w, uses)
        PROVE  FALSE
    BY <2>2, <2>5 DEF ValidateWorkflow, ValidateDraft
  <2>6. ASSUME NEW s \in Requests, NEW w \in Workflows, ReadDraft(s, w)
        PROVE  FALSE
    BY <2>2, <2>6 DEF ReadDraft
  <2>7. ASSUME NEW s \in Requests, LockForDraft(s) \/ ValidatePublication(s)
        PROVE  FALSE
    BY <2>2, <2>7 DEF LockForDraft, ValidatePublication, Idle
  <2>8. ASSUME NEW s \in Requests, LockForPublication(s)
        PROVE  FALSE
    BY <2>2, <2>8 DEF LockForPublication, Idle
  <2>9. ASSUME NEW s \in Requests,
               \/ UpdateCredentialRecord(s) \/ ArchiveCredentialRecord(s)
               \/ CreateWorkflowWithInitialVersion(s) \/ CreateDraftWorkflowVersion(s)
               \/ PublishLatestDraftVersion(s) \/ AnswerNoActiveVersion(s) \/ RequestDies(s)
        PROVE  FALSE
    <3>1. Goto(s, Idle)
      BY <2>9 DEF UpdateCredentialRecord, ArchiveCredentialRecord,
         CreateWorkflowWithInitialVersion, CreateDraftWorkflowVersion,
         PublishLatestDraftVersion, AnswerNoActiveVersion, RequestDies
    <3> QED
      BY <2>2, <3>1 DEF Idle
  <2>10. (\E w \in Workflows : ReadActiveVersion(r, w)) \/ TriggerExecution(r)
    <3>1. PICK s \in Requests :
            (\E w \in Workflows : ReadActiveVersion(s, w)) \/ TriggerExecution(s)
      BY <2>3, <2>4, <2>5, <2>6, <2>7, <2>8, <2>9 DEF Next, vars, CreateCredentialRecord
    <3>2. s = r
      <4>1. CASE TriggerExecution(s)
        BY <2>2, <4>1 DEF TriggerExecution
      <4>2. ASSUME NEW w \in Workflows, ReadActiveVersion(s, w) PROVE s = r
        BY <2>2, <4>2 DEF ReadActiveVersion
      <4> QED
        BY <3>1, <4>1, <4>2
    <3> QED
      BY <3>1, <3>2
  <2>11. ASSUME NEW w \in Workflows, ReadActiveVersion(r, w)
        PROVE  Lost(r)
    <3>1. active[w] = 0 /\ request'[r] = NoActiveVersion(w)
      BY <2>1, <2>11 DEF ReadActiveVersion, Goto, At
    <3> QED
      BY <3>1 DEF NoActiveVersion
  <2>12. CASE TriggerExecution(r)
    <3> DEFINE w == request[r].workflow
               version == request[r].version
    <3>1. At(r, "triggering") /\ request'[r] = NoActiveVersion(w) /\ ~Runs(w, version)
      BY <2>1, <2>12 DEF TriggerExecution, Goto, At, Idle
    <3>2. w \in Workflows /\ version \in 1..Len(versions[w])
      BY <3>1, RequestFields DEF RegistryInvariant, LockedReadsHold, RequestHolds
    <3>3. version # active[w]
      BY <3>1, <3>2 DEF RegistryInvariant, ActiveIsPublished, Runs
    <3> QED
      BY <3>1, <3>3 DEF NoActiveVersion
  <2> QED
    BY <2>10, <2>11, <2>12
<1> QED
  BY <1>1, InvariantHolds, PTL DEF RegistrySpec, TriggersLoseOnlyToPublication

-------------------------------------------------------------------------------
(* Requests that do not overlap                                            *)

LatestDraftUsable(w) ==
  LatestDraft(w) # 0 => CredentialsAvailable(versions[w][LatestDraft(w)].uses)

(* What a request has checked is still so when no other one came between.  *)
StillChecked(r) ==
  /\ At(r, "archiving") => ~UsedByActiveVersion(request[r].credential)
  /\ At(r, "draftRead") => request[r].draft = LatestDraft(request[r].workflow)
  /\ At(r, "validated") => LatestDraftUsable(request[r].workflow)
  /\ At(r, "publishing") =>
       CredentialsAvailable(versions[request[r].workflow][request[r].draft].uses)

SerialInvariant == ActiveVersionsHaveCredentials /\ \A r \in Requests : StillChecked(r)

(* A request that is at work finds and leaves the others idle.             *)
LEMMA OthersAreIdle ==
  ASSUME RegistryTypeOK, OneAtATime, NEW r \in Requests, NEW state, Goto(r, state),
         request[r] # Idle, NEW q \in Requests \ {r}
  PROVE  request'[q] = Idle
BY DEF OneAtATime, Goto, RegistryTypeOK

(* An idle request has checked nothing.                                    *)
LEMMA IdleHasChecked ==
  ASSUME NEW q \in Requests, request'[q] = Idle
  PROVE  StillChecked(q)'
BY DEF StillChecked, At, Idle

(* A definition uses credentials that exist or existed.                    *)
LEMMA UsesAreCredentials ==
  ASSUME RegistryTypeOK, NEW w \in Workflows, NEW i \in 1..Len(versions[w])
  PROVE  versions[w][i].uses \subseteq Credentials
<1>1. versions[w] \in Seq(Version)
  BY DEF RegistryTypeOK
<1>2. versions[w][i] \in Version
  BY <1>1
<1>. QED BY <1>2 DEF Version

(* Steps that write no version and archive no credential.                  *)
LEMMA ChecksKept ==
  ASSUME RegistryInvariant, SerialInvariant, UNCHANGED <<versions, active>>,
         \A c \in Credentials : Available(c) => Available(c)'
  PROVE  /\ ActiveVersionsHaveCredentials'
         /\ \A q \in Requests : request'[q] = request[q] => StillChecked(q)'
<1>1. \A uses \in SUBSET Credentials : CredentialsAvailable(uses) => CredentialsAvailable(uses)'
  BY DEF CredentialsAvailable
<1>2. ASSUME NEW w \in Workflows, NEW i \in 1..Len(versions[w]),
             CredentialsAvailable(versions[w][i].uses)
      PROVE  CredentialsAvailable(versions[w][i].uses)'
  <2>1. PICK uses \in SUBSET Credentials : uses = versions[w][i].uses
    BY UsesAreCredentials DEF RegistryInvariant
  <2>2. CredentialsAvailable(uses)'
    BY <1>1, <1>2, <2>1
  <2>. QED BY <2>1, <2>2 DEF CredentialsAvailable
<1>3. ActiveVersionsHaveCredentials'
  <2> SUFFICES ASSUME NEW w \in Workflows, active[w] # 0
               PROVE  CredentialsAvailable(versions[w][active[w]].uses)'
    BY DEF ActiveVersionsHaveCredentials
  <2>1. PICK i \in 1..Len(versions[w]) : i = active[w]
    <3>1. active[w] \in 0..Len(versions[w]) /\ Len(versions[w]) \in Nat
      BY DEF RegistryInvariant, RegistryTypeOK, ActiveIsPublished
    <3>. QED BY <3>1
  <2>2. CredentialsAvailable(versions[w][i].uses)'
    BY <1>2, <2>1 DEF SerialInvariant, ActiveVersionsHaveCredentials
  <2>. QED BY <2>1, <2>2 DEF CredentialsAvailable
<1>4. ASSUME NEW q \in Requests, request'[q] = request[q] PROVE StillChecked(q)'
  <2>1. /\ StillChecked(q)
        /\ At(q, "archiving")' = At(q, "archiving") /\ At(q, "draftRead")' = At(q, "draftRead")
        /\ At(q, "validated")' = At(q, "validated") /\ At(q, "publishing")' = At(q, "publishing")
    BY <1>4 DEF SerialInvariant, At
  <2>2. At(q, "archiving")' => ~UsedByActiveVersion(request[q].credential)'
    BY <2>1, <1>4 DEF StillChecked, UsedByActiveVersion
  <2>3. At(q, "draftRead")' => (request[q].draft = LatestDraft(request[q].workflow))'
    BY <2>1, <1>4 DEF StillChecked, LatestDraft, Drafts, Newest
  <2>4. ASSUME At(q, "validated") PROVE LatestDraftUsable(request[q].workflow)'
    <3>1. PICK w \in Workflows : w = request[q].workflow
      BY <2>4, RequestFields DEF RegistryInvariant
    <3>2. PICK d : d = LatestDraft(w)
      OBVIOUS
    <3>3. d = LatestDraft(w)'
      BY <3>2 DEF LatestDraft, Drafts, Newest
    <3>4. d # 0 => d \in 1..Len(versions[w])
      <4>1. d # 0 => d = Len(versions[w]) /\ d \in 1..MaxVersions
        BY <3>2, LatestDraftIsNewest DEF RegistryInvariant
      <4>. QED BY <4>1, RegistryAssumption
    <3>5. d # 0 => CredentialsAvailable(versions[w][d].uses)
      BY <2>1, <2>4, <3>1, <3>2 DEF StillChecked, LatestDraftUsable
    <3>6. d # 0 => CredentialsAvailable(versions[w][d].uses)'
      BY <1>2, <3>4, <3>5
    <3>7. LatestDraftUsable(w)'
      BY <3>3, <3>6 DEF LatestDraftUsable
    <3>8. (request[q].workflow)' = w
      BY <1>4, <3>1
    <3>. QED BY <3>7, <3>8
  <2>5. ASSUME At(q, "publishing")
        PROVE  CredentialsAvailable(versions[request[q].workflow][request[q].draft].uses)'
    <3>1. PICK w \in Workflows : w = request[q].workflow
      BY <2>5, RequestFields DEF RegistryInvariant
    <3>2. PICK d : d = request[q].draft
      OBVIOUS
    <3>3. d \in 1..Len(versions[w])
      <4>1. d \in 1..MaxVersions
        BY <2>5, <3>2, RequestFields DEF RegistryInvariant
      <4>2. d = Len(versions[w])
        BY <2>5, <3>1, <3>2 DEF RegistryInvariant, LockedReadsHold, RequestHolds
      <4>. QED BY <4>1, <4>2, RegistryAssumption
    <3>4. CredentialsAvailable(versions[w][d].uses)'
      BY <1>2, <2>1, <2>5, <3>1, <3>2, <3>3 DEF StillChecked
    <3>. QED BY <1>4, <3>1, <3>2, <3>4 DEF CredentialsAvailable, Available
  <2>. QED BY <2>1, <2>2, <2>3, <2>4, <2>5 DEF StillChecked
<1>. QED BY <1>3, <1>4

(* Steps that only read, or take a lock.                                   *)
LEMMA SerialReads ==
  ASSUME RegistryInvariant, SerialInvariant, NEW r \in Requests, NEW state, Goto(r, state),
         UNCHANGED <<versions, active, credentials>>, StillChecked(r)'
  PROVE  SerialInvariant'
<1>1. \A q \in Requests \ {r} : request'[q] = request[q]
  BY DEF Goto, RegistryInvariant, RegistryTypeOK
<1>2. \A c \in Credentials : Available(c) => Available(c)'
  BY DEF Available
<1>. QED BY <1>1, <1>2, ChecksKept DEF SerialInvariant

(* Steps that end a request, which no other one accompanied.               *)
LEMMA SerialWrites ==
  ASSUME RegistryTypeOK, OneAtATime, NEW r \in Requests, NEW step, At(r, step), step # "idle",
         Goto(r, Idle), ActiveVersionsHaveCredentials'
  PROVE  SerialInvariant'
<1>1. request[r] # Idle /\ request'[r] = Idle
  BY DEF At, Idle, Goto, RegistryTypeOK
<1>2. \A q \in Requests : request'[q] = Idle
  BY <1>1, OthersAreIdle
<1>. QED BY <1>2, IdleHasChecked DEF SerialInvariant

(* Requests that begin: what is noted as checked has just been checked.    *)
LEMMA SerialBegins ==
  ASSUME RegistryInvariant, SerialInvariant, NEW r \in Requests,
         \/ \E c \in Credentials : LockCredentialForUpdate(r, c) \/ LockCredentialForArchive(r, c)
         \/ \E w \in Workflows :
              \/ ReadDraft(r, w) \/ ReadActiveVersion(r, w)
              \/ \E uses \in SUBSET Credentials :
                   ValidateWorkflow(r, w, uses) \/ ValidateDraft(r, w, uses)
  PROVE  SerialInvariant'
<1>1. \A state : Goto(r, state) => request'[r] = state
  BY DEF Goto, RegistryInvariant, RegistryTypeOK
<1>2. ASSUME NEW state, Goto(r, state), UNCHANGED <<versions, active, credentials>>,
             state.step \notin {"archiving", "draftRead", "validated", "publishing"}
      PROVE  SerialInvariant'
  <2>1. StillChecked(r)'
    BY <1>1, <1>2 DEF StillChecked, At
  <2>. QED BY <1>2, <2>1, SerialReads
<1>3. ASSUME NEW c \in Credentials, LockCredentialForUpdate(r, c) PROVE SerialInvariant'
  BY <1>2, <1>3 DEF LockCredentialForUpdate
<1>4. ASSUME NEW c \in Credentials, LockCredentialForArchive(r, c) PROVE SerialInvariant'
  <2> DEFINE state == [step |-> "archiving", credential |-> c]
  <2>1. Goto(r, state) /\ UNCHANGED <<versions, active, credentials>> /\ ~UsedByActiveVersion(c)
    BY <1>4 DEF LockCredentialForArchive
  <2>2. request'[r] = state /\ state.step = "archiving" /\ state.credential = c
    BY <1>1, <2>1
  <2>3. StillChecked(r)'
    BY <2>1, <2>2 DEF StillChecked, At, UsedByActiveVersion
  <2>. QED BY <2>1, <2>3, SerialReads
<1>5. ASSUME NEW w \in Workflows, ReadDraft(r, w) PROVE SerialInvariant'
  <2> DEFINE state == [step |-> "draftRead", workflow |-> w, draft |-> LatestDraft(w)]
  <2>1. Goto(r, state) /\ UNCHANGED <<versions, active, credentials>>
    BY <1>5 DEF ReadDraft
  <2>2. request'[r] = state /\ state.step = "draftRead" /\ state.workflow = w
        /\ state.draft = LatestDraft(w)
    BY <1>1, <2>1
  <2>3. StillChecked(r)'
    BY <2>1, <2>2 DEF StillChecked, At, LatestDraft, Drafts, Newest
  <2>. QED BY <2>1, <2>3, SerialReads
<1>6. ASSUME NEW w \in Workflows, ReadActiveVersion(r, w) PROVE SerialInvariant'
  <2>1. CASE active[w] = 0
    BY <1>2, <1>6, <2>1 DEF ReadActiveVersion, NoActiveVersion
  <2>2. CASE active[w] # 0
    BY <1>2, <1>6, <2>2 DEF ReadActiveVersion
  <2>. QED BY <2>1, <2>2
<1>7. ASSUME NEW w \in Workflows, NEW uses,
             ValidateWorkflow(r, w, uses) \/ ValidateDraft(r, w, uses)
      PROVE  SerialInvariant'
  BY <1>2, <1>7 DEF ValidateWorkflow, ValidateDraft
<1>. QED BY <1>3, <1>4, <1>5, <1>6, <1>7

(* Publication: the draft that was validated is still the latest when it   *)
(* is locked, and is activated.                                            *)
LEMMA SerialPublishes ==
  ASSUME RegistryInvariant, SerialInvariant, NEW r \in Requests,
         ValidatePublication(r) \/ LockForPublication(r)
  PROVE  SerialInvariant'
<1> DEFINE w == request[r].workflow
<1>1. \A state : Goto(r, state) => request'[r] = state
  BY DEF Goto, RegistryInvariant, RegistryTypeOK
<1>2. StillChecked(r) /\ UNCHANGED <<versions, active, credentials>>
  BY DEF SerialInvariant, ValidatePublication, LockForPublication
<1>3. CASE Goto(r, Idle)
  BY <1>1, <1>2, <1>3, IdleHasChecked, SerialReads
<1>4. CASE ValidatePublication(r) /\ ~Goto(r, Idle)
  <2> DEFINE state == [step |-> "validated", workflow |-> w]
  <2>1. Goto(r, state) /\ LatestDraftUsable(w)
    BY <1>2, <1>4 DEF ValidatePublication, StillChecked, LatestDraftUsable
  <2>2. request'[r] = state /\ state.step = "validated" /\ state.workflow = w
    BY <1>1, <2>1
  <2> HIDE DEF state
  <2>3. PICK v : v = w
    OBVIOUS
  <2>4. LatestDraftUsable(v)'
    <3>1. PICK d : d = LatestDraft(v)
      OBVIOUS
    <3>2. d = LatestDraft(v)'
      BY <1>2, <3>1 DEF LatestDraft, Drafts, Newest
    <3>3. d # 0 => CredentialsAvailable(versions[v][d].uses)'
      BY <1>2, <2>1, <2>3, <3>1 DEF LatestDraftUsable, CredentialsAvailable, Available
    <3>. QED BY <3>2, <3>3 DEF LatestDraftUsable
  <2>5. StillChecked(r)'
    BY <2>2, <2>3, <2>4 DEF StillChecked, At
  <2>. QED BY <1>2, <2>1, <2>5, SerialReads
<1>5. CASE LockForPublication(r) /\ ~Goto(r, Idle)
  <2> DEFINE state == [step |-> "publishing", workflow |-> w,
                       draft |-> LatestDraft(w), previous |-> active[w]]
  <2>1. Goto(r, state) /\ LatestDraft(w) # 0 /\ LatestDraftUsable(w)
    BY <1>2, <1>5 DEF LockForPublication, StillChecked
  <2>2. request'[r] = state /\ state.step = "publishing" /\ state.workflow = w
        /\ state.draft = LatestDraft(w)
    BY <1>1, <2>1
  <2>3. CredentialsAvailable(versions[w][LatestDraft(w)].uses)
    BY <2>1 DEF LatestDraftUsable
  <2> HIDE DEF state
  <2>4. StillChecked(r)'
    BY <1>2, <2>2, <2>3 DEF StillChecked, At, CredentialsAvailable, Available
  <2>. QED BY <1>2, <2>1, <2>4, SerialReads
<1>. QED BY <1>3, <1>4, <1>5

(* Steps that write a credential: none that an active version uses is      *)
(* archived.                                                               *)
LEMMA SerialCredentials ==
  ASSUME RegistryInvariant, SerialInvariant, OneAtATime, NEW r \in Requests,
         UpdateCredentialRecord(r) \/ ArchiveCredentialRecord(r)
  PROVE  SerialInvariant'
<1>1. PICK c \in Credentials : c = request[r].credential
  BY RequestFields DEF UpdateCredentialRecord, ArchiveCredentialRecord, RegistryInvariant
<1>2. credentials \in [Credentials -> Credential]
  BY DEF RegistryInvariant, RegistryTypeOK
<1>3. CASE UpdateCredentialRecord(r)
  <2>1. \A d \in Credentials : Available(d) => Available(d)'
    BY <1>1, <1>2, <1>3 DEF UpdateCredentialRecord, Available
  <2>2. ActiveVersionsHaveCredentials'
    BY <1>3, <2>1, ChecksKept DEF UpdateCredentialRecord
  <2>. QED BY <1>3, <2>2, SerialWrites DEF UpdateCredentialRecord, RegistryInvariant
<1>4. CASE ArchiveCredentialRecord(r)
  <2>1. \A d \in Credentials \ {c} : Available(d) => Available(d)'
    BY <1>1, <1>2, <1>4 DEF ArchiveCredentialRecord, Available
  <2>2. ~UsedByActiveVersion(c) /\ UNCHANGED <<versions, active>>
    BY <1>1, <1>4 DEF ArchiveCredentialRecord, SerialInvariant, StillChecked
  <2>3. ActiveVersionsHaveCredentials'
    <3> SUFFICES ASSUME NEW w \in Workflows, active[w] # 0,
                        NEW d \in versions[w][active[w]].uses
                 PROVE  Available(d)'
      BY <2>2 DEF ActiveVersionsHaveCredentials, CredentialsAvailable
    <3>1. active[w] \in 1..Len(versions[w])
      <4>1. active[w] \in 0..Len(versions[w]) /\ Len(versions[w]) \in Nat
        BY DEF RegistryInvariant, RegistryTypeOK, ActiveIsPublished
      <4>. QED BY <4>1
    <3>2. d \in Credentials \ {c}
      BY <2>2, <3>1, UsesAreCredentials DEF UsedByActiveVersion, RegistryInvariant
    <3>3. Available(d)
      BY DEF SerialInvariant, ActiveVersionsHaveCredentials, CredentialsAvailable
    <3>. QED BY <2>1, <3>2, <3>3
  <2>. QED BY <1>4, <2>3, SerialWrites DEF ArchiveCredentialRecord, RegistryInvariant
<1>. QED BY <1>3, <1>4

(* Steps that write versions: the active ones keep what they use, and the  *)
(* one that is activated uses what is available.                           *)
LEMMA SerialVersions ==
  ASSUME RegistryInvariant, SerialInvariant, OneAtATime, [Next]_vars, NEW r \in Requests,
         \/ CreateWorkflowWithInitialVersion(r)
         \/ CreateDraftWorkflowVersion(r)
         \/ PublishLatestDraftVersion(r)
  PROVE  SerialInvariant'
<1>1. /\ credentials' = credentials /\ Goto(r, Idle)
      /\ At(r, "creating") \/ At(r, "draftLocked") \/ At(r, "publishing")
  BY DEF CreateWorkflowWithInitialVersion, CreateDraftWorkflowVersion, PublishLatestDraftVersion
<1>2. ASSUME NEW w \in Workflows, NEW i \in 1..Len(versions[w]),
             CredentialsAvailable(versions[w][i].uses)
      PROVE  CredentialsAvailable(versions[w][i].uses)'
  <2>1. versions'[w][i].uses = versions[w][i].uses
    BY VersionsKept DEF KeepsVersions
  <2>. QED BY <1>1, <1>2, <2>1 DEF CredentialsAvailable, Available
<1>3. \A w \in Workflows : active[w] # 0 =>
        active[w] \in 1..Len(versions[w]) /\ CredentialsAvailable(versions[w][active[w]].uses)
  <2> SUFFICES ASSUME NEW w \in Workflows, active[w] # 0
               PROVE  active[w] \in 1..Len(versions[w])
    BY DEF SerialInvariant, ActiveVersionsHaveCredentials
  <2>1. active[w] \in 0..Len(versions[w]) /\ Len(versions[w]) \in Nat
    BY DEF RegistryInvariant, RegistryTypeOK, ActiveIsPublished
  <2>. QED BY <2>1
<1>4. ActiveVersionsHaveCredentials'
  <2> SUFFICES ASSUME NEW w \in Workflows, active'[w] # 0
               PROVE  CredentialsAvailable(versions[w][active[w]].uses)'
    BY DEF ActiveVersionsHaveCredentials
  <2>1. CASE active'[w] = active[w]
    <3>1. PICK i \in 1..Len(versions[w]) : i = active[w] /\ CredentialsAvailable(versions[w][i].uses)
      BY <1>3, <2>1
    <3>2. CredentialsAvailable(versions[w][i].uses)'
      BY <1>2, <3>1
    <3>. QED BY <2>1, <3>1, <3>2 DEF CredentialsAvailable, Available
  <2>2. CASE active'[w] # active[w]
    <3>1. /\ PublishLatestDraftVersion(r) /\ At(r, "publishing")
          /\ w = request[r].workflow /\ active'[w] = request[r].draft
      BY <2>2 DEF CreateWorkflowWithInitialVersion, CreateDraftWorkflowVersion,
        PublishLatestDraftVersion, RegistryInvariant, RegistryTypeOK
    <3>2. PICK i : i = request[r].draft
      OBVIOUS
    <3>3. i \in 1..Len(versions[w])
      <4>1. i \in 1..MaxVersions /\ i = Len(versions[w])
        BY <3>1, <3>2, RequestFields DEF RegistryInvariant, LockedReadsHold, RequestHolds
      <4>. QED BY <4>1, RegistryAssumption
    <3>4. CredentialsAvailable(versions[w][i].uses)
      BY <3>1, <3>2 DEF SerialInvariant, StillChecked
    <3>5. CredentialsAvailable(versions[w][i].uses)'
      BY <1>2, <3>3, <3>4
    <3>. QED BY <3>1, <3>2, <3>5 DEF CredentialsAvailable, Available
  <2>. QED BY <2>1, <2>2
<1>. QED BY <1>1, <1>4, SerialWrites DEF RegistryInvariant

(* Every step keeps it, whoever else was idle when it was taken.           *)
LEMMA SerialStep ==
  RegistryInvariant /\ SerialInvariant /\ OneAtATime /\ [Next]_vars => SerialInvariant'
<1> SUFFICES ASSUME RegistryInvariant, SerialInvariant, OneAtATime, [Next]_vars
             PROVE  SerialInvariant'
  OBVIOUS
<1>1. ASSUME UNCHANGED <<versions, active, request>>,
             \A c \in Credentials : Available(c) => Available(c)'
      PROVE  SerialInvariant'
  BY <1>1, ChecksKept DEF SerialInvariant
<1>2. CASE UNCHANGED vars
  BY <1>1, <1>2 DEF vars, Available
<1>3. ASSUME NEW r \in Requests, NEW c \in Credentials, CreateCredentialRecord(r, c)
      PROVE  SerialInvariant'
  <2>1. \A d \in Credentials : Available(d) => Available(d)'
    BY <1>3 DEF CreateCredentialRecord, Available, RegistryInvariant, RegistryTypeOK
  <2>. QED BY <1>1, <1>3, <2>1 DEF CreateCredentialRecord
<1>4. ASSUME NEW r \in Requests,
             LockForDraft(r) \/ TriggerExecution(r) \/ AnswerNoActiveVersion(r) \/ RequestDies(r)
      PROVE  SerialInvariant'
  <2>1. PICK state : /\ Goto(r, state) /\ state.step \in {"draftLocked", "idle", "noActiveVersion"}
                     /\ UNCHANGED <<versions, active, credentials>>
    BY <1>4 DEF LockForDraft, TriggerExecution, AnswerNoActiveVersion, RequestDies, Idle,
      NoActiveVersion
  <2>2. request'[r] = state
    BY <2>1 DEF Goto, RegistryInvariant, RegistryTypeOK
  <2>3. StillChecked(r)'
    BY <2>1, <2>2 DEF StillChecked, At
  <2>. QED BY <2>1, <2>3, SerialReads
<1>. QED BY <1>2, <1>3, <1>4, SerialBegins, SerialPublishes, SerialCredentials, SerialVersions
         DEF Next

(* As long as requests do not overlap, what publishWorkflow and            *)
(* archiveCredential check before they write is enough: an active version  *)
(* never uses a credential that is not available.                          *)
THEOREM SerialRequestsAreSafe == RegistrySpec => SerialRequestsKeepCredentials
<1>1. Init => SerialInvariant
  BY DEF Init, SerialInvariant, ActiveVersionsHaveCredentials, StillChecked, At, Idle
<1>2. SerialInvariant => ActiveVersionsHaveCredentials
  BY DEF SerialInvariant
<1>. QED BY <1>1, <1>2, SerialStep, InvariantHolds, PTL
         DEF RegistrySpec, SerialRequestsKeepCredentials
-------------------------------------------------------------------------------
(* The promise of a workflow                                               *)

(* A function that goes on by one element.                                 *)
LEMMA AppendIs ==
  ASSUME NEW n \in Nat, NEW S, NEW s \in [1..n -> S], NEW d \in S, NEW t \in [1..(n + 1) -> S],
         \A i \in 1..n : t[i] = s[i], t[n + 1] = d
  PROVE  t = Append(s, d)
<1>1. s \in Seq(S) /\ Len(s) = n
  OBVIOUS
<1>2. Append(s, d) \in Seq(S) /\ Len(Append(s, d)) = n + 1
      /\ (\A i \in 1..n : Append(s, d)[i] = s[i]) /\ Append(s, d)[n + 1] = d
  BY <1>1, AppendProperties
<1>3. DOMAIN Append(s, d) = 1..(n + 1)
  BY <1>2
<1>. QED BY <1>2, <1>3

(* What has been saved of a workflow.                                      *)
Uses(rows) == [i \in 1..Len(rows) |-> rows[i].uses]

LEMMA UsesType ==
  ASSUME NEW rows \in Seq(Version)
  PROVE  Uses(rows) \in [1..Len(rows) -> SUBSET Credentials]
<1>1. \A i \in 1..Len(rows) : rows[i].uses \in SUBSET Credentials
  <2> SUFFICES ASSUME NEW i \in 1..Len(rows) PROVE rows[i].uses \in SUBSET Credentials
    OBVIOUS
  <2>1. rows[i] \in Version
    OBVIOUS
  <2>. QED BY <2>1 DEF Version
<1>. QED BY <1>1 DEF Uses

(* A transaction that writes the rows of a workflow.                       *)
LEMMA WriterImplementsHistory ==
  ASSUME RegistryInvariant, RegistryInvariant', NEW w \in Workflows, NEW r \in Requests,
         \/ CreateWorkflowWithInitialVersion(r)
         \/ CreateDraftWorkflowVersion(r)
         \/ PublishLatestDraftVersion(r)
  PROVE  [History(w)!Next]_(History(w)!vars)
<1> USE RegistryAssumption
<1>1. PICK rows, after : rows = versions[w] /\ after = versions'[w]
  OBVIOUS
<1>2. /\ rows \in Seq(Version) /\ Len(rows) \in Nat
      /\ after \in Seq(Version) /\ Len(after) \in Nat
      /\ RegistryTypeOK /\ LockedReadsHold
      /\ \A i \in 1..Len(rows) : rows[i].status = "draft" => i = Len(rows)
      /\ \A i \in 1..Len(after) : after[i].status = "draft" => i = Len(after)
  BY <1>1 DEF RegistryInvariant, RegistryTypeOK, ActiveIsPublished
<1>3. /\ Drafts(w) = {i \in 1..Len(rows) : rows[i].status = "draft"}
      /\ Drafts(w)' = {i \in 1..Len(after) : after[i].status = "draft"}
  BY <1>1 DEF Drafts
<1>4. (\A n \in 1..Len(rows) : rows[n] \in Version) /\ (\A n \in 1..Len(after) : after[n] \in Version)
  BY <1>2
<1>5. rows \in Seq(Version) /\ after \in Seq(Version)
  BY <1>2
<1>6. CASE after = rows /\ active'[w] = active[w]
  <2>1. UNCHANGED <<versions[w], active[w]>>
    BY <1>6, <1>1
  <2>. QED BY <2>1 DEF History!vars, Drafts
<1>7. ASSUME NEW uses \in SUBSET Credentials, Len(after) = Len(rows) + 1, active'[w] = active[w],
             \A i \in 1..Len(rows) : after[i].uses = rows[i].uses,
             after[Len(rows) + 1].uses = uses, after[Len(rows) + 1].status = "draft"
      PROVE  History(w)!Save(uses)
  <2>1. Uses(rows) \in [1..Len(rows) -> SUBSET Credentials]
        /\ Uses(after) \in [1..(Len(rows) + 1) -> SUBSET Credentials]
    BY <1>2, <1>7, UsesType
  <2>2. /\ \A i \in 1..Len(rows) : Uses(after)[i] = Uses(rows)[i]
        /\ Uses(after)[Len(rows) + 1] = uses
    BY <1>2, <1>7 DEF Uses
  <2>3. Uses(after) = Append(Uses(rows), uses)
    BY <1>2, <2>1, <2>2, AppendIs
  <2>4. Len(after) \in Drafts(w)'
    BY <1>2, <1>3, <1>7
  <2>5. (Drafts(w) # {})' = TRUE
    BY <2>4
  <2>. QED BY <1>1, <1>7, <2>3, <2>5 DEF History!Save, Uses
<1>8. CASE CreateWorkflowWithInitialVersion(r) /\ w = request[r].workflow
  <2>1. PICK uses \in SUBSET Credentials : uses = request[r].uses
    BY <1>2, <1>8, RequestFields DEF CreateWorkflowWithInitialVersion
  <2>2. rows = <<>> /\ after = <<DraftVersion(1, uses)>> /\ active' = active
    BY <1>1, <1>2, <1>8, <2>1 DEF CreateWorkflowWithInitialVersion, RegistryTypeOK
  <2>3. /\ Len(rows) = 0 /\ Len(after) = 1
        /\ after[1].uses = uses /\ after[1].status = "draft"
    BY <2>2 DEF DraftVersion
  <2>4. History(w)!Save(uses)
    BY <1>7, <2>1, <2>2, <2>3
  <2>. QED BY <2>1, <2>4 DEF History!Next
<1>9. CASE CreateDraftWorkflowVersion(r) /\ w = request[r].workflow
  <2>1. At(r, "draftLocked") /\ request[r].uses \in SUBSET Credentials
    BY <1>2, <1>9, RequestFields DEF CreateDraftWorkflowVersion
  <2>2. PICK uses \in SUBSET Credentials : uses = request[r].uses
    BY <2>1
  <2>3. PICK draft : draft = DraftVersion(request[r].latest + 1, uses)
    OBVIOUS
  <2>4. draft \in Version /\ draft.status = "draft" /\ draft.uses = uses
    <3>1. request[r].latest \in Nat
      BY <1>2, <2>1 DEF LockedReadsHold, RequestHolds
    <3>. QED BY <2>1, <2>3, <3>1 DEF DraftVersion, Version
  <2>5. after = WithNewDraft(rows, draft) /\ active' = active
    BY <1>1, <1>2, <1>9, <2>2, <2>3 DEF CreateDraftWorkflowVersion, RegistryTypeOK
  <2>6. /\ Len(after) = Len(rows) + 1 /\ after[Len(rows) + 1] = draft
        /\ \A i \in 1..Len(rows) :
             after[i] = IF rows[i].status = "draft" THEN Retired(rows[i]) ELSE rows[i]
    <3>1. after = WithNewDraft(rows, draft) /\ draft \in Version
      BY <2>4, <2>5
    <3>2. /\ Len(WithNewDraft(rows, draft)) = Len(rows) + 1
          /\ WithNewDraft(rows, draft)[Len(rows) + 1] = draft
          /\ \A i \in 1..Len(rows) : WithNewDraft(rows, draft)[i] =
               IF rows[i].status = "draft" THEN Retired(rows[i]) ELSE rows[i]
      BY <1>5, <3>1, WithNewDraftRows, Zenon
    <3>. QED BY <3>1, <3>2, Zenon
  <2>7. \A i \in 1..Len(rows) : after[i].uses = rows[i].uses
    <3> SUFFICES ASSUME NEW i \in 1..Len(rows) PROVE after[i].uses = rows[i].uses
      OBVIOUS
    <3>1. rows[i] \in Version
      BY <1>4
    <3>. QED BY <2>6, <3>1 DEF Retired, Version
  <2>8. History(w)!Save(uses)
    BY <1>7, <2>1, <2>4, <2>5, <2>6, <2>7
  <2>. QED BY <2>1, <2>8 DEF History!Next
<1>10. CASE PublishLatestDraftVersion(r) /\ w = request[r].workflow
  <2>1. /\ At(r, "publishing") /\ request[r].previous \in Nat
        /\ request[r].draft = Len(rows) /\ rows[Len(rows)].status = "draft"
    BY <1>1, <1>2, <1>10, RequestFields
       DEF PublishLatestDraftVersion, LockedReadsHold, RequestHolds
  <2>2. Len(rows) \in 1..Len(rows)
    BY <1>2, <1>10, <2>1, RequestFields
  <2>3. after = WithPublished(rows, Len(rows), request[r].previous) /\ active'[w] = Len(rows)
    BY <1>1, <1>2, <1>10, <2>1 DEF PublishLatestDraftVersion, RegistryTypeOK
  <2>4. /\ Len(after) = Len(rows)
        /\ \A i \in 1..Len(rows) :
             after[i] = IF i = Len(rows) THEN Published(rows[i])
                        ELSE IF i = request[r].previous /\ rows[i].status = "published"
                          THEN Retired(rows[i]) ELSE rows[i]
    BY <1>2, <2>1, <2>2, <2>3, WithPublishedRows
  <2>5. ASSUME NEW i \in 1..Len(rows)
        PROVE  after[i].uses = rows[i].uses /\ (i = Len(rows) => after[i].status = "published")
    <3>1. rows[i] \in Version
      BY <1>4
    <3>. QED BY <2>4, <3>1 DEF Published, Retired, Version
  <2>6. Uses(after) = Uses(rows)
    BY <2>4, <2>5 DEF Uses
  <2>7. Len(rows) \in Drafts(w)
    BY <1>3, <2>1, <2>2
  <2>8. Drafts(w)' = {}
    BY <1>2, <1>3, <2>4, <2>5
  <2>9. History(w)!Publish
    BY <1>1, <2>3, <2>6, <2>7, <2>8 DEF History!Publish, Uses
  <2>. QED BY <2>9 DEF History!Next
<1>11. CASE w # request[r].workflow
  <2>1. after = rows /\ active'[w] = active[w]
    BY <1>1, <1>2, <1>11 DEF CreateWorkflowWithInitialVersion, CreateDraftWorkflowVersion,
       PublishLatestDraftVersion, RegistryTypeOK
  <2>. QED BY <1>6, <2>1
<1>. QED BY <1>8, <1>9, <1>10, <1>11

(* Every workflow is what saving and publishing one at a time makes of it, *)
(* whatever requests do meanwhile (createDraftWorkflowVersion and          *)
(* publishLatestDraftVersion under the lock of the workflow's row).        *)
THEOREM RegistryImplementsHistory == RegistrySpec => ImplementsHistory
<1>1. Init => \A w \in Workflows : History(w)!Init
  BY DEF Init, History!Init, Drafts
<1>2. ASSUME RegistryInvariant, RegistryInvariant', [Next]_vars
      PROVE  \A w \in Workflows : [History(w)!Next]_(History(w)!vars)
  <2> SUFFICES ASSUME NEW w \in Workflows PROVE [History(w)!Next]_(History(w)!vars)
    OBVIOUS
  <2>1. CASE UNCHANGED <<versions, active>>
    BY <2>1 DEF History!vars, Drafts
  <2>2. CASE ~UNCHANGED <<versions, active>>
    BY <1>2, <2>2, WritersOfVersions, WriterImplementsHistory
  <2>. QED BY <2>1, <2>2
<1>. QED BY <1>1, <1>2, InvariantHolds, PTL DEF RegistrySpec, ImplementsHistory
===============================================================================
