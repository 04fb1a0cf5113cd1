--------------------------- MODULE WorkflowRegistry ---------------------------
(***************************************************************************)
(* Workflows, their versions, and the credentials their definitions use:   *)
(* repositories/workflows.ts and credentials.ts with the services that     *)
(* call them, and the part of triggerExecutionForWorkflow that chooses a   *)
(* version.                                                                *)
(*                                                                         *)
(* Each API request is a process.  A service validates what it has read    *)
(* outside of any transaction and then calls a repository function, whose  *)
(* transaction first locks one row (SELECT ... FOR UPDATE) and later       *)
(* commits: the validation, the locked read and the commit are a step      *)
(* each.  A request that is refused changes nothing and is left out,       *)
(* except for a trigger that finds no version, which a property is about.  *)
(*                                                                         *)
(* All rows belong to one owner.  A definition is the set of credentials   *)
(* its steps reference.                                                    *)
(***************************************************************************)
EXTENDS Integers, Sequences, FiniteSets

CONSTANTS
  Workflows,   \* identifiers of workflows that may be created
  Credentials, \* identifiers of credentials that may be created
  Requests,    \* the requests the API works on at the same time
  NoOne,       \* the holder of a lock nobody holds
  MaxVersions, \* bound on the versions of a workflow
  MaxSecrets   \* bound on the secrets a credential is given

ASSUME RegistryAssumption ==
  /\ Workflows \cap Credentials = {}
  /\ NoOne \notin Requests
  /\ MaxVersions \in Nat \ {0}
  /\ MaxSecrets \in Nat \ {0}

VARIABLES
  versions,    \* workflow -> its versions in the order of their insertion
  active,      \* workflow -> activeVersionId, as a position; 0 for null
  credentials, \* credential -> its row
  rowLock,     \* workflow or credential row -> the request that has locked it
  request,     \* request -> what it is doing
  executions   \* <<workflow, version>> of the executions created

vars == <<versions, active, credentials, rowLock, request, executions>>

-------------------------------------------------------------------------------
Version == [versionNo : Nat, status : {"draft", "published", "retired"},
            uses : SUBSET Credentials]

Credential == [state : {"absent", "available", "archived"}, secret : 0..MaxSecrets]

Idle == [step |-> "idle"]

Init ==
  /\ versions = [w \in Workflows |-> <<>>]
  /\ active = [w \in Workflows |-> 0]
  /\ credentials = [c \in Credentials |-> [state |-> "absent", secret |-> 0]]
  /\ rowLock = [row \in Workflows \cup Credentials |-> NoOne]
  /\ request = [r \in Requests |-> Idle]
  /\ executions = {}

At(r, step) == request[r].step = step

Goto(r, state) == request' = [request EXCEPT ![r] = state]

(* Broken: SELECT without FOR UPDATE.                                      *)
ReadRow(r, row) == UNCHANGED rowLock

LockRow(r, row) ==
  /\ rowLock[row] = NoOne
  /\ rowLock' = [rowLock EXCEPT ![row] = r]

(* The end of r's transaction, if it has one.                              *)
UnlockRows(r) ==
  rowLock' = [row \in DOMAIN rowLock |-> IF rowLock[row] = r THEN NoOne ELSE rowLock[row]]

-------------------------------------------------------------------------------
(* Credentials                                                             *)

Available(c) == credentials[c].state = "available"

(* validateCredentialReferences                                            *)
CredentialsAvailable(uses) == \A c \in uses : Available(c)

CreateCredentialRecord(r, c) ==
  /\ request[r] = Idle
  /\ credentials[c].state = "absent"
  /\ credentials' = [credentials EXCEPT ![c] = [state |-> "available", secret |-> 1]]
  /\ UNCHANGED <<versions, active, rowLock, request, executions>>

LockCredentialForUpdate(r, c) ==
  /\ request[r] = Idle
  /\ Available(c)
  /\ credentials[c].secret < MaxSecrets
  /\ LockRow(r, c)
  /\ Goto(r, [step |-> "updating", credential |-> c])
  /\ UNCHANGED <<versions, active, credentials, executions>>

UpdateCredentialRecord(r) ==
  /\ At(r, "updating")
  /\ credentials' = [credentials EXCEPT ![request[r].credential] =
                       [state |-> @.state, secret |-> @.secret + 1]]
  /\ UnlockRows(r)
  /\ Goto(r, Idle)
  /\ UNCHANGED <<versions, active, executions>>

(* Broken: only drafts are searched for the credential.                    *)
UsedByDraft(c) ==
  \E w \in Workflows : \E i \in 1..Len(versions[w]) :
    versions[w][i].status = "draft" /\ c \in versions[w][i].uses

(* activeDefinitions.some(definitionUsesCredential)                        *)
UsedByActiveVersion(c) ==
  \E w \in Workflows : active[w] # 0 /\ c \in versions[w][active[w]].uses

(* The check follows the lock in the same transaction; it takes no lock on *)
(* the workflows it reads.                                                 *)
LockCredentialForArchive(r, c) ==
  /\ request[r] = Idle
  /\ Available(c)
  /\ ~UsedByActiveVersion(c)
  /\ LockRow(r, c)
  /\ Goto(r, [step |-> "archiving", credential |-> c])
  /\ UNCHANGED <<versions, active, credentials, executions>>

ArchiveCredentialRecord(r) ==
  /\ At(r, "archiving")
  /\ credentials' = [credentials EXCEPT ![request[r].credential] =
                       [state |-> "archived", secret |-> @.secret]]
  /\ UnlockRows(r)
  /\ Goto(r, Idle)
  /\ UNCHANGED <<versions, active, executions>>

-------------------------------------------------------------------------------
(* Versions                                                                *)

DraftVersion(no, uses) == [versionNo |-> no, status |-> "draft", uses |-> uses]

Drafts(w) == {i \in 1..Len(versions[w]) : versions[w][i].status = "draft"}

(* orderBy(desc(versionNo)).limit(1)                                       *)
Newest(w, positions) ==
  CHOOSE i \in positions :
    \A j \in positions : versions[w][j].versionNo <= versions[w][i].versionNo

(* The draft with the highest number, 0 if there is none.                  *)
LatestDraft(w) == IF Drafts(w) = {} THEN 0 ELSE Newest(w, Drafts(w))

LatestVersionNo(w) ==
  IF versions[w] = <<>> THEN 0
  ELSE versions[w][Newest(w, 1..Len(versions[w]))].versionNo

Retired(version) == [version EXCEPT !.status = "retired"]
Published(version) == [version EXCEPT !.status = "published"]

ValidateWorkflow(r, w, uses) ==
  /\ request[r] = Idle
  /\ versions[w] = <<>>
  /\ CredentialsAvailable(uses)
  /\ Goto(r, [step |-> "creating", workflow |-> w, uses |-> uses])
  /\ UNCHANGED <<versions, active, credentials, rowLock, executions>>

CreateWorkflowWithInitialVersion(r) ==
  /\ At(r, "creating")
  /\ versions[request[r].workflow] = <<>>
  /\ versions' = [versions EXCEPT ![request[r].workflow] =
                    <<DraftVersion(1, request[r].uses)>>]
  /\ Goto(r, Idle)
  /\ UNCHANGED <<active, credentials, rowLock, executions>>

ValidateDraft(r, w, uses) ==
  /\ request[r] = Idle
  /\ versions[w] # <<>>
  /\ CredentialsAvailable(uses)
  /\ Goto(r, [step |-> "drafting", workflow |-> w, uses |-> uses])
  /\ UNCHANGED <<versions, active, credentials, rowLock, executions>>

LockForDraft(r) ==
  /\ At(r, "drafting")
  /\ Len(versions[request[r].workflow]) < MaxVersions
  /\ LockRow(r, request[r].workflow)
  /\ Goto(r, [step |-> "draftLocked", workflow |-> request[r].workflow,
              uses |-> request[r].uses,
              latest |-> LatestVersionNo(request[r].workflow)])
  /\ UNCHANGED <<versions, active, credentials, executions>>

(* The previous drafts are retired, whichever they are.                    *)
WithNewDraft(rows, draft) ==
  Append([i \in 1..Len(rows) |->
            IF rows[i].status = "draft" THEN Retired(rows[i]) ELSE rows[i]], draft)

CreateDraftWorkflowVersion(r) ==
  /\ At(r, "draftLocked")
  /\ versions' = [versions EXCEPT ![request[r].workflow] =
                    WithNewDraft(@, DraftVersion(request[r].latest + 1, request[r].uses))]
  /\ UnlockRows(r)
  /\ Goto(r, Idle)
  /\ UNCHANGED <<active, credentials, executions>>

-------------------------------------------------------------------------------
(* Publication                                                             *)

(* getWorkflowDetailByOwner, outside of the transaction that publishes.    *)
ReadDraft(r, w) ==
  /\ request[r] = Idle
  /\ versions[w] # <<>>
  /\ Goto(r, [step |-> "draftRead", workflow |-> w, draft |-> LatestDraft(w)])
  /\ UNCHANGED <<versions, active, credentials, rowLock, executions>>

(* Without a draft there is nothing to validate, and the request goes on.  *)
ValidatePublication(r) ==
  LET w == request[r].workflow
      draft == request[r].draft IN
    /\ At(r, "draftRead")
    /\ IF draft # 0 => CredentialsAvailable(versions[w][draft].uses)
         THEN Goto(r, [step |-> "validated", workflow |-> w])
         ELSE Goto(r, Idle)
    /\ UNCHANGED <<versions, active, credentials, rowLock, executions>>

(* The latest draft is read again under the lock; it may be another one.   *)
LockForPublication(r) ==
  LET w == request[r].workflow IN
    /\ At(r, "validated")
    /\ \/ /\ LatestDraft(w) # 0
          /\ LockRow(r, w)
          /\ Goto(r, [step |-> "publishing", workflow |-> w,
                      draft |-> LatestDraft(w), previous |-> active[w]])
       \/ /\ LatestDraft(w) = 0
          /\ rowLock[w] = NoOne
          /\ Goto(r, Idle)
          /\ UNCHANGED rowLock
    /\ UNCHANGED <<versions, active, credentials, executions>>

(* Broken: the version that was active stays published.                    *)
WithAnotherPublished(rows, draft, previous) ==
  [rows EXCEPT ![draft] = Published(@)]

(* Broken: all published versions are retired, once the new one is.        *)
WithAllRetired(rows, draft, previous) ==
  [i \in 1..Len(rows) |->
     IF i = draft \/ rows[i].status = "published" THEN Retired(rows[i]) ELSE rows[i]]

WithPublished(rows, draft, previous) ==
  [i \in 1..Len(rows) |->
     IF i = draft THEN Published(rows[i])
     ELSE IF i = previous /\ rows[i].status = "published" THEN Retired(rows[i])
     ELSE rows[i]]

PublishLatestDraftVersion(r) ==
  LET w == request[r].workflow
      draft == request[r].draft IN
    /\ At(r, "publishing")
    /\ versions' = [versions EXCEPT ![w] = WithPublished(@, draft, request[r].previous)]
    /\ active' = [active EXCEPT ![w] = draft]
    /\ UnlockRows(r)
    /\ Goto(r, Idle)
    /\ UNCHANGED <<credentials, executions>>

-------------------------------------------------------------------------------
(* triggerExecutionForWorkflow takes no lock: it reads the workflow in one *)
(* statement and the version in the next.                                  *)

NoActiveVersion(w) == [step |-> "noActiveVersion", workflow |-> w]

ReadActiveVersion(r, w) ==
  /\ request[r] = Idle
  /\ versions[w] # <<>>
  /\ Goto(r, IF active[w] = 0
               THEN NoActiveVersion(w)
               ELSE [step |-> "triggering", workflow |-> w, version |-> active[w]])
  /\ UNCHANGED <<versions, active, credentials, rowLock, executions>>

Runs(w, version) == versions[w][version].status = "published"

(* The rows that are inserted depend on nothing that is read later.        *)
TriggerExecution(r) ==
  LET w == request[r].workflow
      version == request[r].version IN
    /\ At(r, "triggering")
    /\ IF Runs(w, version)
         THEN executions' = executions \cup {<<w, version>>} /\ Goto(r, Idle)
         ELSE Goto(r, NoActiveVersion(w)) /\ UNCHANGED executions
    /\ UNCHANGED <<versions, active, credentials, rowLock>>

(* The answer NO_ACTIVE_VERSION.                                           *)
AnswerNoActiveVersion(r) ==
  /\ At(r, "noActiveVersion")
  /\ Goto(r, Idle)
  /\ UNCHANGED <<versions, active, credentials, rowLock, executions>>

(* The API process stops; PostgreSQL rolls the transaction back.           *)
RequestDies(r) ==
  /\ request[r] # Idle
  /\ UnlockRows(r)
  /\ Goto(r, Idle)
  /\ UNCHANGED <<versions, active, credentials, executions>>

Next ==
  \E r \in Requests :
    \/ \E c \in Credentials :
         \/ CreateCredentialRecord(r, c)
         \/ LockCredentialForUpdate(r, c)
         \/ LockCredentialForArchive(r, c)
    \/ \E w \in Workflows :
         \/ ReadDraft(r, w)
         \/ ReadActiveVersion(r, w)
         \/ \E uses \in SUBSET Credentials :
              ValidateWorkflow(r, w, uses) \/ ValidateDraft(r, w, uses)
    \/ UpdateCredentialRecord(r)
    \/ ArchiveCredentialRecord(r)
    \/ CreateWorkflowWithInitialVersion(r)
    \/ LockForDraft(r)
    \/ CreateDraftWorkflowVersion(r)
    \/ ValidatePublication(r)
    \/ LockForPublication(r)
    \/ PublishLatestDraftVersion(r)
    \/ TriggerExecution(r)
    \/ AnswerNoActiveVersion(r)
    \/ RequestDies(r)

RegistrySpec == Init /\ [][Next]_vars

-------------------------------------------------------------------------------
(* The promise of a workflow, of which rows, locks and requests are the    *)
(* implementation.                                                         *)
History(w) == INSTANCE WorkflowHistory WITH
  Definitions <- SUBSET Credentials,
  saved <- [i \in 1..Len(versions[w]) |-> versions[w][i].uses],
  active <- active[w],
  drafted <- Drafts(w) # {}

(* "Version creation and publishing lock the workflow row ... so           *)
(* concurrent requests cannot ... race the active-version update"          *)
(* (docs/adr/003): however requests interleave and die, the versions are   *)
(* what saving and publishing one at a time makes of them.  No save is     *)
(* lost, and a publication activates the definition saved last.            *)
ImplementsHistory ==
  /\ \A w \in Workflows : History(w)!Init
  /\ [][\A w \in Workflows : [History(w)!Next]_(History(w)!vars)]_vars

-------------------------------------------------------------------------------
(* Properties                                                              *)

RequestState ==
  {Idle}
  \cup [step : {"updating", "archiving"}, credential : Credentials]
  \cup [step : {"creating", "drafting"}, workflow : Workflows, uses : SUBSET Credentials]
  \cup [step : {"draftLocked"}, workflow : Workflows, uses : SUBSET Credentials,
        latest : 0..MaxVersions]
  \cup [step : {"draftRead"}, workflow : Workflows, draft : 0..MaxVersions]
  \cup [step : {"validated", "noActiveVersion"}, workflow : Workflows]
  \cup [step : {"publishing"}, workflow : Workflows, draft : 1..MaxVersions,
        previous : 0..MaxVersions]
  \cup [step : {"triggering"}, workflow : Workflows, version : 1..MaxVersions]

(* Every row and every request has its type.                               *)
RegistryTypeOK ==
  /\ versions \in [Workflows -> Seq(Version)]
  /\ \A w \in Workflows : Len(versions[w]) <= MaxVersions
  /\ active \in [Workflows -> 0..MaxVersions]
  /\ credentials \in [Credentials -> Credential]
  /\ rowLock \in [Workflows \cup Credentials -> Requests \cup {NoOne}]
  /\ request \in [Requests -> RequestState]
  /\ executions \in SUBSET (Workflows \X (1..MaxVersions))

(* However requests interleave, a workflow has at most one published       *)
(* version, it is the one activeVersionId names, and the only draft, if    *)
(* there is one, is newer than every other version: the draft that         *)
(* publishLatestDraftVersion finds is the one the user saved last.         *)
ActiveIsPublished ==
  \A w \in Workflows :
    /\ active[w] \in 0..Len(versions[w])
    /\ \A i \in 1..Len(versions[w]) :
         /\ versions[w][i].status = "published" <=> i = active[w]
         /\ versions[w][i].status = "draft" => i = Len(versions[w])

(* "concurrent requests cannot allocate the same version number"           *)
(* (docs/adr/003): the workflow's lock already keeps the numbers apart,    *)
(* the unique index never refuses an insert.                               *)
VersionNumbersDiffer ==
  \A w \in Workflows : \A i \in 1..Len(versions[w]) : versions[w][i].versionNo = i

(* What a transaction has read under its row lock is still so when it      *)
(* commits: the latest number, the latest draft and the active version,    *)
(* and that the credential is not archived.  What a request read without a *)
(* lock may be out of date, but the workflow and the version still exist.  *)
RequestHolds(r) ==
  /\ At(r, "updating") \/ At(r, "archiving") =>
       /\ rowLock[request[r].credential] = r
       /\ Available(request[r].credential)
       /\ At(r, "updating") => credentials[request[r].credential].secret < MaxSecrets
  /\ At(r, "drafting") => versions[request[r].workflow] # <<>>
  /\ At(r, "draftLocked") =>
       LET w == request[r].workflow IN
         /\ rowLock[w] = r
         /\ request[r].latest = Len(versions[w])
         /\ request[r].latest \in 1..(MaxVersions - 1)
  /\ At(r, "publishing") =>
       LET w == request[r].workflow IN
         /\ rowLock[w] = r
         /\ request[r].draft = Len(versions[w])
         /\ versions[w][request[r].draft].status = "draft"
         /\ request[r].previous = active[w]
  /\ At(r, "triggering") => request[r].version \in 1..Len(versions[request[r].workflow])

LockedReadsHold == \A r \in Requests : RequestHolds(r)

(* An execution runs the version that is active when its trigger reads     *)
(* that version, although the trigger learned its id in an earlier         *)
(* statement and a publication may have come between.                      *)
ExecutionsRunActiveVersion ==
  [][\A run \in executions' \ executions : run[2] = active[run[1]]]_vars

(* "Version content is immutable after creation" (docs/adr/003): number    *)
(* and definition of a row never change, and a retired version never       *)
(* returns.                                                                *)
KeepsVersions(w) ==
  /\ Len(versions[w]) <= Len(versions'[w])
  /\ \A i \in 1..Len(versions[w]) :
       /\ versions'[w][i].versionNo = versions[w][i].versionNo
       /\ versions'[w][i].uses = versions[w][i].uses
       /\ versions[w][i].status = "retired" => versions'[w][i] = versions[w][i]

VersionsAreImmutable == [][\A w \in Workflows : KeepsVersions(w)]_vars

(* Publishing moves a workflow forward: a slow publication never brings    *)
(* back a definition older than the active one.                            *)
ActiveVersionMovesForward == [][\A w \in Workflows : active[w] <= active'[w]]_vars

(* A secret that is rotated while its credential is archived is not        *)
(* written to the archived row.                                            *)
ArchivedCredentialsAreFinal ==
  [][\A c \in Credentials :
       credentials[c].state = "archived" => credentials'[c] = credentials[c]]_vars

(* "A credential used by an active published workflow cannot be archived", *)
(* and publishing rejects unavailable ones                                 *)
(* (docs/architecture/credential-management.md).                           *)
ActiveVersionsHaveCredentials ==
  \A w \in Workflows :
    active[w] # 0 => CredentialsAvailable(versions[w][active[w]].uses)

(* Where requests follow one another the promise above is kept: it takes   *)
(* an archive, a draft or a publication between another request's check    *)
(* and its commit to break it.                                             *)
OneAtATime == \A r, other \in Requests : r # other => request[r] = Idle \/ request[other] = Idle

SerialRequestsKeepCredentials == []OneAtATime => []ActiveVersionsHaveCredentials

(* "Publishing atomically switches the active version" (docs/adr/003), but *)
(* a trigger reads the workflow and then the version: it is told that      *)
(* there is no active version only if there is none, or if a publication   *)
(* has replaced the one it had read.                                       *)
TriggersLoseOnlyToPublication ==
  [][\A r \in Requests :
       LET w == request'[r].workflow IN
         At(r, "noActiveVersion")' /\ ~At(r, "noActiveVersion")
           => active[w] = 0 \/ (At(r, "triggering") /\ request[r].version # active[w])]_vars
===============================================================================
