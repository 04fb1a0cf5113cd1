--------------------------- MODULE ExecutionScreens ---------------------------
(***************************************************************************)
(* One browser tab that watches executions: the history of a workflow      *)
(* (execution-history-screen.tsx), which it loads page by page, and the    *)
(* page of one execution (execution-detail-screen.tsx), which it polls     *)
(* and from which it cancels.                                              *)
(*                                                                         *)
(* What it watches is ExecutionLifecycle, which ExecutionStore implements. *)
(* Of an execution's step runs the screens see which are complete, and of  *)
(* its events the status they add up to (ExecutionStore's                  *)
(* TimelineRebuildsState).                                                 *)
(*                                                                         *)
(* A request is sent, reads the database, is answered; the three are steps *)
(* of their own, several requests are in flight at once, and any of them   *)
(* may fail.  A screen that is left forgets its state and its requests.    *)
(***************************************************************************)
EXTENDS ExecutionLifecycle, SequencesExt

CONSTANTS
  CreatedAt,      \* executions.createdAt, in the database's microseconds
  MicrosPerMilli, \* microseconds that make one millisecond of a JavaScript Date
  Filters,        \* status filters that the user selects besides "all"
  Limit,          \* executions per page
  History,        \* the history screen, as opposed to an execution's page
  None,           \* null
  MaxInFlight     \* bound on the requests in flight

ASSUME ScreensAssumption ==
  /\ Executions \subseteq Nat /\ IsFiniteSet(Executions) /\ AlreadyQueued \subseteq Executions
  /\ History \notin Executions /\ None \notin Executions
  /\ CreatedAt \in [Executions -> Nat]
  /\ MicrosPerMilli \in Nat \ {0} /\ Limit \in Nat \ {0} /\ MaxInFlight \in Nat \ {0}

VARIABLES
  page,         \* History, or the execution whose page is open
  screen,       \* "loading", "reloading", "open" or "failed"
  executions,   \* the executions that the history shows
  nextCursor,   \* the last of them when there are more
  statusFilter, \* the selected filter
  detail,       \* executionDetail: status, steps, events; <<>> for null
  dialogOpen,   \* cancelDialogOpen
  requests,     \* the requests in flight
  mixed         \* history variable: the list holds an answer to another list's request

server == <<phase, completed>>
list == <<executions, nextCursor, statusFilter, mixed>>
screensVars == <<server, page, screen, list, detail, dialogOpen, requests>>

-------------------------------------------------------------------------------
(* isActiveStatus                                                          *)
Active(status) == status \in {"queued", "running"}
Ended(status) == status \in {"succeeded", "failed", "cancelled"}

(* A request: "live" is whether the effect that polls is still set up,     *)
(* "checked" whether the API has found its cursor, if it has one.          *)
Request(kind, filter, cursor) ==
  [kind |-> kind, filter |-> filter, cursor |-> cursor, live |-> kind = "poll",
   checked |-> cursor = None, reply |-> <<>>]

InFlight(kind) == \E r \in requests : r.kind = kind

Send(request) ==
  /\ Cardinality(requests) < MaxInFlight
  /\ requests' = requests \cup {request}

Replied(r, reply) == requests' = (requests \ {r}) \cup {[r EXCEPT !.reply = reply]}

(* React runs the cleanup of an effect when what it depends on changes: a  *)
(* poll in flight then is the last one of its loop, and still applies its  *)
(* answer.                                                                 *)
StopPolls(r, changed) ==
  IF changed THEN {[q EXCEPT !.live = FALSE] : q \in requests \ {r}} ELSE requests \ {r}

HasActive(shown) == \E i \in DOMAIN shown : Active(shown[i].status)

-------------------------------------------------------------------------------
(* The API                                                                 *)

Exists(e) == phase[e] # "absent"
Matches(status, filter) == filter \in {"all", status}

(* orderBy(desc(createdAt), desc(id))                                      *)
Newer(d, e) == \/ CreatedAt[d] > CreatedAt[e]
               \/ CreatedAt[d] = CreatedAt[e] /\ d > e

Milli(e) == CreatedAt[e] \div MicrosPerMilli

(* Broken: the row of the cursor is listed again.                          *)
FromCursor(e, c) == e = c \/ Newer(c, e)

(* The cursor's createdAt went through a Date: it lost its microseconds.   *)
AfterCursor(e, c) ==
  \/ CreatedAt[e] < Milli(c) * MicrosPerMilli
  \/ CreatedAt[e] = Milli(c) * MicrosPerMilli /\ e < c

Listed(filter, cursor) ==
  {e \in Executions : /\ Exists(e) /\ Matches(phase[e], filter)
                      /\ cursor # None => AfterCursor(e, cursor)}

NewestFirst(rows) == \A i, j \in DOMAIN rows : i < j => Newer(rows[i], rows[j])

Rows(filter, cursor) ==
  LET listed == Listed(filter, cursor)
  IN  CHOOSE rows \in [1..Cardinality(listed) -> listed] : ToSet(rows) = listed /\ NewestFirst(rows)

(* Broken: the row that shows that there is more is taken for the cursor.  *)
CursorOfNextRow(rows) == IF Len(rows) > Limit THEN rows[Limit + 1] ELSE None

CursorOf(rows) == IF Len(rows) > Limit THEN rows[Limit] ELSE None

(* listExecutionsByWorkflowAndOwner                                        *)
Page(filter, cursor) ==
  LET rows == Rows(filter, cursor)
      shown == SubSeq(rows, 1, IF Len(rows) < Limit THEN Len(rows) ELSE Limit)
  IN  [executions |-> [i \in DOMAIN shown |-> [id |-> shown[i], status |-> phase[shown[i]]]],
       nextCursor |-> CursorOf(rows)]

(* The cursor is looked up by a statement of its own, before the page is   *)
(* read, and its row has to match the filter as well: otherwise the answer *)
(* is INVALID_CURSOR, and RequestFails is all that is left.  createdAt     *)
(* never changes, so of the cursor only its status may be stale by then.   *)
CheckCursor(r) ==
  /\ page = History /\ r.reply = <<>> /\ ~r.checked
  /\ Matches(phase[r.cursor], r.filter)
  /\ requests' = (requests \ {r}) \cup {[r EXCEPT !.checked = TRUE]}
  /\ UNCHANGED <<server, page, screen, list, detail, dialogOpen>>

ListExecutions(r) ==
  /\ page = History /\ r.reply = <<>> /\ r.checked
  /\ Replied(r, <<Page(r.filter, r.cursor)>>)
  /\ UNCHANGED <<server, page, screen, list, detail, dialogOpen>>

(* Broken: the steps are read before the execution.                        *)
StepsFirst(e, read) ==
  CASE Len(read) = 0 -> <<completed[e]>>
    [] Len(read) = 1 -> <<phase[e], read[1]>>
    [] OTHER -> Append(read, phase[e])

(* getExecutionDetailByOwner: three statements, and no transaction.        *)
ReadOn(e, read) ==
  CASE Len(read) = 0 -> <<phase[e]>>
    [] Len(read) = 1 -> Append(read, completed[e])
    [] OTHER -> Append(read, phase[e])

ReadExecutionDetail(r) ==
  /\ page \in Executions /\ r.kind \in {"load", "poll"} /\ Len(r.reply) < 3
  /\ Replied(r, ReadOn(page, r.reply))
  /\ UNCHANGED <<server, page, screen, list, detail, dialogOpen>>

(* cancelExecutionByOwner: one transaction, which reads what it answers.   *)
CancelExecution(r) ==
  /\ r.kind = "cancel" /\ r.reply = <<>>
  /\ IF phase[page] = "cancelled" THEN UNCHANGED server ELSE Cancel(page)
  /\ Replied(r, <<"cancelled", completed[page], "cancelled">>)
  /\ UNCHANGED <<page, screen, list, detail, dialogOpen>>

-------------------------------------------------------------------------------
(* Navigation                                                              *)

Enter(destination) ==
  /\ page' = destination
  /\ screen' = "loading"
  /\ executions' = <<>> /\ nextCursor' = None /\ statusFilter' = "all" /\ mixed' = FALSE
  /\ detail' = <<>> /\ dialogOpen' = FALSE
  /\ requests' = {Request("load", "all", None)}

ScreensInit ==
  /\ Init
  /\ page = History /\ screen = "loading"
  /\ executions = <<>> /\ nextCursor = None /\ statusFilter = "all" /\ mixed = FALSE
  /\ detail = <<>> /\ dialogOpen = FALSE
  /\ requests = {Request("load", "all", None)}

OpenExecution ==
  /\ page = History /\ screen = "open"
  /\ \E i \in DOMAIN executions : Enter(executions[i].id)
  /\ UNCHANGED server

(* The link on the page; or, when loading failed, by way of the workflows. *)
BackToHistory ==
  /\ screen = "failed" \/ (page # History /\ screen # "loading")
  /\ Enter(History)
  /\ UNCHANGED server

-------------------------------------------------------------------------------
(* The history                                                             *)

SelectFilter(filter) ==
  /\ page = History /\ screen = "open" /\ filter # statusFilter
  /\ statusFilter' = filter /\ mixed' = TRUE
  /\ screen' = "reloading"
  /\ requests' = {[r EXCEPT !.live = FALSE] : r \in requests}
                   \cup {Request("load", filter, None)}
  /\ Cardinality(requests) < MaxInFlight
  /\ UNCHANGED <<server, page, executions, nextCursor, detail, dialogOpen>>

(* The buttons are disabled while isRefreshing.                            *)
Fetch(cursor) ==
  /\ page = History /\ screen = "open" /\ ~InFlight("fetch")
  /\ Send(Request("fetch", statusFilter, cursor))
  /\ UNCHANGED <<server, page, screen, list, detail, dialogOpen>>

Refresh == Fetch(None)

LoadMore == nextCursor # None /\ Fetch(nextCursor)

(* Shows a page: [...current, ...page.executions] after a cursor.          *)
ShowPage(r) ==
  LET answer == r.reply[1]
      appended == r.cursor # None
      shown == IF appended THEN executions \o answer.executions ELSE answer.executions
  IN  /\ executions' = shown
      /\ nextCursor' = answer.nextCursor
      /\ mixed' = (\/ r.filter # statusFilter
                   \/ appended /\ (mixed \/ r.cursor # nextCursor))
      /\ requests' = StopPolls(r, HasActive(shown) # HasActive(executions))

ListAnswered(r) ==
  /\ page = History /\ r.reply # <<>>
  /\ ShowPage(r)
  /\ screen' = IF r.kind = "load" THEN "open" ELSE screen
  /\ UNCHANGED <<server, page, statusFilter, detail, dialogOpen>>

-------------------------------------------------------------------------------
(* The page of an execution                                                *)

OpenCancelDialog ==
  /\ page \in Executions /\ screen = "open" /\ Active(detail[1])
  /\ ~dialogOpen /\ ~InFlight("cancel")
  /\ dialogOpen' = TRUE
  /\ UNCHANGED <<server, page, screen, list, detail, requests>>

CloseCancelDialog ==
  /\ dialogOpen
  /\ dialogOpen' = FALSE
  /\ UNCHANGED <<server, page, screen, list, detail, requests>>

CancelCurrentExecution ==
  /\ dialogOpen /\ ~InFlight("cancel")
  /\ Active(detail[1])
  /\ Send(Request("cancel", "all", None))
  /\ UNCHANGED <<server, page, screen, list, detail, dialogOpen>>

DetailAnswered(r) ==
  /\ page \in Executions /\ Len(r.reply) = 3
  /\ detail' = r.reply
  /\ requests' = StopPolls(r, detail # <<>> /\ detail[1] # r.reply[1])
  /\ screen' = "open"
  /\ dialogOpen' = (dialogOpen /\ r.kind # "cancel")
  /\ UNCHANGED <<server, page, list>>

-------------------------------------------------------------------------------
(* Both                                                                    *)

(* Broken: only the newest execution is watched.                           *)
NewestPolled == IF page = History THEN executions # <<>> /\ Active(executions[1].status)
                ELSE detail # <<>> /\ Active(detail[1])

Polled == IF page = History THEN HasActive(executions)
          ELSE detail # <<>> /\ Active(detail[1])

(* Broken: the next poll does not wait for the answer to the last.         *)
NeverPending == FALSE

PollPending == \E r \in requests : r.kind = "poll" /\ r.live

StartPoll ==
  /\ Polled /\ ~PollPending
  /\ Send(Request("poll", statusFilter, None))
  /\ UNCHANGED <<server, page, screen, list, detail, dialogOpen>>

(* A load that fails is not repeated; a poll is.  Whether a request that   *)
(* only reads fails before or after that makes no difference.              *)
RequestFails(r) ==
  /\ r.reply # <<>> => r.kind = "cancel"
  /\ requests' = requests \ {r}
  /\ screen' = IF r.kind # "load" THEN screen
               ELSE IF screen = "loading" THEN "failed" ELSE "open"
  /\ UNCHANGED <<server, page, list, detail, dialogOpen>>

(* The workers, and the other users of the workflow.                       *)
Others == Next /\ UNCHANGED <<page, screen, list, detail, dialogOpen, requests>>

Serve(r) ==
  \/ CheckCursor(r) \/ ListExecutions(r)
  \/ ReadExecutionDetail(r)
  \/ CancelExecution(r)

Answer(r) == ListAnswered(r) \/ DetailAnswered(r)

SomeRequestGoesOn == \E r \in requests : Serve(r) \/ Answer(r) \/ RequestFails(r)

ScreensNext ==
  \/ Others
  \/ OpenExecution \/ BackToHistory
  \/ Refresh \/ LoadMore
  \/ \E filter \in Filters \cup {"all"} : SelectFilter(filter)
  \/ OpenCancelDialog \/ CloseCancelDialog \/ CancelCurrentExecution
  \/ StartPoll
  \/ SomeRequestGoesOn

(* Workers may stop.  An open tab goes on polling (its user is slower than *)
(* the interval), a request ends one way or the other, and polls do not    *)
(* fail for ever.                                                          *)
ServePoll(n) == \E r \in requests : r.kind = "poll" /\ Len(r.reply) = n /\ Serve(r)
AnswerPoll == \E r \in requests : r.kind = "poll" /\ Answer(r)

ScreensSpec ==
  /\ ScreensInit /\ [][ScreensNext]_screensVars
  /\ SF_screensVars(StartPoll)
  /\ WF_screensVars(SomeRequestGoesOn)
  /\ \A n \in 0..2 : SF_screensVars(ServePoll(n))
  /\ SF_screensVars(AnswerPoll)

-------------------------------------------------------------------------------
(* Properties                                                              *)

(* The page reads an execution in three statements, during which it may    *)
(* go on.  Yet once the page shows that the execution has ended, and so    *)
(* polls no more, its step runs and its event log are the final ones.      *)
ShownEndIsComplete ==
  detail # <<>> /\ Ended(detail[1]) =>
    detail = <<phase[page], completed[page], phase[page]>>

(* Answers overtake each other, and the page shows the one that comes      *)
(* last.  But an end that the workers reported is never taken back: at     *)
(* most one poll is in flight, and only the answer to a cancellation can   *)
(* overtake it.                                                            *)
OnlyCancellationIsTakenBack ==
  [][page' = page /\ detail # <<>> /\ detail[1] \in {"succeeded", "failed"}
       => detail' = detail]_screensVars

(* The history lists every execution once, newest first, and none that the *)
(* filter had excluded, except after an answer came to a list that had     *)
(* been replaced meanwhile: the screen does not compare the two.           *)
ListIsInOrder ==
  page = History /\ ~mixed =>
    /\ \A i, j \in DOMAIN executions : i < j => Newer(executions[i].id, executions[j].id)
    /\ \A i \in DOMAIN executions : Matches(executions[i].status, statusFilter)

(* Loading more until there is no more reaches every execution that was    *)
(* there from the beginning, but for those that were created in the same   *)
(* millisecond as the last one of a page.                                  *)
EveryExecutionIsListed ==
  page = History /\ ~mixed /\ executions # <<>> /\ statusFilter = "all" /\ nextCursor = None =>
    \A e \in AlreadyQueued :
      \E i \in DOMAIN executions :
        \/ executions[i].id = e
        \/ Newer(executions[i].id, e) /\ Milli(executions[i].id) = Milli(e)

(* An execution that has ended does not stay active on any screen: polling *)
(* outlasts failed requests, answers that overtake each other, lists that  *)
(* mix, and the stale answer that follows a cancellation.                  *)
EndsAreShown ==
  <>[](/\ \A i \in DOMAIN executions :
            Active(executions[i].status) => Active(phase[executions[i].id])
       /\ detail # <<>> /\ Active(detail[1]) => Active(phase[page]))
===============================================================================
