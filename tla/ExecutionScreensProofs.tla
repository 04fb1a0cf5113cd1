------------------------ MODULE ExecutionScreensProofs ------------------------
(***************************************************************************)
(* Proofs about the page of an execution, what it shows once it has shown  *)
(* an end, and about the history, what its list holds and reaches, for     *)
(* every number of executions, steps and requests in flight.               *)
(***************************************************************************)
EXTENDS ExecutionScreens, FiniteSetTheorems, TLAPS

Statuses == {"absent", "queued", "running", "succeeded", "failed", "cancelled"}

(* What one of the three reads of an execution may find.                   *)
Seen == Statuses \cup SUBSET (1..StepCount)

RowsHold ==
  /\ phase \in [Executions -> Statuses]
  /\ completed \in [Executions -> SUBSET (1..StepCount)]

(* Reads that began with an end have found the rows as they will stay.     *)
Final(e, read) ==
  Len(read) > 0 /\ Ended(read[1]) =>
    /\ read[1] = phase[e]
    /\ Len(read) > 1 => read[2] = completed[e]
    /\ Len(read) > 2 => read[3] = phase[e]

RequestHolds(r) ==
  /\ r = [kind |-> r.kind, filter |-> r.filter, cursor |-> r.cursor,
          live |-> r.live, checked |-> r.checked, reply |-> r.reply]
  /\ r.kind \in {"load", "poll", "cancel"}
  /\ r.live \in BOOLEAN
  /\ r.live => r.kind = "poll"
  /\ r.reply \in Seq(Seen) /\ Len(r.reply) <= 3
  /\ Final(page, r.reply)
  /\ r.kind = "cancel" => r.reply = <<>> \/ (Len(r.reply) = 3 /\ r.reply[1] = "cancelled")

RequestsHold == \A r \in requests : RequestHolds(r)

DetailHolds ==
  detail # <<>> => /\ detail \in Seq(Seen) /\ Len(detail) = 3
                   /\ Final(page, detail)

(* The page loads once, then at most one poll is in flight, and a poll     *)
(* outlives its effect only when a cancellation has been answered.         *)
OnePoll ==
  /\ detail = <<>> =>
       /\ \A r, q \in requests : r.kind = "load" /\ r = q
       /\ requests # {} => screen = "loading"
       /\ screen \in {"loading", "failed"} /\ ~dialogOpen
  /\ detail # <<>> => \A r \in requests : r.kind # "load"
  /\ \A r, q \in requests : r.kind = "poll" /\ q.kind = "poll" => r = q
  /\ \A r \in requests : r.kind = "poll" /\ ~r.live => detail[1] = "cancelled"
  /\ detail # <<>> /\ detail[1] \in {"succeeded", "failed"} =>
       \A r \in requests : r.kind # "poll"

PageHolds == RequestsHold /\ DetailHolds /\ OnePoll

IInv ==
  /\ RowsHold
  /\ page \in Executions => PageHolds
  /\ page \notin Executions => detail = <<>>

-------------------------------------------------------------------------------
(* The rows of an execution keep their types, and do not change once it    *)
(* has ended.                                                              *)
LEMMA RowsStep ==
  ASSUME RowsHold, Next \/ UNCHANGED server
  PROVE  /\ RowsHold'
         /\ \A e \in Executions : Ended(phase[e]) =>
              phase'[e] = phase[e] /\ completed'[e] = completed[e]
<1>1. CASE Next
  <2>1. PICK d \in Executions :
          \/ Trigger(d) \/ Start(d) \/ Fail(d) \/ Cancel(d)
          \/ \E k \in 1..StepCount : CompleteStep(d, k)
    BY <1>1 DEF Next
  <2>2. CASE Trigger(d) \/ Start(d) \/ Fail(d) \/ Cancel(d)
    BY <2>2 DEF Trigger, Start, Fail, Cancel, Move, Ended, RowsHold, Statuses
  <2>3. CASE \E k \in 1..StepCount : CompleteStep(d, k)
    <3>1. PICK k \in 1..StepCount : CompleteStep(d, k)
      BY <2>3
    <3>2. completed'  \in [Executions -> SUBSET (1..StepCount)]
      BY <3>1 DEF CompleteStep, RowsHold
    <3>3. phase' \in [Executions -> Statuses]
      BY <3>1 DEF CompleteStep, RowsHold, Statuses
    <3>4. \A e \in Executions : Ended(phase[e]) => e # d
      BY <3>1 DEF CompleteStep, Ended
    <3> QED
      BY <3>1, <3>2, <3>3, <3>4 DEF CompleteStep, RowsHold
  <2> QED
    BY <2>1, <2>2, <2>3
<1>2. CASE UNCHANGED server
  BY <1>2 DEF server, RowsHold
<1> QED
  BY <1>1, <1>2

(* So reads that are final stay final.                                     *)
LEMMA FinalStays ==
  ASSUME RowsHold, Next \/ UNCHANGED server, NEW e \in Executions, NEW read, Final(e, read)
  PROVE  Final(e, read)'
BY RowsStep DEF Final

LEMMA InitInvariant == ScreensInit => IInv
<1> SUFFICES ASSUME ScreensInit PROVE IInv
  OBVIOUS
<1>1. RowsHold
  BY DEF ScreensInit, Init, RowsHold, Statuses
<1> QED
  BY <1>1, ScreensAssumption DEF ScreensInit, IInv

(* What has been sent and not been dealt with holds no reads.              *)
LEMMA NewRequest ==
  ASSUME NEW kind \in {"load", "poll", "cancel"}, NEW filter, NEW cursor,
         NEW r, r = Request(kind, filter, cursor)
  PROVE  /\ RequestHolds(r) /\ RequestHolds(r)'
         /\ r.kind = kind /\ r.live = (kind = "poll")
<1>1. /\ r = [kind |-> r.kind, filter |-> r.filter, cursor |-> r.cursor,
              live |-> r.live, checked |-> r.checked, reply |-> r.reply]
      /\ r.kind = kind /\ r.live = (kind = "poll") /\ r.reply = <<>>
  BY DEF Request
<1>2. r.reply \in Seq(Seen) /\ Len(r.reply) = 0
  BY <1>1
<1>3. Final(page, r.reply) /\ Final(page, r.reply)'
  BY <1>2 DEF Final
<1>4. r.live \in BOOLEAN /\ (r.live => r.kind = "poll")
  BY <1>1
<1>5. r.reply \in Seq(Seen) /\ Len(r.reply) <= 3
  BY <1>2
<1>6. r.kind \in {"load", "poll", "cancel"} /\ r.reply = <<>>
  BY <1>1
<1> QED
  BY <1>1, <1>3, <1>4, <1>5, <1>6 DEF RequestHolds

(* A page that is entered knows nothing and has one request.               *)
LEMMA EnterInvariant ==
  ASSUME RowsHold, NEW destination, Enter(destination), UNCHANGED server
  PROVE  IInv'
<1>1. RowsHold'
  BY RowsStep
<1>2. PICK r : r = Request("load", "all", None)
  OBVIOUS
<1>3. detail' = <<>> /\ requests' = {r} /\ screen' = "loading" /\ dialogOpen' = FALSE
  BY <1>2 DEF Enter
<1>4. RequestHolds(r)' /\ r.kind = "load"
  BY <1>2, NewRequest
<1> QED
  BY <1>1, <1>3, <1>4 DEF IInv, PageHolds, RequestsHold, DetailHolds, OnePoll

-------------------------------------------------------------------------------
(* What only the history does leaves the page's invariant alone.           *)
LEMMA OnlyHistory ==
  ASSUME IInv, page = History, page' = page, UNCHANGED <<server, detail>>
  PROVE  IInv'
<1>1. RowsHold'
  BY RowsStep DEF IInv
<1> QED
  BY <1>1, ScreensAssumption DEF IInv

(* Workers and other users go on; what has been read of an end stays.      *)
LEMMA OthersInvariant ==
  ASSUME IInv, Next \/ UNCHANGED server, UNCHANGED <<page, screen, detail, requests>>,
         dialogOpen' => dialogOpen \/ detail # <<>>
  PROVE  IInv'
<1>1. RowsHold'
  BY RowsStep DEF IInv
<1>2. ASSUME page \in Executions PROVE PageHolds'
  <2>1. PageHolds
    BY <1>2 DEF IInv
  <2>2. RequestsHold'
    BY <1>2, <2>1, FinalStays DEF IInv, PageHolds, RequestsHold, RequestHolds
  <2>3. DetailHolds'
    BY <1>2, <2>1, FinalStays DEF IInv, PageHolds, DetailHolds
  <2>4. OnePoll'
    BY <2>1 DEF PageHolds, OnePoll
  <2> QED
    BY <2>2, <2>3, <2>4 DEF PageHolds
<1> QED
  BY <1>1, <1>2 DEF IInv

(* A cancellation and a poll are sent to an execution that is shown as     *)
(* active, and a poll only when none is left.                              *)
LEMMA SendInvariant ==
  ASSUME IInv, CancelCurrentExecution \/ StartPoll
  PROVE  IInv'
<1>1. UNCHANGED <<server, page, screen, detail, dialogOpen>>
  BY DEF CancelCurrentExecution, StartPoll
<1>2. RowsHold'
  BY <1>1, RowsStep DEF IInv
<1>3. ASSUME page \in Executions PROVE PageHolds'
  <2>1. PageHolds /\ page # History
    BY <1>3, ScreensAssumption DEF IInv
  <2>2. detail # <<>> /\ Active(detail[1])
    BY <2>1 DEF CancelCurrentExecution, StartPoll, Polled, PageHolds, OnePoll
  <2>3. PICK r : /\ requests' = requests \cup {r}
                 /\ \/ r = Request("cancel", "all", None)
                    \/ r = Request("poll", statusFilter, None) /\ ~PollPending
    BY DEF CancelCurrentExecution, StartPoll, Send
  <2>4. /\ RequestHolds(r)'
        /\ r.kind = "cancel" \/ (r.kind = "poll" /\ r.live /\ ~PollPending)
    <3>1. CASE r = Request("cancel", "all", None)
      BY <3>1, NewRequest
    <3>2. CASE r = Request("poll", statusFilter, None) /\ ~PollPending
      <4>1. RequestHolds(r)' /\ r.kind = "poll"
        BY <3>2, NewRequest
      <4>2. r.live
        BY <3>2 DEF Request
      <4> QED
        BY <3>2, <4>1, <4>2
    <3> QED
      BY <2>3, <3>1, <3>2
  <2>5. RequestsHold'
    <3>1. \A q \in requests : RequestHolds(q)'
      BY <1>1, <1>3, <2>1, FinalStays DEF IInv, PageHolds, RequestsHold, RequestHolds
    <3> QED
      BY <2>3, <2>4, <3>1 DEF RequestsHold
  <2>6. DetailHolds'
    BY <1>1, <1>3, <2>1, FinalStays DEF IInv, PageHolds, DetailHolds
  <2>7. r.kind = "poll" => \A q \in requests : q.kind # "poll"
    BY <2>1, <2>2, <2>4 DEF PageHolds, OnePoll, PollPending, Active
  <2>8. OnePoll'
    BY <1>1, <2>1, <2>2, <2>3, <2>4, <2>7 DEF PageHolds, OnePoll, Active
  <2> QED
    BY <2>5, <2>6, <2>8 DEF PageHolds
<1> QED
  BY <1>1, <1>2, <1>3 DEF IInv

LEMMA FailureInvariant ==
  ASSUME IInv, NEW r \in requests, RequestFails(r)
  PROVE  IInv'
<1>1. UNCHANGED <<server, page, detail, dialogOpen>> /\ requests' = requests \ {r}
  BY DEF RequestFails
<1>2. RowsHold'
  BY <1>1, RowsStep DEF IInv
<1>3. ASSUME page \in Executions PROVE PageHolds'
  <2>1. PageHolds
    BY <1>3 DEF IInv
  <2>2. RequestsHold'
    BY <1>1, <1>3, <2>1, FinalStays DEF IInv, PageHolds, RequestsHold, RequestHolds
  <2>3. DetailHolds'
    BY <1>1, <1>3, <2>1, FinalStays DEF IInv, PageHolds, DetailHolds
  <2>4. detail = <<>> => requests' = {} /\ screen' = "failed"
    BY <1>1, <2>1 DEF PageHolds, OnePoll, RequestFails
  <2>5. OnePoll'
    BY <1>1, <2>1, <2>4 DEF PageHolds, OnePoll
  <2> QED
    BY <2>2, <2>3, <2>5 DEF PageHolds
<1> QED
  BY <1>1, <1>2, <1>3 DEF IInv

(* A request that has read once more is the same request.                  *)
LEMMA RepliedInvariant ==
  ASSUME IInv, RowsHold', page \in Executions, UNCHANGED <<page, screen, detail, dialogOpen>>,
         \A e \in Executions : Ended(phase[e]) =>
           phase'[e] = phase[e] /\ completed'[e] = completed[e],
         NEW r \in requests, NEW reply, Replied(r, reply),
         reply \in Seq(Seen), Len(reply) <= 3, Final(page, reply)',
         r.kind = "cancel" => reply = <<>> \/ (Len(reply) = 3 /\ reply[1] = "cancelled")
  PROVE  IInv'
<1>1. PageHolds /\ RequestHolds(r)
  BY DEF IInv, PageHolds, RequestsHold
<1>2. PICK q : q = [r EXCEPT !.reply = reply]
  OBVIOUS
<1>3. requests' = (requests \ {r}) \cup {q}
  BY <1>2 DEF Replied
<1>4. /\ q = [kind |-> r.kind, filter |-> r.filter, cursor |-> r.cursor,
              live |-> r.live, checked |-> r.checked, reply |-> reply]
  BY <1>1, <1>2 DEF RequestHolds
<1>5. q.kind = r.kind /\ q.live = r.live /\ q.reply = reply
  BY <1>4
<1>6. RequestHolds(q)'
  <2>1. /\ q = [kind |-> q.kind, filter |-> q.filter, cursor |-> q.cursor,
                live |-> q.live, checked |-> q.checked, reply |-> q.reply]
    BY <1>4
  <2>2. /\ q.kind \in {"load", "poll", "cancel"}
        /\ q.live \in BOOLEAN /\ (q.live => q.kind = "poll")
    BY <1>1, <1>5 DEF RequestHolds
  <2> QED
    BY <1>5, <2>1, <2>2 DEF RequestHolds
<1>7. \A p \in requests : RequestHolds(p)'
  BY <1>1 DEF PageHolds, RequestsHold, RequestHolds, Final
<1>8. RequestsHold'
  BY <1>3, <1>6, <1>7 DEF RequestsHold
<1>9. DetailHolds'
  BY <1>1 DEF PageHolds, DetailHolds, Final
<1>10. OnePoll'
  BY <1>1, <1>3, <1>5 DEF PageHolds, OnePoll
<1> QED
  BY <1>8, <1>9, <1>10 DEF IInv, PageHolds

(* Each statement finds the rows as they are; once the first has found an  *)
(* end, the others find the final rows.                                    *)
LEMMA ReadInvariant ==
  ASSUME IInv, NEW r \in requests, ReadExecutionDetail(r)
  PROVE  IInv'
<1>1. page \in Executions /\ Len(r.reply) < 3 /\ r.kind # "cancel"
  BY DEF ReadExecutionDetail
<1>2. RequestHolds(r)
  BY <1>1 DEF IInv, PageHolds, RequestsHold
<1>3. PICK reply : reply = ReadOn(page, r.reply)
  OBVIOUS
<1>4. phase[page] \in Seen /\ completed[page] \in Seen
  BY <1>1 DEF IInv, RowsHold, Seen
<1>5. reply \in Seq(Seen) /\ Len(reply) <= 3 /\ Final(page, reply)
  <2>1. r.reply \in Seq(Seen) /\ Len(r.reply) \in Nat
    BY <1>2 DEF RequestHolds
  <2>2. CASE Len(r.reply) = 0
    BY <1>3, <1>4, <2>1, <2>2 DEF ReadOn, Final
  <2>3. CASE Len(r.reply) = 1
    <3>1. reply = Append(r.reply, completed[page])
      BY <1>3, <2>3 DEF ReadOn
    <3>2. /\ reply \in Seq(Seen) /\ Len(reply) = 2
          /\ reply[1] = r.reply[1] /\ reply[2] = completed[page]
      BY <1>4, <2>1, <2>3, <3>1
    <3> QED
      BY <1>2, <2>3, <3>2 DEF Final, RequestHolds
  <2>4. CASE Len(r.reply) = 2
    <3>1. reply = Append(r.reply, phase[page])
      BY <1>3, <2>4 DEF ReadOn
    <3>2. /\ reply \in Seq(Seen) /\ Len(reply) = 3
          /\ reply[1] = r.reply[1] /\ reply[2] = r.reply[2] /\ reply[3] = phase[page]
      BY <1>4, <2>1, <2>4, <3>1
    <3> QED
      BY <1>2, <2>4, <3>2 DEF Final, RequestHolds
  <2>5. Len(r.reply) \in {0, 1, 2}
    <3>1. \A n \in Nat : n < 3 => n \in {0, 1, 2}
      OBVIOUS
    <3> QED
      BY <1>1, <2>1, <3>1
  <2> QED
    BY <2>2, <2>3, <2>4, <2>5
<1>6. UNCHANGED <<server, page, screen, detail, dialogOpen>> /\ Replied(r, reply)
  BY <1>3 DEF ReadExecutionDetail
<1>7. RowsHold' /\ Final(page, reply)' /\ UNCHANGED <<phase, completed>>
  BY <1>5, <1>6, RowsStep DEF IInv, Final, server
<1> QED
  BY <1>1, <1>5, <1>6, <1>7, RepliedInvariant

LEMMA CancelInvariant ==
  ASSUME IInv, NEW r \in requests, CancelExecution(r)
  PROVE  IInv'
<1>1. PICK reply : reply = <<"cancelled", completed[page], "cancelled">>
  OBVIOUS
<1>2. /\ UNCHANGED <<page, screen, detail, dialogOpen, completed>>
      /\ Replied(r, reply)
      /\ IF phase[page] = "cancelled" THEN UNCHANGED phase ELSE Cancel(page)
  BY <1>1 DEF CancelExecution, server, Cancel
<1>3. CASE page \in Executions
  <2>1. Next \/ UNCHANGED server
    BY <1>2, <1>3 DEF Next, server
  <2>2. phase' \in [Executions -> Statuses] /\ phase'[page] = "cancelled"
    BY <1>2, <1>3 DEF IInv, RowsHold, Cancel, Move, Statuses
  <2>3. completed[page] \in Seen /\ "cancelled" \in Seen
    BY <1>3 DEF IInv, RowsHold, Seen, Statuses
  <2>4. reply \in Seq(Seen) /\ Len(reply) = 3 /\ reply[1] = "cancelled"
        /\ reply[2] = completed[page] /\ reply[3] = "cancelled"
    BY <1>1, <2>3
  <2>5. Final(page, reply)'
    BY <1>2, <2>2, <2>4 DEF Final
  <2> QED
    <3>1. /\ RowsHold'
          /\ \A e \in Executions : Ended(phase[e]) =>
               phase'[e] = phase[e] /\ completed'[e] = completed[e]
      BY <2>1, RowsStep DEF IInv
    <3>2. Len(reply) <= 3
      BY <2>4
    <3> QED
      BY <1>2, <1>3, <2>4, <2>5, <3>1, <3>2, RepliedInvariant
<1>4. CASE page \notin Executions
  <2>1. phase' = phase
    BY <1>2, <1>4 DEF IInv, RowsHold, Cancel, Move
  <2> QED
    BY <1>2, <1>4, <2>1 DEF IInv, RowsHold
<1> QED
  BY <1>3, <1>4

(* Of the requests that are left after an answer none is a load, and none  *)
(* a poll unless the answer was that of a cancellation.                    *)
LEMMA AnswerInvariant ==
  ASSUME IInv, NEW r \in requests, DetailAnswered(r)
  PROVE  IInv'
<1>1. page \in Executions /\ UNCHANGED <<server, page>> /\ detail' = r.reply
      /\ Len(r.reply) = 3
  BY DEF DetailAnswered
<1>2. PageHolds /\ RequestHolds(r) /\ RowsHold'
  BY <1>1, RowsStep DEF IInv, PageHolds, RequestsHold
<1>3. \A q \in requests' : \E p \in requests \ {r} :
        q = p \/ q = [p EXCEPT !.live = FALSE]
  <2>1. PICK changed : requests' = StopPolls(r, changed)
    BY DEF DetailAnswered
  <2> QED
    BY <2>1 DEF StopPolls
<1>4. \A q \in requests' : \E p \in requests \ {r} :
        RequestHolds(q)' /\ q.kind = p.kind /\ (q = p \/ q = [p EXCEPT !.live = FALSE])
  <2> SUFFICES ASSUME NEW q \in requests', NEW p \in requests \ {r},
                      q = p \/ q = [p EXCEPT !.live = FALSE]
               PROVE  RequestHolds(q)' /\ q.kind = p.kind
    BY <1>3
  <2>1. RequestHolds(p)'
    BY <1>1, <1>2, FinalStays DEF IInv, PageHolds, RequestsHold, RequestHolds
  <2>2. CASE q = [p EXCEPT !.live = FALSE]
    <3>1. q = [kind |-> p.kind, filter |-> p.filter, cursor |-> p.cursor,
               live |-> FALSE, checked |-> p.checked, reply |-> p.reply]
      BY <2>1, <2>2 DEF RequestHolds
    <3>2. q.kind = p.kind /\ ~q.live /\ q.live \in BOOLEAN /\ q.reply = p.reply
      BY <3>1
    <3>3. q = [kind |-> q.kind, filter |-> q.filter, cursor |-> q.cursor,
               live |-> q.live, checked |-> q.checked, reply |-> q.reply]
      BY <3>1
    <3> QED
      BY <2>1, <3>2, <3>3 DEF RequestHolds
  <2> QED
    BY <2>1, <2>2
<1>5. RequestsHold'
  BY <1>4 DEF RequestsHold
<1>6. DetailHolds'
  BY <1>1, <1>2, FinalStays DEF IInv, RequestHolds, DetailHolds
<1>7. detail' # <<>>
  BY <1>1
<1>8. \A q \in requests' : q.kind # "load"
  BY <1>2, <1>4 DEF PageHolds, OnePoll
<1>9. \A q \in requests' : q.kind = "poll" => r.kind = "cancel" /\ r.reply[1] = "cancelled"
  BY <1>1, <1>2, <1>4 DEF PageHolds, OnePoll, RequestHolds
<1>10. \A q, p \in requests' : q.kind = "poll" /\ p.kind = "poll" => q = p
  <2> SUFFICES ASSUME NEW q \in requests', NEW p \in requests',
                      q.kind = "poll", p.kind = "poll"
               PROVE  q = p
    OBVIOUS
  <2>1. PICK changed : requests' = StopPolls(r, changed)
    BY DEF DetailAnswered
  <2>2. \A q1, p1 \in requests : q1.kind = "poll" /\ p1.kind = "poll" => q1 = p1
    BY <1>2 DEF PageHolds, OnePoll
  <2>3. CASE changed
    <3>1. \A p1 \in requests : [p1 EXCEPT !.live = FALSE].kind = p1.kind
      <4> SUFFICES ASSUME NEW p1 \in requests PROVE [p1 EXCEPT !.live = FALSE].kind = p1.kind
        OBVIOUS
      <4>1. p1 = [kind |-> p1.kind, filter |-> p1.filter, cursor |-> p1.cursor,
                  live |-> p1.live, checked |-> p1.checked, reply |-> p1.reply]
        BY <1>2 DEF PageHolds, RequestsHold, RequestHolds
      <4> QED
        BY <4>1
    <3>2. requests' = {[p1 EXCEPT !.live = FALSE] : p1 \in requests \ {r}}
      BY <2>1, <2>3 DEF StopPolls
    <3>3. PICK q1 \in requests, p1 \in requests :
            q = [q1 EXCEPT !.live = FALSE] /\ p = [p1 EXCEPT !.live = FALSE]
      BY <3>2
    <3>4. q1.kind = "poll" /\ p1.kind = "poll"
      BY <3>1, <3>3
    <3> QED
      BY <2>2, <3>3, <3>4
  <2>4. CASE ~changed
    BY <2>1, <2>2, <2>4 DEF StopPolls
  <2> QED
    BY <2>3, <2>4
<1>11. OnePoll'
  BY <1>1, <1>7, <1>8, <1>9, <1>10 DEF OnePoll
<1> QED
  BY <1>1, <1>2, <1>5, <1>6, <1>11 DEF IInv, PageHolds

LEMMA StepInvariant == IInv /\ [ScreensNext]_screensVars => IInv'
<1> SUFFICES ASSUME IInv, [ScreensNext]_screensVars PROVE IInv'
  OBVIOUS
<1>1. CASE Others \/ OpenCancelDialog \/ CloseCancelDialog \/ UNCHANGED screensVars
  <2>1. Next \/ UNCHANGED server
    BY <1>1 DEF Others, OpenCancelDialog, CloseCancelDialog, screensVars
  <2>2. UNCHANGED <<page, screen, detail, requests>>
    BY <1>1 DEF Others, OpenCancelDialog, CloseCancelDialog, screensVars
  <2>3. dialogOpen' => dialogOpen \/ detail # <<>>
    <3>1. CASE OpenCancelDialog
      BY <3>1 DEF OpenCancelDialog, IInv, PageHolds, OnePoll
    <3> QED
      BY <1>1, <3>1 DEF Others, CloseCancelDialog, screensVars
  <2> QED
    BY <2>1, <2>2, <2>3, OthersInvariant
<1>2. CASE OpenExecution \/ BackToHistory
  BY <1>2, EnterInvariant DEF OpenExecution, BackToHistory, IInv
<1>3. CASE Refresh \/ LoadMore \/ \E filter \in Filters \cup {"all"} : SelectFilter(filter)
  BY <1>3, OnlyHistory DEF Refresh, LoadMore, Fetch, SelectFilter
<1>4. CASE CancelCurrentExecution \/ StartPoll
  BY <1>4, SendInvariant
<1>5. CASE SomeRequestGoesOn
  <2>1. PICK r \in requests : Serve(r) \/ Answer(r) \/ RequestFails(r)
    BY <1>5 DEF SomeRequestGoesOn
  <2>2. CASE CheckCursor(r) \/ ListExecutions(r) \/ ListAnswered(r)
    BY <2>2, OnlyHistory DEF CheckCursor, ListExecutions, ListAnswered
  <2> QED
    BY <2>1, <2>2, ReadInvariant, CancelInvariant, AnswerInvariant, FailureInvariant
    DEF Serve, Answer
<1> QED
  BY <1>1, <1>2, <1>3, <1>4, <1>5 DEF ScreensNext

(* The invariant holds in every state.                                     *)
THEOREM ScreensInvariant == ScreensSpec => []IInv
<1> QED
  BY InitInvariant, StepInvariant, PTL DEF ScreensSpec

-------------------------------------------------------------------------------
(* Although getExecutionDetailByOwner reads in three statements, a page    *)
(* that shows an end shows the final steps and events, for every number of *)
(* steps and requests and whatever others do between the statements.       *)
THEOREM EndsAreComplete == ScreensSpec => []ShownEndIsComplete
<1>1. IInv => ShownEndIsComplete
  <2> SUFFICES ASSUME IInv, detail # <<>>, Ended(detail[1])
               PROVE  detail = <<phase[page], completed[page], phase[page]>>
    BY DEF ShownEndIsComplete
  <2>1. detail \in Seq(Seen) /\ Len(detail) = 3 /\ Final(page, detail)
    BY DEF IInv, PageHolds, DetailHolds
  <2>2. detail = <<detail[1], detail[2], detail[3]>>
    BY <2>1
  <2>3. detail[1] = phase[page] /\ detail[2] = completed[page] /\ detail[3] = phase[page]
    BY <2>1 DEF Final
  <2> QED
    BY <2>2, <2>3
<1> QED
  BY <1>1, ScreensInvariant, PTL

(* An end that the workers reported stays on the page: with a single poll  *)
(* in flight nothing older is left to arrive (the polling effect of        *)
(* execution-detail-screen.tsx).                                           *)
THEOREM EndsAreNotTakenBack == ScreensSpec => OnlyCancellationIsTakenBack
<1> DEFINE Shown == page' = page /\ detail # <<>> /\ detail[1] \in {"succeeded", "failed"}
<1>1. IInv /\ [ScreensNext]_screensVars => [Shown => detail' = detail]_screensVars
  <2> SUFFICES ASSUME IInv, ScreensNext, Shown PROVE detail' = detail
    OBVIOUS
  <2>1. page \in Executions /\ page # History /\ PageHolds
    BY ScreensAssumption DEF IInv
  <2>2. CASE OpenExecution \/ BackToHistory
    BY <2>1, <2>2 DEF OpenExecution, BackToHistory, Enter
  <2>3. ASSUME NEW r \in requests, DetailAnswered(r) PROVE FALSE
    <3>1. RequestHolds(r) /\ r.kind = "cancel" /\ Len(r.reply) = 3
      BY <2>1, <2>3 DEF PageHolds, RequestsHold, RequestHolds, OnePoll, DetailAnswered
    <3>2. phase[page] = "cancelled"
      BY <3>1 DEF RequestHolds, Final, Ended
    <3>3. phase[page] = detail[1]
      BY <2>1 DEF PageHolds, DetailHolds, Final, Ended
    <3> QED
      BY <3>2, <3>3
  <2>4. CASE SomeRequestGoesOn
    BY <2>1, <2>3, <2>4 DEF SomeRequestGoesOn, Serve, Answer, CheckCursor, ListExecutions,
      ReadExecutionDetail, CancelExecution, ListAnswered, RequestFails
  <2> QED
    BY <2>2, <2>4 DEF ScreensNext, Others, Refresh, LoadMore, Fetch, SelectFilter,
      OpenCancelDialog, CloseCancelDialog, CancelCurrentExecution, StartPoll
<1> QED
  BY <1>1, ScreensInvariant, PTL DEF ScreensSpec, OnlyCancellationIsTakenBack

-------------------------------------------------------------------------------
(* The order of the rows                                                   *)

Below == {pair \in Nat \X Nat : pair[1] < pair[2]}

(* A set of natural numbers has a least one.                               *)
LEMMA LeastNatural ==
  ASSUME NEW T, T \subseteq Nat, T # {}
  PROVE \E x \in T : \A y \in T : x <= y
<1>1. Below = OpToRel(<, Nat)
  BY DEF OpToRel, Below
<1>2. IsWellFoundedOn(Below, Nat)
  BY <1>1, NatLessThanWellFounded, Zenon
<1>3. PICK x \in T : \A y \in T : <<y, x>> \notin Below
  BY <1>2, WFMin
<1>4. \A y \in T : ~(y < x)
  BY <1>3 DEF Below
<1>. QED BY <1>3, <1>4

(* createdAt and id order the executions.                                  *)
LEMMA NewerIsOrder ==
  /\ \A c, d, e \in Executions : Newer(c, d) /\ Newer(d, e) => Newer(c, e)
  /\ \A d, e \in Executions : ~(Newer(d, e) /\ Newer(e, d))
  /\ \A d, e \in Executions : d = e \/ Newer(d, e) \/ Newer(e, d)
<1>1. \A e \in Executions : e \in Nat /\ CreatedAt[e] \in Nat
  BY ScreensAssumption
<1>. QED BY <1>1 DEF Newer

(* Some executions have an oldest one.                                     *)
LEMMA Oldest ==
  ASSUME NEW S, S \subseteq Executions, S # {}
  PROVE  \E m \in S : \A e \in S \ {m} : Newer(e, m)
<1>1. \A e \in Executions : e \in Nat /\ CreatedAt[e] \in Nat
  BY ScreensAssumption
<1> DEFINE times == {CreatedAt[e] : e \in S}
<1>2. PICK t \in times : \A u \in times : t <= u
  <2>1. times \subseteq Nat /\ times # {}
    BY <1>1
  <2> HIDE DEF times
  <2>. QED BY <2>1, LeastNatural
<1> DEFINE first == {e \in S : CreatedAt[e] = t}
<1>3. PICK m \in first : \A e \in first : m <= e
  <2>1. first \subseteq Nat /\ first # {}
    BY <1>1, <1>2
  <2> HIDE DEF first
  <2>. QED BY <2>1, LeastNatural
<1>4. \A e \in S \ {m} : Newer(e, m)
  <2> SUFFICES ASSUME NEW e \in S \ {m} PROVE Newer(e, m)
    OBVIOUS
  <2>1. t <= CreatedAt[e] /\ CreatedAt[m] = t /\ e \in Nat /\ m \in Nat /\ t \in Nat
        /\ CreatedAt[e] \in Nat
    BY <1>1, <1>2
  <2>2. CreatedAt[e] = t => m <= e
    BY <1>3
  <2>. QED BY <2>1, <2>2 DEF Newer
<1>. QED BY <1>3, <1>4

(* rows lists S, newest first.                                             *)
Enumerates(rows, S) ==
  rows \in [1..Cardinality(S) -> S] /\ ToSet(rows) = S /\ NewestFirst(rows)

LEMMA EnumerationGrows ==
  ASSUME NEW S, S \subseteq Executions, IsFiniteSet(S), NEW m \in S,
         \A e \in S \ {m} : Newer(e, m), NEW rows, Enumerates(rows, S \ {m})
  PROVE  \E more : Enumerates(more, S)
<1>1. PICK R : R = S \ {m}
  OBVIOUS
<1>2. /\ IsFiniteSet(R) /\ m \notin R /\ S = R \cup {m}
      /\ Cardinality(R) \in Nat /\ Cardinality(S) = Cardinality(R) + 1
  <2>1. IsFiniteSet(R) /\ m \notin R /\ S = R \cup {m}
    BY <1>1, FS_Subset
  <2>. QED BY <2>1, FS_AddElement, FS_CardinalityType
<1> DEFINE n == Cardinality(R)
           more == [i \in 1..n + 1 |-> IF i = n + 1 THEN m ELSE rows[i]]
<1>3. /\ rows \in [1..n -> R] /\ DOMAIN rows = 1..n /\ ToSet(rows) = R
      /\ \A i, j \in 1..n : i < j => Newer(rows[i], rows[j])
  BY <1>1 DEF Enumerates, NewestFirst
<1>4. n \in Nat /\ Cardinality(S) = n + 1
  BY <1>2
<1> HIDE DEF n
<1>5. \A i \in 1..n : i \in 1..n + 1 /\ i # n + 1 /\ more[i] = rows[i]
  BY <1>4
<1>6. n + 1 \in 1..n + 1 /\ more[n + 1] = m /\ DOMAIN more = 1..n + 1
  BY <1>4
<1>7. \A i \in 1..n + 1 : i = n + 1 \/ i \in 1..n
  BY <1>4
<1> HIDE DEF more
<1>8. \A i \in 1..n + 1 : more[i] \in S
  BY <1>2, <1>3, <1>5, <1>6, <1>7
<1>9. ToSet(more) = S
  <2>1. ToSet(more) \subseteq S
    BY <1>6, <1>8 DEF ToSet
  <2>2. ASSUME NEW e \in S PROVE e \in ToSet(more)
    <3>1. CASE e = m
      BY <3>1, <1>6 DEF ToSet
    <3>2. CASE e # m
      <4>1. PICK i \in 1..n : rows[i] = e
        BY <3>2, <1>2, <1>3 DEF ToSet
      <4>. QED BY <4>1, <1>5, <1>6 DEF ToSet
    <3>. QED BY <3>1, <3>2
  <2>. QED BY <2>1, <2>2
<1>10. NewestFirst(more)
  <2> SUFFICES ASSUME NEW i \in 1..n + 1, NEW j \in 1..n + 1, i < j PROVE Newer(more[i], more[j])
    BY <1>6 DEF NewestFirst
  <2>1. i \in 1..n
    BY <1>4
  <2>2. CASE j = n + 1
    <3>1. more[i] \in S \ {m}
      BY <2>1, <1>1, <1>3, <1>5
    <3>. QED BY <2>2, <3>1, <1>6
  <2>3. CASE j \in 1..n
    BY <2>1, <2>3, <1>3, <1>5
  <2>. QED BY <2>2, <2>3, <1>7
<1>11. more \in [1..n + 1 -> S]
  <2>1. more = [i \in 1..n + 1 |-> more[i]]
    BY DEF more
  <2>. QED BY <2>1, <1>8
<1>. QED BY <1>4, <1>9, <1>10, <1>11 DEF Enumerates

(* Every set of executions can be listed.                                  *)
LEMMA EnumerationExists ==
  ASSUME NEW S, S \subseteq Executions
  PROVE  \E rows : Enumerates(rows, S)
<1> DEFINE Unlisted(R) == R \subseteq Executions /\ ~ \E rows : Enumerates(rows, R)
           T == {n \in Nat : \E R : Unlisted(R) /\ Cardinality(R) = n}
<1>1. \A R : R \subseteq Executions => IsFiniteSet(R) /\ Cardinality(R) \in Nat
  BY ScreensAssumption, FS_Subset, FS_CardinalityType
<1>2. SUFFICES ASSUME T # {} PROVE FALSE
  BY <1>1
<1>3. PICK x \in T : \A y \in T : x <= y
  <2>1. T \subseteq Nat
    OBVIOUS
  <2> HIDE DEF T
  <2>. QED BY <2>1, <1>2, LeastNatural
<1>4. PICK R : Unlisted(R) /\ Cardinality(R) = x
  OBVIOUS
<1>5. R \subseteq Executions /\ IsFiniteSet(R) /\ Cardinality(R) = x /\ x \in Nat
  BY <1>1, <1>4
<1>6. CASE R = {}
  <2> DEFINE none == [i \in {} |-> i]
  <2>1. 1..0 = {} /\ Cardinality(R) = 0
    BY <1>6, FS_EmptySet
  <2>2. none \in [1..0 -> R] /\ ToSet(none) = {} /\ DOMAIN none = {}
    BY <2>1 DEF ToSet
  <2>3. Enumerates(none, R)
    BY <1>6, <2>1, <2>2 DEF Enumerates, NewestFirst
  <2>. QED BY <2>3, <1>4
<1>7. CASE R # {}
  <2>1. PICK m \in R : \A e \in R \ {m} : Newer(e, m)
    BY <1>5, <1>7, Oldest
  <2>2. PICK Q : Q = R \ {m}
    OBVIOUS
  <2>3. Q \subseteq Executions /\ Cardinality(Q) \in Nat /\ Cardinality(R) = Cardinality(Q) + 1
    <3>1. IsFiniteSet(Q) /\ m \notin Q /\ R = Q \cup {m}
      BY <1>5, <2>2, FS_Subset
    <3>. QED BY <1>5, <2>2, <3>1, FS_AddElement, FS_CardinalityType
  <2>4. Cardinality(Q) \notin T
    BY <1>3, <1>5, <2>3
  <2>5. PICK rows : Enumerates(rows, Q)
    BY <2>3, <2>4
  <2>. QED BY <1>4, <1>5, <2>1, <2>2, <2>5, EnumerationGrows
<1>. QED BY <1>6, <1>7

(* What a query returns.                                                   *)
LEMMA RowsAre ==
  ASSUME NEW filter, NEW cursor
  PROVE  /\ Rows(filter, cursor) \in Seq(Executions)
         /\ ToSet(Rows(filter, cursor)) = Listed(filter, cursor)
         /\ NewestFirst(Rows(filter, cursor))
<1>1. PICK S : S = Listed(filter, cursor)
  OBVIOUS
<1>2. S \subseteq Executions
  BY <1>1 DEF Listed
<1> DEFINE rows == CHOOSE rows \in [1..Cardinality(S) -> S] : ToSet(rows) = S /\ NewestFirst(rows)
<1>3. \E other \in [1..Cardinality(S) -> S] : ToSet(other) = S /\ NewestFirst(other)
  <2>1. PICK other : Enumerates(other, S)
    BY <1>2, EnumerationExists
  <2>. QED BY <2>1 DEF Enumerates
<1>4. rows \in [1..Cardinality(S) -> S] /\ ToSet(rows) = S /\ NewestFirst(rows)
  BY <1>3, Zenon
<1>5. Rows(filter, cursor) = rows
  BY <1>1 DEF Rows
<1> HIDE DEF rows
<1>6. Cardinality(S) \in Nat
  BY <1>2, ScreensAssumption, FS_Subset, FS_CardinalityType
<1>7. rows \in Seq(Executions)
  BY <1>2, <1>4, <1>6
<1>. QED BY <1>1, <1>4, <1>5, <1>7

-------------------------------------------------------------------------------
(* The history                                                             *)

Row == [id : Executions, status : Statuses]

InOrder(rows) == \A i, j \in DOMAIN rows : i < j => Newer(rows[i].id, rows[j].id)
AllMatch(rows, filter) == \A i \in DOMAIN rows : Matches(rows[i].status, filter)

(* The cursor is the last row that is shown.                               *)
EndsAt(rows, cursor) ==
  cursor # None => rows # <<>> /\ cursor = rows[Len(rows)].id

(* e is listed, or was skipped: it has the millisecond of a listed row.    *)
ListedOrSkipped(rows, e) ==
  \E i \in DOMAIN rows :
    \/ rows[i].id = e
    \/ Newer(rows[i].id, e) /\ Milli(rows[i].id) = Milli(e)

Follows(e, cursor) == cursor # None => AfterCursor(e, cursor)

(* What a page is.                                                         *)
IsPage(answer, filter, cursor) ==
  /\ answer.executions \in Seq(Row)
  /\ InOrder(answer.executions) /\ AllMatch(answer.executions, filter)
  /\ \A i \in DOMAIN answer.executions : Follows(answer.executions[i].id, cursor)
  /\ EndsAt(answer.executions, answer.nextCursor)
  /\ filter = "all" =>
       \A e \in AlreadyQueued : Follows(e, cursor) =>
         \/ ListedOrSkipped(answer.executions, e)
         \/ answer.nextCursor # None /\ Newer(answer.nextCursor, e)

(* Those from the beginning stay.                                          *)
QueuedExist == \A e \in AlreadyQueued : Exists(e)

LEMMA QueuedStay ==
  ASSUME RowsHold, QueuedExist, Next \/ UNCHANGED server
  PROVE  QueuedExist'
<1>1. AlreadyQueued \subseteq Executions
  BY ScreensAssumption
<1>2. CASE Next
  <2>1. PICK d \in Executions :
          \/ Trigger(d) \/ Start(d) \/ Fail(d) \/ Cancel(d)
          \/ \E k \in 1..StepCount : CompleteStep(d, k)
    BY <1>2 DEF Next
  <2>. QED BY <1>1, <2>1
       DEF Trigger, Start, Fail, Cancel, CompleteStep, Move, RowsHold, QueuedExist, Exists
<1>3. CASE UNCHANGED server
  BY <1>3 DEF server, QueuedExist, Exists
<1>. QED BY <1>2, <1>3

(* The cursor is older than what it precedes, although it lost its         *)
(* microseconds; what it skips has its millisecond.                        *)
LEMMA CursorOrder ==
  ASSUME NEW c \in Executions, NEW e \in Executions
  PROVE  /\ AfterCursor(e, c) => Newer(c, e)
         /\ Newer(c, e) /\ ~AfterCursor(e, c) => Milli(c) = Milli(e)
<1> DEFINE M == MicrosPerMilli
           t == CreatedAt[c]
           u == CreatedAt[e]
           m == t \div M
<1>1. M \in Nat \ {0} /\ t \in Nat /\ u \in Nat /\ c \in Nat /\ e \in Nat
  BY ScreensAssumption
<1>2. Milli(c) = m /\ Milli(e) = u \div M
  BY DEF Milli
<1>3. m \in Nat /\ m * M <= t /\ t < (m + 1) * M
  BY <1>1
<1>8. \A q, p \in Nat : q < p => (q + 1) * M <= p * M
  <2> SUFFICES ASSUME NEW q \in Nat, NEW p \in Nat, q < p PROVE (q + 1) * M <= p * M
    OBVIOUS
  <2>1. PICK k \in Nat : p = q + 1 + k
    <3>1. p - (q + 1) \in Nat /\ p = q + 1 + (p - (q + 1))
      OBVIOUS
    <3>. QED BY <3>1
  <2>2. p * M = (q + 1) * M + k * M /\ k * M \in Nat /\ (q + 1) * M \in Nat
    BY <1>1, <2>1
  <2>. QED BY <2>2
<1>4. ASSUME m * M <= u, u <= t PROVE u \div M = m
  <2> DEFINE q == u \div M
  <2>1. q \in Nat /\ q * M <= u /\ u < (q + 1) * M
    BY <1>1
  <2>2. q * M \in Nat /\ (q + 1) * M \in Nat /\ m * M \in Nat /\ (m + 1) * M \in Nat
    BY <1>1, <1>3, <2>1
  <2> HIDE DEF q, m, t, u, M
  <2>3. ~(q < m)
    <3>1. q < m => (q + 1) * M <= m * M
      BY <1>3, <1>8, <2>1
    <3>. QED BY <1>1, <1>4, <2>1, <2>2, <3>1
  <2>4. ~(m < q)
    <3>1. m < q => (m + 1) * M <= q * M
      BY <1>3, <1>8, <2>1
    <3>. QED BY <1>1, <1>3, <1>4, <2>1, <2>2, <3>1
  <2>5. q = m
    BY <1>3, <2>1, <2>3, <2>4
  <2>. QED BY <2>5 DEF q
<1>5. AfterCursor(e, c) <=> u < m * M \/ (u = m * M /\ e < c)
  BY <1>2 DEF AfterCursor
<1>6. Newer(c, e) <=> t > u \/ (t = u /\ c > e)
  BY DEF Newer
<1>7. m * M \in Nat
  BY <1>1, <1>3
<1> HIDE DEF t, u, m, M
<1>. QED BY <1>1, <1>2, <1>3, <1>4, <1>5, <1>6, <1>7

LEMMA PageIs ==
  ASSUME IInv, QueuedExist, NEW filter, NEW cursor
  PROVE  IsPage(Page(filter, cursor), filter, cursor)
<1> DEFINE rows == Rows(filter, cursor)
           m == IF Len(rows) < Limit THEN Len(rows) ELSE Limit
           shown == SubSeq(rows, 1, m)
           answer == Page(filter, cursor)
<1>1. /\ rows \in Seq(Executions) /\ ToSet(rows) = Listed(filter, cursor)
      /\ NewestFirst(rows)
  BY RowsAre
<1>2. answer.executions = [i \in DOMAIN shown |-> [id |-> shown[i], status |-> phase[shown[i]]]]
      /\ answer.nextCursor = CursorOf(rows)
  BY DEF Page
<1>3. Len(rows) \in Nat /\ DOMAIN rows = 1..Len(rows) /\ Limit \in Nat \ {0}
  BY <1>1, ScreensAssumption
<1>4. m \in 0..Len(rows) /\ m <= Limit
  BY <1>3
<1>18. (Len(rows) < Limit => m = Len(rows)) /\ (~(Len(rows) < Limit) => m = Limit)
  BY Zenon
<1>12. Len(rows) > Limit => m = Limit
  <2>1. Len(rows) > Limit => ~(Len(rows) < Limit)
    BY <1>3
  <2>. QED BY <2>1, <1>18
<1>13. Len(rows) <= Limit => m = Len(rows)
  <2>1. \A a, b \in Nat : a <= b => a < b \/ (~(a < b) /\ a = b)
    OBVIOUS
  <2>2. Len(rows) \in Nat /\ Limit \in Nat
    BY <1>3
  <2>. QED BY <2>1, <2>2, <1>18, Zenon
<1> HIDE DEF rows
<1>5. /\ shown \in Seq(Executions) /\ Len(shown) = m /\ DOMAIN shown = 1..m
      /\ \A i \in 1..m : shown[i] = rows[i]
  BY <1>1, <1>3, <1>4
<1> HIDE DEF shown, answer
<1>6. \A i \in 1..m : i \in 1..Len(rows) /\ rows[i] \in Listed(filter, cursor)
  BY <1>1, <1>3, <1>4 DEF ToSet
<1>7. \A e \in Listed(filter, cursor) :
        e \in Executions /\ Matches(phase[e], filter) /\ Follows(e, cursor) /\ phase[e] \in Statuses
  BY DEF Listed, Follows, IInv, RowsHold
<1> DEFINE answered == answer.executions
<1>8. DOMAIN answered = 1..m /\ \A i \in 1..m : answered[i] = [id |-> rows[i], status |-> phase[rows[i]]]
  BY <1>2, <1>5
<1>9. \A i \in 1..m : answered[i] \in Row /\ answered[i].id = rows[i] /\ answered[i].status = phase[rows[i]]
  <2> SUFFICES ASSUME NEW i \in 1..m
               PROVE  answered[i] \in Row /\ answered[i].id = rows[i] /\ answered[i].status = phase[rows[i]]
    OBVIOUS
  <2>1. PICK d : d = rows[i]
    OBVIOUS
  <2>2. d \in Executions /\ phase[d] \in Statuses
    BY <1>6, <1>7, <2>1
  <2>3. answered[i] = [id |-> d, status |-> phase[d]]
    BY <1>8, <2>1
  <2> HIDE DEF answered, m
  <2>. QED BY <2>1, <2>2, <2>3 DEF Row
<1> HIDE DEF m
<1>10. answered \in Seq(Row) /\ Len(answered) = m
  <2>1. answered = [i \in 1..m |-> answered[i]]
    BY <1>2, <1>5, <1>8
  <2>2. answered \in [1..m -> Row] /\ m \in Nat
    BY <1>3, <1>4, <1>9, <2>1
  <2> HIDE DEF answered
  <2>. QED BY <2>2
<1> HIDE DEF answered
<1>11. InOrder(answered) /\ AllMatch(answered, filter) /\ \A i \in DOMAIN answered : Follows(answered[i].id, cursor)
  BY <1>1, <1>3, <1>6, <1>7, <1>8, <1>9 DEF InOrder, AllMatch, NewestFirst
<1>14. /\ Len(rows) > Limit => answer.nextCursor = rows[Limit]
       /\ Len(rows) <= Limit => answer.nextCursor = None
  BY <1>2, <1>3 DEF CursorOf
<1>15. EndsAt(answered, answer.nextCursor)
  <2>1. CASE Len(rows) > Limit
    <3>1. m \in 1..m /\ answered[m].id = rows[Limit] /\ answered # <<>>
      BY <2>1, <1>3, <1>9, <1>10, <1>12
    <3>. QED BY <2>1, <3>1, <1>10, <1>14 DEF EndsAt
  <2>2. CASE Len(rows) <= Limit
    BY <2>2, <1>14 DEF EndsAt
  <2>. QED BY <2>1, <2>2, <1>3
<1>16. ASSUME filter = "all", NEW e \in AlreadyQueued, Follows(e, cursor)
       PROVE  ListedOrSkipped(answered, e) \/ (answer.nextCursor # None /\ Newer(answer.nextCursor, e))
  <2>1. e \in Listed(filter, cursor)
    BY <1>16, ScreensAssumption DEF Listed, QueuedExist, Follows, Matches
  <2>2. PICK i \in 1..Len(rows) : rows[i] = e
    BY <2>1, <1>1, <1>3 DEF ToSet
  <2>3. CASE i \in 1..m
    BY <2>2, <2>3, <1>8, <1>9 DEF ListedOrSkipped
  <2>4. CASE i \notin 1..m
    <3>1. Len(rows) > Limit /\ Limit < i /\ Limit \in 1..Len(rows)
      BY <2>2, <2>4, <1>3, <1>12, <1>13
    <3>2. Newer(rows[Limit], rows[i])
      BY <3>1, <2>2, <1>1, <1>3 DEF NewestFirst
    <3>3. rows[Limit] \in Executions
      BY <3>1, <1>1, <1>3
    <3>. QED BY <3>1, <3>2, <3>3, <2>2, <1>14, ScreensAssumption
  <2>. QED BY <2>3, <2>4
<1>17. IsPage(answer, filter, cursor)
  BY <1>10, <1>11, <1>15, <1>16 DEF IsPage, answered
<1>. QED BY <1>17 DEF answer

(* All there was is listed, was skipped or is older than the cursor.       *)
Reaches(rows, cursor) ==
  \A e \in AlreadyQueued : ListedOrSkipped(rows, e) \/ (cursor # None /\ Newer(cursor, e))

ListHolds ==
  /\ executions \in Seq(Row)
  /\ EndsAt(executions, nextCursor)
  /\ ~mixed =>
       /\ InOrder(executions) /\ AllMatch(executions, statusFilter)
       /\ statusFilter = "all" /\ executions # <<>> => Reaches(executions, nextCursor)

ListRequestHolds(r) ==
  /\ r = [kind |-> r.kind, filter |-> r.filter, cursor |-> r.cursor,
          live |-> r.live, checked |-> r.checked, reply |-> r.reply]
  /\ r.kind \in {"load", "poll", "fetch"}
  /\ r.cursor \in Executions \cup {None}
  /\ r.reply # <<>> => IsPage(r.reply[1], r.filter, r.cursor)

HistoryHolds == ListHolds /\ ~dialogOpen /\ \A r \in requests : ListRequestHolds(r)

HistoryInv ==
  /\ QueuedExist
  /\ page \in Executions \cup {History}
  /\ page = History => HistoryHolds

(* A list goes on after its last row.                                      *)
LEMMA ListGoesOn ==
  ASSUME NEW rows \in Seq(Row), NEW more \in Seq(Row), NEW last \in 1..Len(rows), last = Len(rows)
  PROVE  /\ rows \o more \in Seq(Row)
         /\ Len(rows \o more) = last + Len(more)
         /\ DOMAIN (rows \o more) = 1..last + Len(more)
         /\ \A i \in 1..last : i \in 1..last + Len(more) /\ (rows \o more)[i] = rows[i]
         /\ \A i \in 1..Len(more) : last + i \in 1..last + Len(more) /\ (rows \o more)[last + i] = more[i]
         /\ \A i \in 1..last + Len(more) : i \in 1..last \/ i - last \in 1..Len(more)
OBVIOUS

LEMMA OrderGoesOn ==
  ASSUME NEW rows \in Seq(Row), InOrder(rows), NEW last \in 1..Len(rows), last = Len(rows),
         NEW c, c = rows[last].id,
         NEW more \in Seq(Row), InOrder(more), \A i \in DOMAIN more : Newer(c, more[i].id)
  PROVE  InOrder(rows \o more)
<1> DEFINE whole == rows \o more
<1>1. /\ DOMAIN whole = 1..last + Len(more)
      /\ \A i \in 1..last : whole[i] = rows[i]
      /\ \A i \in 1..Len(more) : whole[last + i] = more[i]
      /\ \A i \in 1..last + Len(more) : i \in 1..last \/ i - last \in 1..Len(more)
  BY ListGoesOn
<1>2. /\ DOMAIN rows = 1..last /\ DOMAIN more = 1..Len(more) /\ last \in Nat /\ Len(more) \in Nat
      /\ \A i \in 1..last : rows[i].id \in Executions
      /\ \A i \in 1..Len(more) : more[i].id \in Executions
  <2>1. \A d \in Row : d.id \in Executions
    BY DEF Row
  <2>2. /\ DOMAIN rows = 1..last /\ DOMAIN more = 1..Len(more) /\ last \in Nat /\ Len(more) \in Nat
        /\ \A i \in 1..last : rows[i] \in Row
        /\ \A i \in 1..Len(more) : more[i] \in Row
    OBVIOUS
  <2>. QED BY <2>1, <2>2
<1> HIDE DEF whole
<1>3. ASSUME NEW i \in 1..last, NEW k \in 1..Len(more) PROVE Newer(rows[i].id, more[k].id)
  <2>1. i = last \/ Newer(rows[i].id, c)
    BY <1>2 DEF InOrder
  <2>2. Newer(c, more[k].id) /\ c \in Executions
    BY <1>2
  <2>. QED BY <2>1, <2>2, <1>2, NewerIsOrder
<1>5. ASSUME NEW i \in 1..last + Len(more), i \notin 1..last
      PROVE  i - last \in 1..Len(more) /\ i = last + (i - last)
  <2>1. i \in Nat
    BY <1>2
  <2>. QED BY <2>1, <1>1, <1>2, <1>5
<1>4. ASSUME NEW i \in 1..last + Len(more), NEW j \in 1..last + Len(more), i < j
      PROVE  Newer(whole[i].id, whole[j].id)
  <2>1. CASE i \in 1..last /\ j \in 1..last
    BY <2>1, <1>1, <1>2, <1>4 DEF InOrder
  <2>2. CASE i \in 1..last /\ j \notin 1..last
    <3>1. PICK k \in 1..Len(more) : k = j - last /\ j = last + k
      BY <2>2, <1>5
    <3>. QED BY <2>2, <3>1, <1>1, <1>3
  <2>3. CASE i \notin 1..last
    <3>1. PICK k \in 1..Len(more) : k = i - last /\ i = last + k
      BY <2>3, <1>5
    <3>2. j \notin 1..last
      BY <2>3, <1>2, <1>4
    <3>3. PICK l \in 1..Len(more) : l = j - last /\ j = last + l
      BY <3>2, <1>5
    <3>4. k < l
      BY <3>1, <3>3, <1>2, <1>4
    <3>5. Newer(more[k].id, more[l].id)
      BY <3>4, <1>2 DEF InOrder
    <3>6. whole[i] = more[k] /\ whole[j] = more[l]
      BY <3>1, <3>3, <1>1
    <3>. QED BY <3>5, <3>6
  <2>. QED BY <2>1, <2>2, <2>3
<1>6. InOrder(whole)
  BY <1>1, <1>4 DEF InOrder
<1>. QED BY <1>6 DEF whole

(* A page is shown.                                                        *)
LEMMA ShowInvariant ==
  ASSUME HistoryInv, page = History, NEW r \in requests, ListAnswered(r)
  PROVE  ListHolds'
<1> DEFINE answer == r.reply[1]
           rows == executions
           more == answer.executions
           c == r.cursor
<1>1. /\ ListHolds /\ IsPage(answer, r.filter, c) /\ c \in Executions \cup {None}
  BY DEF HistoryInv, HistoryHolds, ListRequestHolds, ListAnswered
<1>2. /\ executions' = IF c # None THEN rows \o more ELSE more
      /\ nextCursor' = answer.nextCursor /\ statusFilter' = statusFilter
      /\ mixed' = (r.filter # statusFilter \/ (c # None /\ (mixed \/ c # nextCursor)))
  BY DEF ListAnswered, ShowPage
<1>3. more \in Seq(Row) /\ rows \in Seq(Row) /\ InOrder(more) /\ AllMatch(more, r.filter)
      /\ EndsAt(more, answer.nextCursor)
  BY <1>1 DEF IsPage, ListHolds
<1>4. CASE c = None
  <2>1. executions' = more
    BY <1>2, <1>4
  <2>2. r.filter = "all" => Reaches(more, answer.nextCursor)
    BY <1>1, <1>4 DEF IsPage, Reaches, Follows
  <2>. QED BY <1>2, <1>3, <1>4, <2>1, <2>2
       DEF ListHolds, EndsAt, InOrder, AllMatch, Reaches, ListedOrSkipped
<1>5. CASE c # None
  <2> DEFINE last == Len(rows)
             whole == rows \o more
  <2>1. executions' = whole
    BY <1>2, <1>5
  <2>2. last \in Nat /\ Len(more) \in Nat /\ DOMAIN more = 1..Len(more) /\ DOMAIN rows = 1..last
    BY <1>3
  <2>3. CASE last = 0
    <3>1. rows = <<>> /\ whole = more
      BY <2>3, <1>3
    <3>2. mixed'
      BY <1>1, <1>2, <1>5, <3>1 DEF ListHolds, EndsAt
    <3>. QED BY <1>2, <1>3, <2>1, <3>1, <3>2 DEF ListHolds, EndsAt
  <2>4. CASE last # 0
    <3>1. last \in 1..Len(rows) /\ last \in 1..last /\ rows # <<>>
      BY <2>2, <2>4, <1>3
    <3>2. /\ whole \in Seq(Row) /\ Len(whole) = last + Len(more) /\ DOMAIN whole = 1..last + Len(more)
          /\ \A i \in 1..last : i \in 1..last + Len(more) /\ whole[i] = rows[i]
          /\ \A i \in 1..Len(more) : last + i \in 1..last + Len(more) /\ whole[last + i] = more[i]
          /\ \A i \in 1..last + Len(more) : i \in 1..last \/ i - last \in 1..Len(more)
      BY <3>1, <1>3, ListGoesOn
    <3> HIDE DEF whole, more, rows, last, c, answer
    <3>3. EndsAt(whole, answer.nextCursor)
      <4> SUFFICES ASSUME answer.nextCursor # None
                   PROVE  whole # <<>> /\ answer.nextCursor = whole[Len(whole)].id
        BY DEF EndsAt
      <4>1. more # <<>> /\ answer.nextCursor = more[Len(more)].id
        BY <1>3 DEF EndsAt
      <4>2. Len(more) \in 1..Len(more)
        BY <4>1, <1>3
      <4>3. whole[Len(whole)] = more[Len(more)] /\ Len(whole) # 0
        BY <4>2, <3>2, <2>2
      <4>. QED BY <4>1, <4>3
    <3>4. ASSUME ~mixed'
          PROVE  /\ InOrder(whole) /\ AllMatch(whole, statusFilter)
                 /\ statusFilter = "all" => Reaches(whole, answer.nextCursor)
      <4>1. ~mixed /\ c = nextCursor /\ r.filter = statusFilter
        BY <3>4, <1>2, <1>5
      <4>2. /\ InOrder(rows) /\ AllMatch(rows, statusFilter) /\ c = rows[last].id
            /\ statusFilter = "all" => Reaches(rows, c)
        BY <4>1, <3>1, <1>1, <1>5 DEF ListHolds, EndsAt, rows, last
      <4>3. \A i \in DOMAIN more : more[i].id \in Executions /\ AfterCursor(more[i].id, c)
        <5>1. \A i \in DOMAIN more : AfterCursor(more[i].id, c)
          BY <1>1, <1>5 DEF IsPage, Follows, more
        <5>2. \A i \in DOMAIN more : more[i] \in Row
          BY <1>3, <2>2
        <5>3. \A d \in Row : d.id \in Executions
          BY DEF Row
        <5>. QED BY <5>1, <5>2, <5>3
      <4>4. c \in Executions
        BY <1>1, <1>5
      <4>5. InOrder(whole)
        <5>1. \A i \in DOMAIN more : Newer(c, more[i].id)
          BY <4>3, <4>4, CursorOrder
        <5>2. last = Len(rows)
          BY DEF last
        <5>. QED BY <5>1, <5>2, <4>2, <3>1, <1>3, OrderGoesOn DEF whole
      <4>6. AllMatch(whole, statusFilter)
        <5> SUFFICES ASSUME NEW i \in 1..last + Len(more) PROVE Matches(whole[i].status, statusFilter)
          BY <3>2 DEF AllMatch
        <5>1. CASE i \in 1..last
          BY <5>1, <4>2, <3>2, <2>2 DEF AllMatch
        <5>2. CASE i - last \in 1..Len(more)
          <6>1. i = last + (i - last)
            BY <2>2
          <6>2. whole[i] = more[i - last]
            BY <5>2, <6>1, <3>2
          <6>. QED BY <5>2, <6>2, <4>1, <1>3, <2>2 DEF AllMatch
        <5>. QED BY <5>1, <5>2, <3>2
      <4>7. ASSUME statusFilter = "all", NEW e \in AlreadyQueued
            PROVE  ListedOrSkipped(whole, e) \/ (answer.nextCursor # None /\ Newer(answer.nextCursor, e))
        <5>1. ListedOrSkipped(rows, e) => ListedOrSkipped(whole, e)
          BY <2>2, <3>2 DEF ListedOrSkipped
        <5>2. ListedOrSkipped(more, e) => ListedOrSkipped(whole, e)
          BY <2>2, <3>2 DEF ListedOrSkipped
        <5>3. ListedOrSkipped(rows, e) \/ Newer(c, e)
          BY <4>2, <4>7 DEF Reaches
        <5>4. CASE AfterCursor(e, c)
          <6>1. \/ ListedOrSkipped(more, e)
                \/ answer.nextCursor # None /\ Newer(answer.nextCursor, e)
            BY <5>4, <4>1, <4>7, <1>1 DEF IsPage, Follows, more
          <6>. QED BY <6>1, <5>2
        <5>5. CASE Newer(c, e) /\ ~AfterCursor(e, c)
          <6>1. Milli(c) = Milli(e)
            BY <5>5, <4>4, CursorOrder, ScreensAssumption
          <6>2. whole[last].id = c /\ last \in DOMAIN whole
            BY <3>1, <3>2, <4>2
          <6>. QED BY <5>5, <6>1, <6>2 DEF ListedOrSkipped
        <5>. QED BY <5>1, <5>3, <5>4, <5>5
      <4>. QED BY <4>5, <4>6, <4>7 DEF Reaches
    <3>5. statusFilter' = statusFilter /\ nextCursor' = answer.nextCursor /\ executions' = whole
      BY <1>2, <2>1
    <3>. QED BY <3>2, <3>3, <3>4, <3>5
         DEF ListHolds, EndsAt, InOrder, AllMatch, Reaches, ListedOrSkipped
  <2>. QED BY <2>3, <2>4
<1>. QED BY <1>4, <1>5

(* What has been sent holds no page, and names a row or none as its cursor. *)
LEMMA NewListRequest ==
  ASSUME NEW kind \in {"load", "poll", "fetch"}, NEW filter,
         NEW cursor \in Executions \cup {None}, NEW r, r = Request(kind, filter, cursor)
  PROVE  ListRequestHolds(r)
<1>1. r = [kind |-> kind, filter |-> filter, cursor |-> cursor,
           live |-> (kind = "poll"), checked |-> (cursor = None), reply |-> <<>>]
  BY DEF Request
<1>2. r.kind = kind /\ r.cursor = cursor /\ r.reply = <<>>
      /\ r.filter = filter /\ r.live = (kind = "poll")
  BY <1>1
<1>. QED BY <1>1, <1>2 DEF ListRequestHolds

(* A request whose polling has stopped, or that was answered, is the same. *)
LEMMA SameListRequest ==
  ASSUME NEW r, ListRequestHolds(r)
  PROVE  /\ ListRequestHolds([r EXCEPT !.live = FALSE])
         /\ \A answer : IsPage(answer, r.filter, r.cursor) =>
              ListRequestHolds([r EXCEPT !.reply = <<answer>>])
         /\ ListRequestHolds([r EXCEPT !.checked = TRUE])
<1>1. r = [kind |-> r.kind, filter |-> r.filter, cursor |-> r.cursor,
           live |-> r.live, checked |-> r.checked, reply |-> r.reply]
  BY DEF ListRequestHolds
<1>2. ListRequestHolds([r EXCEPT !.live = FALSE])
  <2>1. PICK q : q = [r EXCEPT !.live = FALSE]
    OBVIOUS
  <2>2. q = [kind |-> r.kind, filter |-> r.filter, cursor |-> r.cursor,
             live |-> FALSE, checked |-> r.checked, reply |-> r.reply]
    BY <1>1, <2>1
  <2>3. /\ q.kind = r.kind /\ q.filter = r.filter /\ q.cursor = r.cursor
        /\ q.live = FALSE /\ q.reply = r.reply
    BY <2>2
  <2>. QED BY <2>1, <2>2, <2>3 DEF ListRequestHolds
<1>3. ASSUME NEW answer, IsPage(answer, r.filter, r.cursor)
      PROVE  ListRequestHolds([r EXCEPT !.reply = <<answer>>])
  <2>1. PICK q : q = [r EXCEPT !.reply = <<answer>>]
    OBVIOUS
  <2>2. q = [kind |-> r.kind, filter |-> r.filter, cursor |-> r.cursor,
             live |-> r.live, checked |-> r.checked, reply |-> <<answer>>]
    BY <1>1, <2>1
  <2>3. /\ q.kind = r.kind /\ q.filter = r.filter /\ q.cursor = r.cursor
        /\ q.live = r.live /\ q.reply = <<answer>> /\ q.reply[1] = answer
    BY <2>2
  <2>. QED BY <1>3, <2>1, <2>2, <2>3 DEF ListRequestHolds
<1>4. ListRequestHolds([r EXCEPT !.checked = TRUE])
  <2>1. PICK q : q = [r EXCEPT !.checked = TRUE]
    OBVIOUS
  <2>2. q = [kind |-> r.kind, filter |-> r.filter, cursor |-> r.cursor,
             live |-> r.live, checked |-> TRUE, reply |-> r.reply]
    BY <1>1, <2>1
  <2>3. /\ q.kind = r.kind /\ q.filter = r.filter /\ q.cursor = r.cursor
        /\ q.reply = r.reply
    BY <2>2
  <2>. QED BY <2>1, <2>2, <2>3 DEF ListRequestHolds
<1>. QED BY <1>2, <1>3, <1>4

(* A history that is entered shows nothing and has one request.            *)
LEMMA HistoryEntered ==
  /\ ScreensInit => HistoryInv
  /\ QueuedExist' /\ (\E destination \in Executions \cup {History} : Enter(destination)) => HistoryInv'
<1>1. ListRequestHolds(Request("load", "all", None))
  BY NewListRequest
<1>2. ASSUME ScreensInit PROVE HistoryInv
  <2>1. QueuedExist
    BY <1>2, ScreensAssumption DEF ScreensInit, Init, QueuedExist, Exists
  <2>2. ListHolds
    BY <1>2 DEF ScreensInit, ListHolds, EndsAt, InOrder, AllMatch
  <2>. QED BY <1>1, <1>2, <2>1, <2>2 DEF ScreensInit, HistoryInv, HistoryHolds
<1>3. ASSUME QueuedExist', NEW destination \in Executions \cup {History}, Enter(destination)
      PROVE  HistoryInv'
  <2>1. /\ page' = destination /\ dialogOpen' = FALSE /\ executions' = <<>> /\ nextCursor' = None
        /\ requests' = {Request("load", "all", None)}
    BY <1>3 DEF Enter
  <2>2. InOrder(<<>>) /\ \A filter : AllMatch(<<>>, filter)
    BY DEF InOrder, AllMatch
  <2>3. ListHolds'
    BY <2>1, <2>2 DEF ListHolds, EndsAt, InOrder, AllMatch
  <2>. QED BY <1>1, <1>3, <2>1, <2>3 DEF HistoryInv, HistoryHolds
<1>. QED BY <1>2, <1>3

(* Steps that leave the list alone.                                        *)
LEMMA ListKept ==
  ASSUME HistoryInv, QueuedExist', UNCHANGED <<page, executions, nextCursor, statusFilter, mixed>>,
         page = History => ~dialogOpen' /\ \A q \in requests' : ListRequestHolds(q)
  PROVE  HistoryInv'
<1>1. page = History => ListHolds'
  BY DEF HistoryInv, HistoryHolds, ListHolds
<1>. QED BY <1>1 DEF HistoryInv, HistoryHolds

(* The history sends requests for its rows, from the start or from its     *)
(* last row.                                                               *)
LEMMA ListSends ==
  ASSUME HistoryInv, QueuedExist',
         Refresh \/ LoadMore \/ StartPoll \/ \E filter \in Filters \cup {"all"} : SelectFilter(filter)
  PROVE  HistoryInv'
<1>1. CASE StartPoll
  <2>1. PICK r : r = Request("poll", statusFilter, None)
    OBVIOUS
  <2>2. ListRequestHolds(r)
    BY <2>1, NewListRequest
  <2>3. requests' = requests \cup {r} /\ UNCHANGED <<page, executions, nextCursor, statusFilter, mixed, dialogOpen>>
    BY <1>1, <2>1 DEF StartPoll, Send, list
  <2>. QED BY <2>2, <2>3, ListKept DEF HistoryInv, HistoryHolds
<1>2. CASE Refresh \/ LoadMore
  <2>1. PICK cursor \in {None, nextCursor} : Fetch(cursor)
    BY <1>2 DEF Refresh, LoadMore
  <2>2. HistoryHolds /\ page = History
    BY <2>1 DEF Fetch, HistoryInv
  <2>3. cursor \in Executions \cup {None}
    <3>1. nextCursor # None => nextCursor \in Executions
      <4> SUFFICES ASSUME nextCursor # None PROVE nextCursor \in Executions
        OBVIOUS
      <4>1. executions \in Seq(Row) /\ executions # <<>> /\ nextCursor = executions[Len(executions)].id
        BY <2>2 DEF HistoryHolds, ListHolds, EndsAt
      <4>2. executions[Len(executions)] \in Row
        BY <4>1
      <4>. QED BY <4>1, <4>2 DEF Row
    <3>. QED BY <3>1
  <2>4. PICK r : r = Request("fetch", statusFilter, cursor)
    OBVIOUS
  <2>5. ListRequestHolds(r)
    BY <2>3, <2>4, NewListRequest
  <2>6. requests' = requests \cup {r} /\ UNCHANGED <<page, executions, nextCursor, statusFilter, mixed, dialogOpen>>
    BY <2>1, <2>4 DEF Fetch, Send, list
  <2>. QED BY <2>2, <2>5, <2>6, ListKept DEF HistoryHolds
<1>3. ASSUME NEW filter, SelectFilter(filter) PROVE HistoryInv'
  <2>1. HistoryHolds /\ page = History
    BY <1>3 DEF SelectFilter, HistoryInv
  <2>2. PICK r : r = Request("load", filter, None)
    OBVIOUS
  <2>3. ListRequestHolds(r)
    BY <2>2, NewListRequest
  <2>4. \A q \in requests' : ListRequestHolds(q)
    BY <1>3, <2>1, <2>2, <2>3, SameListRequest DEF SelectFilter, HistoryHolds
  <2>5. ListHolds'
    BY <1>3, <2>1 DEF SelectFilter, HistoryHolds, ListHolds
  <2>. QED BY <1>3, <2>1, <2>4, <2>5 DEF SelectFilter, HistoryInv, HistoryHolds
<1>. QED BY <1>1, <1>2, <1>3

(* Requests are served, answered and fail.                                 *)
LEMMA ListRequestGoesOn ==
  ASSUME IInv, HistoryInv, QueuedExist', NEW r \in requests, Serve(r) \/ Answer(r) \/ RequestFails(r)
  PROVE  HistoryInv'
<1>1. CASE page # History
  <2>1. page' = page
    BY <1>1 DEF Serve, Answer, CheckCursor, ListExecutions, ListAnswered, ReadExecutionDetail, CancelExecution,
      DetailAnswered, RequestFails
  <2>. QED BY <1>1, <2>1 DEF HistoryInv
<1>2. CASE page = History
  <2>1. HistoryHolds /\ page \notin Executions /\ r.kind # "cancel"
    BY <1>2, ScreensAssumption DEF HistoryInv, HistoryHolds, ListRequestHolds
  <2>2. CASE ListExecutions(r)
    <3>1. PICK answer : answer = Page(r.filter, r.cursor)
      OBVIOUS
    <3>2. IsPage(answer, r.filter, r.cursor)
      BY <3>1, PageIs DEF HistoryInv
    <3>3. PICK q : q = [r EXCEPT !.reply = <<answer>>]
      OBVIOUS
    <3>4. ListRequestHolds(q)
      BY <2>1, <3>2, <3>3, SameListRequest DEF HistoryHolds
    <3>5. requests' = (requests \ {r}) \cup {q}
      BY <2>2, <3>1, <3>3 DEF ListExecutions, Replied
    <3>6. UNCHANGED <<page, executions, nextCursor, statusFilter, mixed, dialogOpen>>
      BY <2>2 DEF ListExecutions, list
    <3>. QED BY <2>1, <3>4, <3>5, <3>6, ListKept DEF HistoryHolds
  <2>6. CASE CheckCursor(r)
    <3>1. PICK q : q = [r EXCEPT !.checked = TRUE]
      OBVIOUS
    <3>2. ListRequestHolds(q)
      BY <2>1, <3>1, SameListRequest DEF HistoryHolds
    <3>3. requests' = (requests \ {r}) \cup {q}
      BY <2>6, <3>1 DEF CheckCursor
    <3>4. UNCHANGED <<page, executions, nextCursor, statusFilter, mixed, dialogOpen>>
      BY <2>6 DEF CheckCursor, list
    <3>. QED BY <2>1, <3>2, <3>3, <3>4, ListKept DEF HistoryHolds
  <2>3. CASE ListAnswered(r)
    <3>1. ListHolds'
      BY <1>2, <2>3, ShowInvariant
    <3>2. \A q \in requests' : ListRequestHolds(q)
      <4>1. PICK changed : requests' = StopPolls(r, changed)
        BY <2>3 DEF ListAnswered, ShowPage
      <4>. QED BY <2>1, <4>1, SameListRequest DEF StopPolls, HistoryHolds
    <3>3. UNCHANGED <<page, dialogOpen>>
      BY <2>3 DEF ListAnswered
    <3>. QED BY <2>1, <3>1, <3>2, <3>3 DEF HistoryInv, HistoryHolds
  <2>4. CASE RequestFails(r)
    <3>1. requests' = requests \ {r} /\ UNCHANGED <<page, executions, nextCursor, statusFilter, mixed, dialogOpen>>
      BY <2>4 DEF RequestFails, list
    <3>. QED BY <2>1, <3>1, ListKept DEF HistoryHolds
  <2>5. ~ReadExecutionDetail(r) /\ ~CancelExecution(r) /\ ~DetailAnswered(r)
    BY <2>1 DEF ReadExecutionDetail, CancelExecution, DetailAnswered
  <2>. QED BY <2>2, <2>3, <2>4, <2>5, <2>6 DEF Serve, Answer
<1>. QED BY <1>1, <1>2

(* The screens only watch: what they do to the server is what its users    *)
(* may do to an execution, or nothing.                                     *)
LEMMA ServerStep ==
  ASSUME HistoryInv, [ScreensNext]_screensVars
  PROVE  Next \/ UNCHANGED server
<1>1. ASSUME NEW r \in requests, CancelExecution(r) PROVE Next \/ UNCHANGED server
  <2>1. CASE page \in Executions
    BY <1>1, <2>1 DEF CancelExecution, Next
  <2>2. CASE page = History
    BY <1>1, <2>2 DEF CancelExecution, HistoryInv, HistoryHolds, ListRequestHolds
  <2>. QED BY <2>1, <2>2 DEF HistoryInv
<1>2. CASE SomeRequestGoesOn
  <2>1. PICK r \in requests : Serve(r) \/ Answer(r) \/ RequestFails(r)
    BY <1>2 DEF SomeRequestGoesOn
  <2>. QED BY <2>1, <1>1 DEF Serve, Answer, CheckCursor, ListExecutions, ListAnswered, ReadExecutionDetail,
    DetailAnswered, RequestFails
<1>. QED BY <1>2 DEF ScreensNext, Others, OpenExecution, BackToHistory, Refresh, LoadMore,
  Fetch, SelectFilter, OpenCancelDialog, CloseCancelDialog, CancelCurrentExecution, StartPoll,
  screensVars

(* Every step keeps the invariant of the history.                          *)
LEMMA HistoryStep == IInv /\ HistoryInv /\ [ScreensNext]_screensVars => HistoryInv'
<1> SUFFICES ASSUME IInv, HistoryInv, [ScreensNext]_screensVars PROVE HistoryInv'
  OBVIOUS
<1>1. QueuedExist'
  BY ServerStep, QueuedStay DEF IInv, HistoryInv
<1>2. CASE Others \/ OpenCancelDialog \/ CloseCancelDialog \/ CancelCurrentExecution \/ UNCHANGED screensVars
  <2>1. UNCHANGED <<page, executions, nextCursor, statusFilter, mixed>>
    BY <1>2 DEF Others, OpenCancelDialog, CloseCancelDialog, CancelCurrentExecution, screensVars, list
  <2>2. page = History => ~dialogOpen' /\ requests' = requests
    BY <1>2, ScreensAssumption DEF Others, OpenCancelDialog, CloseCancelDialog, CancelCurrentExecution,
      screensVars, list, HistoryInv, HistoryHolds
  <2>. QED BY <1>1, <2>1, <2>2, ListKept DEF HistoryInv, HistoryHolds
<1>3. CASE OpenExecution
  <2>1. PICK i \in DOMAIN executions : Enter(executions[i].id)
    BY <1>3 DEF OpenExecution
  <2>2. executions \in Seq(Row)
    BY <1>3 DEF OpenExecution, HistoryInv, HistoryHolds, ListHolds
  <2>3. executions[i] \in Row
    BY <2>1, <2>2
  <2>4. executions[i].id \in Executions
    BY <2>3 DEF Row
  <2>. QED BY <1>1, <2>1, <2>4, HistoryEntered
<1>4. CASE BackToHistory
  BY <1>1, <1>4, HistoryEntered DEF BackToHistory
<1>5. CASE Refresh \/ LoadMore \/ StartPoll \/ \E filter \in Filters \cup {"all"} : SelectFilter(filter)
  BY <1>1, <1>5, ListSends
<1>6. CASE SomeRequestGoesOn
  BY <1>1, <1>6, ListRequestGoesOn DEF SomeRequestGoesOn
<1>. QED BY <1>2, <1>3, <1>4, <1>5, <1>6 DEF ScreensNext

(* The invariant of the history holds in every state.                      *)
THEOREM ListsInvariant == ScreensSpec => []HistoryInv
<1>1. ScreensInit => HistoryInv
  BY HistoryEntered
<1>. QED BY <1>1, HistoryStep, ScreensInvariant, PTL DEF ScreensSpec

(* The pages that the history loads one after the other, each at a time of *)
(* its own and from a cursor that lost its microseconds, make a list in    *)
(* order, of what the filter selects (listExecutionsByWorkflowAndOwner and *)
(* the screen's appending), for every number of executions and every size  *)
(* of a page.                                                              *)
THEOREM ListsAreInOrder == ScreensSpec => []ListIsInOrder
<1>1. HistoryInv => ListIsInOrder
  BY DEF HistoryInv, HistoryHolds, ListHolds, InOrder, AllMatch, ListIsInOrder
<1>. QED BY <1>1, ListsInvariant, PTL

(* And a list that has no cursor left skips nothing that was there from    *)
(* the beginning but what shares a listed row's millisecond.               *)
THEOREM ListsReachAll == ScreensSpec => []EveryExecutionIsListed
<1>1. HistoryInv => EveryExecutionIsListed
  <2> SUFFICES ASSUME HistoryInv, page = History, ~mixed, executions # <<>>, statusFilter = "all",
                      nextCursor = None, NEW e \in AlreadyQueued
               PROVE  \E i \in DOMAIN executions :
                        \/ executions[i].id = e
                        \/ Newer(executions[i].id, e) /\ Milli(executions[i].id) = Milli(e)
    BY DEF EveryExecutionIsListed
  <2>1. ListHolds
    BY DEF HistoryInv, HistoryHolds
  <2>2. Reaches(executions, nextCursor)
    BY <2>1 DEF ListHolds
  <2>. QED BY <2>2 DEF Reaches, ListedOrSkipped
<1>. QED BY <1>1, ListsInvariant, PTL

(* The requests of the screens, whatever is in flight, lost or answered    *)
(* late, do nothing to an execution that its lifecycle does not allow:     *)
(* cancelExecutionByOwner is reached from the page of an execution only,   *)
(* never from a request that the history has in flight.                    *)
THEOREM ScreensOnlyWatch == ScreensSpec => Spec
<1>1. ScreensInit => Init
  BY DEF ScreensInit
<1>2. HistoryInv /\ [ScreensNext]_screensVars => [Next]_vars
  BY ServerStep DEF server, vars
<1>. QED BY <1>1, <1>2, ListsInvariant, PTL DEF ScreensSpec, Spec
===============================================================================
