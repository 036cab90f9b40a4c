------------------------- MODULE BookingCorrectness -------------------------
(***************************************************************************)
(* What BookingLifecycle is checked and proved against.                    *)
(***************************************************************************)
EXTENDS BookingStatistics

ReqPC == {"idle", "read", "loaded"}

\* Every variable keeps its type; a slot that is not idle serves a booking
\* and carries the row it is going to save, whose status is one that
\* confirmBooking or cancelBooking sets.
TypeOK ==
    /\ row \in [Bookings -> Row]
    /\ age \in [Bookings -> 0..2]
    /\ account \in [Users -> {"active", "deleted", "purged"}]
    /\ req \in [Requests -> [pc : ReqPC, booking : Bookings \cup {None},
                             snap : Row, cols : SUBSET Columns]]
    /\ \A r \in Requests :
         req[r].pc # "idle" => /\ req[r].booking \in Bookings
                               /\ req[r].snap.status \in {CONFIRMED} \cup Canceled
    /\ rejectJob \in [pc : {"idle", "selected", "notified"}, batch : SUBSET Bookings]
    /\ completeJob \in [pc : {"idle", "selected"}, batch : SUBSET Bookings]
    /\ held \in [Bookings -> SUBSET (BookingStatus \cup NoRow)]
    /\ notices \in SUBSET (Bookings \X {"canceled", "confirmed", "expired"})
    /\ crashes \in 0..MaxCrashes

----------------------------------------------------------------------------
(* Holds whatever overlaps. *)

\* A booking that waits for an answer carries no trace of one: no reject
\* flag, no confirmation or cancellation date.  A save that lost the race for
\* a pending row must therefore write the status with everything else
\* (cancelBooking, confirmBooking, updateBookingRejectAfter48Hours).
PendingIsPristine ==
    \A b \in Bookings :
      row[b].status = PENDING =>
        row[b].isReject = "null" /\ ~row[b].confirmedAt /\ ~row[b].canceledAt

\* The completing job turns a booking COMPLETED only if somebody had
\* confirmed it and its last working time is over, although the job updates
\* by id without looking at the row again (updateStatusBookingComplete).
CompletedWasConfirmed ==
    \A b \in Bookings :
      row[b].status = COMPLETED /\ PENDING \in held[b] =>
        CONFIRMED \in held[b] /\ Ended(b)

\* Nobody is told that a request expired before its window ran out, or about
\* a booking that was never requested (rejectedBookingAfter48Hours).
ExpiryNoticeIsDue ==
    \A b \in Bookings :
      <<b, "expired">> \in notices => Elapsed(b) /\ PENDING \in held[b]

\* The parent who was told of a confirmation has, or had, a confirmed
\* booking, whatever other write hit the row at the same time, unless an
\* account removal took the row away (confirmBooking notifies after its save).
ConfirmNoticeIsTrue ==
    \A b \in Bookings :
      <<b, "confirmed">> \in notices /\ Exists(b) => CONFIRMED \in held[b]

\* A notice that a booking is cancelled or has expired goes out before the row
\* is written.  It comes true, unless a confirmation got in between, and then
\* the parent was told of that too; meanwhile the request waits only while
\* somebody is still at it, or a process died (cancelBooking,
\* rejectedBookingAfter48Hours).
NoticeIsTrueOrOvertaken ==
    \A b \in Bookings :
      {<<b, "canceled">>, <<b, "expired">>} \cap notices # {} /\ Exists(b) =>
        \/ row[b].status \in Canceled
        \/ <<b, "confirmed">> \in notices
        \/ row[b].status = PENDING /\ (Busy(b) \/ crashes > 0)

\* A draft stays a draft until its row is removed, nothing becomes one, and a
\* request that was answered never waits for an answer again: no write of a
\* stale row brings PENDING back.
AnswersAreFinal ==
    [][\A b \in Bookings :
         Exists(b) /\ row'[b].status \in BookingStatus =>
           /\ (row[b].status = DRAFT) <=> (row'[b].status = DRAFT)
           /\ row'[b].status = PENDING => row[b].status = PENDING]_vars

----------------------------------------------------------------------------
(* Holds when operations on a booking do not overlap. *)

\* The columns of a row tell one story: what is confirmed was confirmed and
\* never cancelled, a rejection was never confirmed, a cancellation was, and
\* only the expiry job cancels without a date, after the window; and the
\* statistics count every row but a draft in exactly one total.
ColumnsAgree ==
    \A b \in Bookings :
      LET r == row[b] IN
      /\ r.status = CONFIRMED => r.confirmedAt /\ ~r.canceledAt
      /\ r.status = COMPLETED => ~r.canceledAt
      /\ r.status = PARENT_CANCEL => r.canceledAt
      /\ r.status \in Canceled /\ r.canceledAt =>
           (r.isReject = "false" <=> r.confirmedAt) /\ r.isReject # "null"
      /\ r.status = BABY_SITTER_CANCEL /\ ~r.canceledAt =>
           Elapsed(b) /\ r.isReject = "false" /\ ~r.confirmedAt
      /\ Exists(b) /\ r.status # DRAFT => Cardinality(CountedIn(b)) = 1

\* cancelBooking tells the other party before it saves; when no process
\* dies in between, the booking is cancelled once the request is over.
CancelNoticeComesTrue ==
    \A b \in Bookings :
      <<b, "canceled">> \in notices /\ crashes = 0 /\ Exists(b) /\ ~Busy(b) =>
        row[b].status \in Canceled

\* Where a row stands in the life the abstract workflow describes.
Stage(r) ==
    CASE r.status = BABY_SITTER_CANCEL ->
           IF ~r.canceledAt THEN "expired"
           ELSE IF r.isReject = "true" THEN "sitter_rejected" ELSE "sitter_cancelled"
      [] r.status = PARENT_CANCEL ->
           IF r.isReject = "true" THEN "parent_withdrawn" ELSE "parent_cancelled"
      [] OTHER -> r.status

Workflow == INSTANCE BookingWorkflow
              WITH stage  <- [b \in Bookings |-> Stage(row[b])],
                   viewed <- {b \in Bookings : row[b].isViewed}

\* The three round trips of a request, the jobs and the cascades implement
\* the workflow in which every operation takes effect at once: each answer is
\* given to a waiting request, each completion to a confirmed booking, and
\* what the babysitter has seen stays seen.
WorkflowSpec == Workflow!Spec

----------------------------------------------------------------------------
(* Progress, under FairSpec. *)

\* b waits for an answer, the expiry job can see it, and both parties stay.
Outstanding(b) ==
    /\ row[b].status = PENDING
    /\ row[b].bookingTimes
    /\ account[row[b].babysitterId] = "active"
    /\ account[row[b].parentId] = "active"

\* A request with times is answered in the end, by its babysitter, its parent
\* or the expiry job, unless a party deletes the account: a crash between the
\* notice and the update only delays it (rejectedBookingAfter48Hours).
EveryRequestIsAnswered ==
    \A b \in Bookings : Outstanding(b) ~> ~Outstanding(b)

\* A confirmed booking does not stay confirmed once its times are over
\* (updateStatusBookingComplete).
EveryFinishedBookingIsClosed ==
    \A b \in Bookings :
      (row[b].status = CONFIRMED /\ Ended(b)) ~> row[b].status # CONFIRMED

----------------------------------------------------------------------------
(* What the source says and the program does not keep. *)

\* updateStatusBookingComplete selects the confirmed bookings it completes, so
\* a cancelled booking is never turned into a completed one.
CancelledIsNotCompleted ==
    [][\A b \in Bookings :
         row[b].status \in Canceled => row'[b].status # COMPLETED]_vars

\* The filter of countConfirmedBookingCancellations.
Counted(b) ==
    row[b].status = BABY_SITTER_CANCEL /\ row[b].isReject = "false"

\* Every booking that countConfirmedBookingCancellations counts against a
\* babysitter had been confirmed.
CountedWasConfirmed ==
    \A b \in Bookings : Counted(b) => CONFIRMED \in held[b]
=============================================================================
