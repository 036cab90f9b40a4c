-------------------------- MODULE BookingLifecycle --------------------------
(***************************************************************************)
(* The rows of the booking table and everything that writes them: the      *)
(* requests of booking-svc (create, confirm, cancel, view), the two hourly *)
(* jobs of cron-svc that write (reject an expired request, complete a      *)
(* finished booking) and the account operations of auth-svc that remove a  *)
(* party.                                                                  *)
(*                                                                         *)
(* A confirm or cancel request is three database round trips with an await *)
(* between them: it loads the row, then TypeORM's save loads the row again *)
(* to find the columns that differ, then it updates exactly those columns. *)
(* Each round trip is a step here.  Overlap = FALSE restricts the          *)
(* behaviours to those where an operation on a booking starts only when no *)
(* other one is under way on it; TRUE is what the deployment allows.       *)
(***************************************************************************)
EXTENDS Naturals, FiniteSets

CONSTANTS
    Bookings,       \* booking ids
    Babysitters,    \* user ids with role babysitter
    Parents,        \* user ids with role parent
    Requests,       \* slots for confirm and cancel calls being served
    None,           \* SQL null, and the booking of an unused slot
    Overlap,        \* whether operations on one booking may overlap
    MaxCrashes      \* bound: how often a service process dies

ASSUME NoneAssumption ==
    None \notin Bookings \cup Babysitters \cup Parents
ASSUME BoundAssumption == Overlap \in BOOLEAN /\ MaxCrashes \in Nat

VARIABLES
    row,            \* row[b]: the booking table
    age,            \* age[b]: 0 confirm window open, 1 elapsed, 2 all times over
    account,        \* account[u]: active, deleted (soft) or purged (hard)
    req,            \* req[r]: the confirm or cancel call in slot r
    rejectJob,      \* the job rejectedBookingAfter48Hours
    completeJob,    \* the job updateStatusBookingComplete
    held,           \* history: held[b] is every status b has ever had
    notices,        \* history: the push notifications sent, <<booking, kind>>
    crashes         \* how often a process died so far

vars == <<row, age, account, req, rejectJob, completeJob, held, notices, crashes>>

----------------------------------------------------------------------------
(* The booking table. *)

Users == Babysitters \cup Parents

DRAFT              == "draft"
PENDING            == "pending"
CONFIRMED          == "confirmed"
BABY_SITTER_CANCEL == "babysitter_cancel"
PARENT_CANCEL      == "parent_cancel"
COMPLETED          == "completed"

Canceled      == {BABY_SITTER_CANCEL, PARENT_CANCEL}
BookingStatus == {DRAFT, PENDING, CONFIRMED, COMPLETED} \cup Canceled
\* no row yet; row removed by the cascade of its user
NoRow         == {"none", "erased"}

\* The columns a stored row can change, dates as set or not set.
Columns == {"status", "isReject", "isViewed", "confirmedAt", "canceledAt"}

Row == [status : BookingStatus \cup NoRow,
        isReject : {"null", "false", "true"}, isViewed : BOOLEAN,
        confirmedAt : BOOLEAN, canceledAt : BOOLEAN,
        babysitterId : Babysitters \cup {None}, parentId : Parents \cup {None},
        bookingTimes : BOOLEAN]

EmptyRow == [status |-> "none", isReject |-> "null", isViewed |-> FALSE,
             confirmedAt |-> FALSE, canceledAt |-> FALSE,
             babysitterId |-> None, parentId |-> None, bookingTimes |-> FALSE]

Exists(b) == row[b].status \in BookingStatus

\* The window to confirm has run out: remainingTime = 0.
Elapsed(b) == age[b] >= 1

\* No bookingTime of b ends in the future; a booking without times has none.
Ended(b) == age[b] = 2 \/ ~row[b].bookingTimes

\* Every write of row goes with the history of statuses.
Remember == held' = [b \in Bookings |-> held[b] \cup {row'[b].status}]

Idle    == [pc |-> "idle", booking |-> None, snap |-> EmptyRow, cols |-> {}]
JobIdle == [pc |-> "idle", batch |-> {}]

Init ==
    /\ row = [b \in Bookings |-> EmptyRow]
    /\ age = [b \in Bookings |-> 0]
    /\ account = [u \in Users |-> "active"]
    /\ req = [r \in Requests |-> Idle]
    /\ rejectJob = JobIdle
    /\ completeJob = JobIdle
    /\ held = [b \in Bookings |-> {"none"}]
    /\ notices = {}
    /\ crashes = 0

\* b is between the first and the last step of some operation.
Busy(b) ==
    \/ \E r \in Requests : req[r].booking = b
    \/ b \in rejectJob.batch \cup completeJob.batch

MayStart(B) == Overlap \/ \A b \in B : ~Busy(b)

----------------------------------------------------------------------------
(* booking-svc: createBooking, confirmBooking, cancelBooking and the       *)
(* update that getBookingDetail fires.                                     *)

NewRow(s, p, times, status) ==
    [status |-> status, isReject |-> "null", isViewed |-> FALSE,
     confirmedAt |-> FALSE, canceledAt |-> FALSE,
     babysitterId |-> s, parentId |-> p, bookingTimes |-> times]

\* The user gateway admits DRAFT and PENDING; auth-svc sends COMPLETED, with
\* no parent, for a babysitter an administrator enters with past work.
CreateBooking(b) ==
    /\ row[b].status = "none"
    /\ \E s \in Babysitters, p \in Parents \cup {None}, times \in BOOLEAN,
          status \in {DRAFT, PENDING, COMPLETED} :
         /\ account[s] = "active"
         /\ IF status = COMPLETED THEN p = None
            ELSE p # None /\ account[p] # "purged"
         /\ row' = [row EXCEPT ![b] = NewRow(s, p, times, status)]
    /\ Remember
    /\ UNCHANGED <<age, account, req, rejectJob, completeJob, notices, crashes>>

CanConfirmDraft(b) == row[b].status \in {PENDING, DRAFT}         \* a mutant
CanConfirm(b)      == row[b].status = PENDING

CanCancelAny(b) == Exists(b)                                    \* a mutant
CanCancel(b)    == row[b].status \in {PENDING, CONFIRMED}

\* isReject is computed before the status is overwritten.
RejectFlagAfter(status) == "false"                              \* a mutant
RejectFlag(status)      == IF status = PENDING THEN "true" ELSE "false"

\* confirmBooking up to its save: the row is read and the guard passes.
ConfirmRead(r, b) ==
    /\ req[r].pc = "idle"
    /\ MayStart({b})
    /\ CanConfirm(b)
    /\ req' = [req EXCEPT ![r] =
                 [pc |-> "read", booking |-> b, cols |-> {},
                  snap |-> [row[b] EXCEPT !.status = CONFIRMED,
                                          !.confirmedAt = TRUE]]]
    /\ UNCHANGED <<row, age, account, rejectJob, completeJob, held, notices, crashes>>

\* cancelBooking up to its save; the other party is told before the row is
\* written.
CancelRead(r, b) ==
    /\ req[r].pc = "idle"
    /\ MayStart({b})
    /\ CanCancel(b)
    /\ \E canceledAs \in Canceled :
         req' = [req EXCEPT ![r] =
                   [pc |-> "read", booking |-> b, cols |-> {},
                    snap |-> [row[b] EXCEPT
                                !.status = canceledAs, !.canceledAt = TRUE,
                                !.isReject = RejectFlag(row[b].status)]]]
    /\ notices' = notices \cup {<<b, "canceled">>}
    /\ UNCHANGED <<row, age, account, rejectJob, completeJob, held, crashes>>

\* The date each operation stamps is new, so save always finds it changed.
Stamp(snap) == IF snap.status = CONFIRMED THEN "confirmedAt" ELSE "canceledAt"

ChangedButStatus(snap, stored) ==                               \* a mutant
    {c \in Columns \ {"status"} : snap[c] # stored[c]}
ChangedColumns(snap, stored) ==
    {c \in Columns : snap[c] # stored[c]} \cup {Stamp(snap)}

\* save loads the stored row and computes its changes.  When the row is gone
\* save inserts instead, and the foreign key of the purged user refuses it.
SaveLoad(r) ==
    /\ req[r].pc = "read"
    /\ LET b == req[r].booking IN
       req' = [req EXCEPT ![r] =
                 IF Exists(b)
                 THEN [@ EXCEPT !.pc = "loaded",
                                !.cols = ChangedColumns(req[r].snap, row[b])]
                 ELSE Idle]
    /\ UNCHANGED <<row, age, account, rejectJob, completeJob, held, notices, crashes>>

Merge(stored, snap, cols) ==
    [status       |-> IF "status" \in cols THEN snap.status ELSE stored.status,
     isReject     |-> IF "isReject" \in cols THEN snap.isReject ELSE stored.isReject,
     isViewed     |-> IF "isViewed" \in cols THEN snap.isViewed ELSE stored.isViewed,
     confirmedAt  |-> IF "confirmedAt" \in cols THEN snap.confirmedAt
                                                ELSE stored.confirmedAt,
     canceledAt   |-> IF "canceledAt" \in cols THEN snap.canceledAt
                                              ELSE stored.canceledAt,
     babysitterId |-> stored.babysitterId,
     parentId     |-> stored.parentId,
     bookingTimes |-> stored.bookingTimes]

\* save updates the changed columns by id; confirmBooking then notifies the
\* parent.
SaveUpdate(r) ==
    /\ req[r].pc = "loaded"
    /\ LET b == req[r].booking
           snap == req[r].snap
       IN /\ row' = IF Exists(b)
                    THEN [row EXCEPT ![b] = Merge(@, snap, req[r].cols)]
                    ELSE row
          /\ notices' = IF snap.status = CONFIRMED
                        THEN notices \cup {<<b, "confirmed">>} ELSE notices
    /\ Remember
    /\ req' = [req EXCEPT ![r] = Idle]
    /\ UNCHANGED <<age, account, rejectJob, completeJob, crashes>>

\* getBookingDetail by the booking's babysitter.
ViewBooking(b) ==
    /\ Exists(b)
    /\ MayStart({b})
    /\ row' = [row EXCEPT ![b].isViewed = TRUE]
    /\ UNCHANGED <<age, account, req, rejectJob, completeJob, held, notices, crashes>>

----------------------------------------------------------------------------
(* cron-svc. *)

\* getReminderBooking(0, both roles): the inner joins drop bookings without
\* times and bookings whose parent or babysitter is soft-deleted.
DueAnytime(b) ==                                                \* a mutant
    row[b].status = PENDING /\ row[b].bookingTimes
DueOnce(b) ==                                                   \* a mutant
    row[b].status = PENDING /\ row[b].bookingTimes /\ age[b] = 1
Due(b) ==
    /\ row[b].status = PENDING
    /\ Elapsed(b)
    /\ row[b].bookingTimes
    /\ account[row[b].babysitterId] = "active"
    /\ account[row[b].parentId] = "active"

DueBookings == {b \in Bookings : Due(b)}

\* A job that selects no booking writes nothing, hence the first guards.
RejectSelect ==
    /\ DueBookings # {}
    /\ rejectJob.pc = "idle"
    /\ MayStart(DueBookings)
    /\ rejectJob' = [pc |-> "selected", batch |-> DueBookings]
    /\ UNCHANGED <<row, age, account, req, completeJob, held, notices, crashes>>

RejectNotify ==
    /\ rejectJob.pc = "selected"
    /\ notices' = notices \cup (rejectJob.batch \X {"expired"})
    /\ rejectJob' = [rejectJob EXCEPT !.pc = "notified"]
    /\ UNCHANGED <<row, age, account, req, completeJob, held, crashes>>

RejectedFlagOnly(stored) == [stored EXCEPT !.isReject = "false"] \* a mutant
Rejected(stored) ==
    [stored EXCEPT !.status = BABY_SITTER_CANCEL, !.isReject = "false"]

\* updateBookingRejectAfter48Hours: UPDATE ... WHERE id IN batch AND pending.
RejectUpdate ==
    /\ rejectJob.pc = "notified"
    /\ row' = [b \in Bookings |->
                 IF b \in rejectJob.batch /\ row[b].status = PENDING
                 THEN Rejected(row[b]) ELSE row[b]]
    /\ Remember
    /\ rejectJob' = JobIdle
    /\ UNCHANGED <<age, account, req, completeJob, notices, crashes>>

FinishedEarly == {b \in Bookings : row[b].status = CONFIRMED}   \* a mutant
FinishedUnanswered ==                                           \* a mutant
    {b \in Bookings : row[b].status \in {PENDING, CONFIRMED} /\ Ended(b)}
FinishedJoined ==                                               \* a mutant
    {b \in Bookings : row[b].status = CONFIRMED /\ age[b] = 2}
FinishedBookings == {b \in Bookings : row[b].status = CONFIRMED /\ Ended(b)}

CompleteSelect ==
    /\ FinishedBookings # {}
    /\ completeJob.pc = "idle"
    /\ MayStart(FinishedBookings)
    /\ completeJob' = [pc |-> "selected", batch |-> FinishedBookings]
    /\ UNCHANGED <<row, age, account, req, rejectJob, held, notices, crashes>>

\* UPDATE ... WHERE id IN batch, whatever the status is by now.
CompleteUpdate ==
    /\ completeJob.pc = "selected"
    /\ row' = [b \in Bookings |->
                 IF b \in completeJob.batch /\ Exists(b)
                 THEN [row[b] EXCEPT !.status = COMPLETED]
                 ELSE row[b]]
    /\ Remember
    /\ completeJob' = JobIdle
    /\ UNCHANGED <<age, account, req, rejectJob, notices, crashes>>

----------------------------------------------------------------------------
(* auth-svc: a user deletes the account, an administrator restores it or   *)
(* removes it for good, which cascades to the bookings of either side.     *)

DeleteAccount(u) ==
    /\ account[u] = "active"
    /\ account' = [account EXCEPT ![u] = "deleted"]
    /\ UNCHANGED <<row, age, req, rejectJob, completeJob, held, notices, crashes>>

RestoreAccount(u) ==
    /\ account[u] = "deleted"
    /\ account' = [account EXCEPT ![u] = "active"]
    /\ UNCHANGED <<row, age, req, rejectJob, completeJob, held, notices, crashes>>

HardDeleteAccount(u) ==
    /\ account[u] # "purged"
    /\ account' = [account EXCEPT ![u] = "purged"]
    /\ row' = [b \in Bookings |->
                 IF u \in {row[b].babysitterId, row[b].parentId}
                 THEN [EmptyRow EXCEPT !.status = "erased"] ELSE row[b]]
    /\ Remember
    /\ UNCHANGED <<age, req, rejectJob, completeJob, notices, crashes>>

----------------------------------------------------------------------------
(* Time and process failures. *)

LastAge(b) == IF row[b].bookingTimes THEN 2 ELSE 1

\* Slots start at the earliest when the window closes, so they end after it.
Pass(b) ==
    /\ Exists(b)
    /\ age[b] < LastAge(b)
    /\ age' = [age EXCEPT ![b] = @ + 1]
    /\ UNCHANGED <<row, account, req, rejectJob, completeJob, held, notices, crashes>>

\* An unhandled rejection of a call nobody awaits ends the process; the
\* container restarts it with nothing in flight.
CrashBookingSvc ==
    /\ crashes < MaxCrashes
    /\ \E r \in Requests : req[r] # Idle
    /\ crashes' = crashes + 1
    /\ req' = [r \in Requests |-> Idle]
    /\ UNCHANGED <<row, age, account, rejectJob, completeJob, held, notices>>

CrashCronSvc ==
    /\ crashes < MaxCrashes
    /\ rejectJob # JobIdle \/ completeJob # JobIdle
    /\ crashes' = crashes + 1
    /\ rejectJob' = JobIdle
    /\ completeJob' = JobIdle
    /\ UNCHANGED <<row, age, account, req, held, notices>>

RequestStep(r) == SaveLoad(r) \/ SaveUpdate(r)

Next ==
    \/ \E b \in Bookings : CreateBooking(b) \/ ViewBooking(b) \/ Pass(b)
    \/ \E r \in Requests, b \in Bookings : ConfirmRead(r, b) \/ CancelRead(r, b)
    \/ \E r \in Requests : SaveLoad(r) \/ SaveUpdate(r)
    \/ RejectSelect \/ RejectNotify \/ RejectUpdate
    \/ CompleteSelect \/ CompleteUpdate
    \/ \E u \in Users :
         DeleteAccount(u) \/ RestoreAccount(u) \/ HardDeleteAccount(u)
    \/ CrashBookingSvc \/ CrashCronSvc

Spec == Init /\ [][Next]_vars

\* Time passes, the event loop finishes what it started, and the jobs run
\* every hour on a process that is restarted when it dies.
Fairness ==
    /\ \A b \in Bookings : WF_vars(Pass(b))
    /\ \A r \in Requests : WF_vars(RequestStep(r))
    /\ WF_vars(RejectSelect) /\ WF_vars(RejectNotify) /\ WF_vars(RejectUpdate)
    /\ WF_vars(CompleteSelect) /\ WF_vars(CompleteUpdate)

FairSpec == Spec /\ Fairness
=============================================================================
