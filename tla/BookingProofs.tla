---------------------------- MODULE BookingProofs ----------------------------
(***************************************************************************)
(* Proofs of the safety properties of BookingCorrectness for any number of *)
(* bookings, users, requests and crashes: first those that hold however    *)
(* operations overlap, then those that need the serial regime, the         *)
(* refinement of BookingWorkflow among them.                               *)
(***************************************************************************)
EXTENDS BookingCorrectness, FiniteSetTheorems, TLAPS

\* What a stored booking keeps between the steps: its status is in its
\* history, and the properties to prove hold of it.
BookingInv(b) ==
    /\ row[b].status \in held[b]
    /\ row[b].status = "none" =>
         held[b] = {"none"} /\ <<b, "confirmed">> \notin notices
    /\ row[b].status = PENDING =>
         row[b].isReject = "null" /\ ~row[b].confirmedAt /\ ~row[b].canceledAt
    /\ row[b].status = COMPLETED /\ PENDING \in held[b] =>
         CONFIRMED \in held[b] /\ Ended(b)
    /\ <<b, "expired">> \in notices => Elapsed(b) /\ PENDING \in held[b]
    /\ <<b, "confirmed">> \in notices /\ Exists(b) => CONFIRMED \in held[b]

\* What a request in flight may rely on: its booking is no draft, a row that
\* still waits is written with its status, and a confirmation that does not
\* write the status found it confirmed.
RequestInv(r) ==
    LET b == req[r].booking IN
    req[r].pc # "idle" =>
      /\ b \in Bookings
      /\ row[b].status \notin {"none", DRAFT}
      /\ req[r].pc = "loaded" /\ row[b].status = PENDING => "status" \in req[r].cols
      /\ (/\ req[r].pc = "loaded"
          /\ req[r].snap.status = CONFIRMED
          /\ "status" \notin req[r].cols) => CONFIRMED \in held[b]

\* What a job may still rely on when it updates the bookings it selected.
RejectInv ==
    \A b \in rejectJob.batch :
      Elapsed(b) /\ PENDING \in held[b] /\ row[b].status \notin {"none", DRAFT}

CompleteInv ==
    \A b \in completeJob.batch :
      CONFIRMED \in held[b] /\ Ended(b) /\ row[b].status \notin {"none", DRAFT}

IInv ==
    /\ TypeOK
    /\ \A b \in Bookings : BookingInv(b)
    /\ \A r \in Requests : RequestInv(r)
    /\ RejectInv
    /\ CompleteInv

----------------------------------------------------------------------------
(* Types. *)

USE NoneAssumption, BoundAssumption

LEMMA EmptyRowType == EmptyRow \in Row
BY DEF EmptyRow, Row, NoRow

LEMMA InitType == Init => TypeOK
<1> SUFFICES ASSUME Init PROVE TypeOK
  OBVIOUS
<1>1. Idle \in [pc : ReqPC, booking : Bookings \cup {None},
                snap : Row, cols : SUBSET Columns]
  BY EmptyRowType DEF Idle, ReqPC
<1>2. req \in [Requests -> [pc : ReqPC, booking : Bookings \cup {None},
                            snap : Row, cols : SUBSET Columns]]
  BY <1>1 DEF Init
<1>3. \A r \in Requests : req[r].pc = "idle"
  BY DEF Init, Idle
<1> QED
  BY <1>2, <1>3, EmptyRowType
  DEF Init, TypeOK, JobIdle, BookingStatus, NoRow

\* Saving the changed columns of one row into another gives a row again,
\* with the users and the times it had.
LEMMA MergeType ==
  ASSUME NEW stored \in Row, NEW snap \in Row, NEW cols \in SUBSET Columns
  PROVE  /\ Merge(stored, snap, cols) \in Row
         /\ Merge(stored, snap, cols).status =
              IF "status" \in cols THEN snap.status ELSE stored.status
         /\ Merge(stored, snap, cols).bookingTimes = stored.bookingTimes
BY DEF Merge, Row

LEMMA HistoryType ==
  ASSUME TypeOK, row' \in [Bookings -> Row], Remember
  PROVE  held' \in [Bookings -> SUBSET (BookingStatus \cup NoRow)]
<1>1. \A b \in Bookings : row'[b].status \in BookingStatus \cup NoRow
  BY DEF Row
<1> QED
  BY <1>1 DEF TypeOK, Remember

LEMMA NextType == TypeOK /\ [Next]_vars => TypeOK'
<1> SUFFICES ASSUME TypeOK, [Next]_vars PROVE TypeOK'
  OBVIOUS
<1> DEFINE Req == [pc : ReqPC, booking : Bookings \cup {None},
                   snap : Row, cols : SUBSET Columns]
           ReqOK(q) == /\ q \in [Requests -> Req]
                       /\ \A r \in Requests : q[r].pc # "idle" =>
                            /\ q[r].booking \in Bookings
                            /\ q[r].snap.status \in {CONFIRMED} \cup Canceled
<1>i. Idle \in Req /\ Idle.pc = "idle"
  BY EmptyRowType DEF Idle, ReqPC
<1>j. \A b \in Bookings : row[b] \in Row
  BY DEF TypeOK
<1>s. /\ DRAFT \in BookingStatus /\ PENDING \in BookingStatus
      /\ CONFIRMED \in BookingStatus /\ COMPLETED \in BookingStatus
      /\ BABY_SITTER_CANCEL \in BookingStatus /\ Canceled \subseteq BookingStatus
  BY DEF BookingStatus, Canceled
<1>1. ASSUME NEW b \in Bookings, CreateBooking(b) PROVE TypeOK'
  <2>1. PICK s \in Babysitters, p \in Parents \cup {None}, times \in BOOLEAN,
             status \in {DRAFT, PENDING, COMPLETED} :
          row' = [row EXCEPT ![b] = NewRow(s, p, times, status)]
    BY <1>1 DEF CreateBooking
  <2>2. NewRow(s, p, times, status) \in Row
    BY <1>s DEF NewRow, Row
  <2>3. row' \in [Bookings -> Row]
    BY <2>1, <2>2 DEF TypeOK
  <2> QED
    BY <1>1, <2>3, HistoryType DEF CreateBooking, TypeOK
<1>2. ASSUME NEW b \in Bookings, ViewBooking(b) PROVE TypeOK'
  <2>1. [row[b] EXCEPT !.isViewed = TRUE] \in Row
    BY <1>j DEF Row
  <2>2. row' \in [Bookings -> Row]
    BY <1>2, <2>1 DEF ViewBooking, TypeOK
  <2> QED
    BY <1>2, <2>2 DEF ViewBooking, TypeOK
<1>3. ASSUME NEW b \in Bookings, Pass(b) PROVE TypeOK'
  BY <1>3 DEF Pass, LastAge, TypeOK
<1>4. ASSUME NEW r \in Requests, NEW b \in Bookings, ConfirmRead(r, b)
      PROVE  TypeOK'
  <2> DEFINE snap == [row[b] EXCEPT !.status = CONFIRMED, !.confirmedAt = TRUE]
             q == [pc |-> "read", booking |-> b, cols |-> {}, snap |-> snap]
  <2>1. snap \in Row /\ snap.status = CONFIRMED
    BY <1>j, <1>s DEF Row
  <2>2. q \in Req /\ q.booking \in Bookings /\ q.snap.status = CONFIRMED
    BY <2>1 DEF ReqPC
  <2>3. req' = [req EXCEPT ![r] = q]
    BY <1>4 DEF ConfirmRead
  <2>4. ReqOK(req')
    BY <2>2, <2>3 DEF TypeOK
  <2> QED
    BY <1>4, <2>4 DEF ConfirmRead, TypeOK
<1>5. ASSUME NEW r \in Requests, NEW b \in Bookings, CancelRead(r, b)
      PROVE  TypeOK'
  <2>1. PICK c \in Canceled :
          req' = [req EXCEPT ![r] =
                    [pc |-> "read", booking |-> b, cols |-> {},
                     snap |-> [row[b] EXCEPT !.status = c, !.canceledAt = TRUE,
                                 !.isReject = RejectFlag(row[b].status)]]]
    BY <1>5 DEF CancelRead
  <2> DEFINE snap == [row[b] EXCEPT !.status = c, !.canceledAt = TRUE,
                                    !.isReject = RejectFlag(row[b].status)]
             q == [pc |-> "read", booking |-> b, cols |-> {}, snap |-> snap]
  <2>2. snap \in Row /\ snap.status = c
    BY <1>j, <1>s DEF Row, RejectFlag
  <2>3. q \in Req /\ q.booking \in Bookings /\ q.snap.status \in Canceled
    BY <2>2 DEF ReqPC
  <2>4. ReqOK(req')
    BY <2>1, <2>3 DEF TypeOK
  <2>5. notices' \in SUBSET (Bookings \X {"canceled", "confirmed", "expired"})
    BY <1>5 DEF CancelRead, TypeOK
  <2> QED
    BY <1>5, <2>4, <2>5 DEF CancelRead, TypeOK
<1>6. ASSUME NEW r \in Requests, SaveLoad(r) PROVE TypeOK'
  <2> DEFINE b == req[r].booking
             q == [req[r] EXCEPT !.pc = "loaded",
                                 !.cols = ChangedColumns(req[r].snap, row[b])]
  <2>1. ChangedColumns(req[r].snap, row[b]) \subseteq Columns
    BY DEF ChangedColumns, Stamp, Columns
  <2>2. req[r] \in Req /\ req[r].booking \in Bookings
        /\ req[r].snap.status \in {CONFIRMED} \cup Canceled
    BY <1>6 DEF SaveLoad, TypeOK
  <2>3. q \in Req /\ q.booking \in Bookings
        /\ q.snap.status \in {CONFIRMED} \cup Canceled
    BY <2>1, <2>2 DEF ReqPC
  <2>4. req' = [req EXCEPT ![r] = q] \/ req' = [req EXCEPT ![r] = Idle]
    BY <1>6 DEF SaveLoad, TypeOK
  <2>5. ReqOK(req')
    <3> HIDE DEF q
    <3>1. CASE req' = [req EXCEPT ![r] = q]
      BY <2>3, <3>1 DEF TypeOK
    <3>2. CASE req' = [req EXCEPT ![r] = Idle]
      BY <1>i, <3>2 DEF TypeOK
    <3> QED
      BY <2>4, <3>1, <3>2
  <2> QED
    BY <1>6, <2>5 DEF SaveLoad, TypeOK
<1>7. ASSUME NEW r \in Requests, SaveUpdate(r) PROVE TypeOK'
  <2>1. req[r] \in Req /\ req[r].booking \in Bookings
    BY <1>7 DEF SaveUpdate, TypeOK
  <2>2. Merge(row[req[r].booking], req[r].snap, req[r].cols) \in Row
    BY <2>1, <1>j, MergeType
  <2>3. row' \in [Bookings -> Row]
    BY <1>7, <2>1, <2>2 DEF SaveUpdate, TypeOK
  <2>4. notices' \in SUBSET (Bookings \X {"canceled", "confirmed", "expired"})
    BY <1>7, <2>1 DEF SaveUpdate, TypeOK
  <2>5. ReqOK(req')
    BY <1>7, <1>i DEF SaveUpdate, TypeOK
  <2>6. held' \in [Bookings -> SUBSET (BookingStatus \cup NoRow)]
    BY <1>7, <2>3, HistoryType DEF SaveUpdate
  <2> QED
    BY <1>7, <2>3, <2>4, <2>5, <2>6 DEF SaveUpdate, TypeOK
<1>8. CASE RejectSelect
  BY <1>8 DEF RejectSelect, DueBookings, TypeOK
<1>9. CASE RejectNotify
  BY <1>9 DEF RejectNotify, TypeOK
<1>10. CASE RejectUpdate
  <2>1. \A b \in Bookings : Rejected(row[b]) \in Row
    BY <1>j, <1>s DEF Rejected, Row
  <2>2. row' \in [Bookings -> Row]
    BY <1>10, <1>j, <2>1 DEF RejectUpdate
  <2> QED
    BY <1>10, <2>2, HistoryType DEF RejectUpdate, JobIdle, TypeOK
<1>11. CASE CompleteSelect
  BY <1>11 DEF CompleteSelect, FinishedBookings, TypeOK
<1>12. CASE CompleteUpdate
  <2>1. \A b \in Bookings : [row[b] EXCEPT !.status = COMPLETED] \in Row
    BY <1>j, <1>s DEF Row
  <2>2. row' \in [Bookings -> Row]
    BY <1>12, <1>j, <2>1 DEF CompleteUpdate
  <2> QED
    BY <1>12, <2>2, HistoryType DEF CompleteUpdate, JobIdle, TypeOK
<1>13. ASSUME NEW u \in Users, DeleteAccount(u) \/ RestoreAccount(u)
       PROVE  TypeOK'
  BY <1>13 DEF DeleteAccount, RestoreAccount, TypeOK
<1>14. ASSUME NEW u \in Users, HardDeleteAccount(u) PROVE TypeOK'
  <2>1. [EmptyRow EXCEPT !.status = "erased"] \in Row
    BY EmptyRowType DEF Row, NoRow
  <2>2. row' \in [Bookings -> Row]
    BY <1>14, <1>j, <2>1 DEF HardDeleteAccount
  <2> QED
    BY <1>14, <2>2, HistoryType DEF HardDeleteAccount, TypeOK
<1>15. CASE CrashBookingSvc
  <2>1. ReqOK(req')
    BY <1>15, <1>i DEF CrashBookingSvc
  <2> QED
    BY <1>15, <2>1 DEF CrashBookingSvc, TypeOK
<1>16. CASE CrashCronSvc
  BY <1>16 DEF CrashCronSvc, JobIdle, TypeOK
<1>17. CASE UNCHANGED vars
  BY <1>17 DEF vars, TypeOK
<1> QED
  BY <1>1, <1>2, <1>3, <1>4, <1>5, <1>6, <1>7, <1>8, <1>9, <1>10, <1>11,
     <1>12, <1>13, <1>14, <1>15, <1>16, <1>17 DEF Next

----------------------------------------------------------------------------
(* The inductive invariant. *)

LEMMA InitInv == Init => IInv
<1> SUFFICES ASSUME Init PROVE IInv
  OBVIOUS
<1>1. TypeOK
  BY InitType
<1>2. \A b \in Bookings : BookingInv(b)
  BY DEF Init, BookingInv, EmptyRow, PENDING, COMPLETED, BookingStatus, Exists
<1>3. \A r \in Requests : RequestInv(r)
  BY DEF Init, RequestInv, Idle
<1>4. RejectInv /\ CompleteInv
  BY DEF Init, RejectInv, CompleteInv, JobIdle
<1> QED
  BY <1>1, <1>2, <1>3, <1>4 DEF IInv

\* A step that leaves the rows and the history of statuses alone, lets ages
\* only grow, and takes no booking into a job or a request keeps the part of
\* the invariant each of them has.
LEMMA QuietBookings ==
  ASSUME TypeOK, \A b \in Bookings : BookingInv(b),
         UNCHANGED <<row, age, held, notices>>
  PROVE  \A b \in Bookings : BookingInv(b)'
BY DEF BookingInv, Ended, Elapsed, Exists

LEMMA QuietRequests ==
  ASSUME \A r \in Requests : RequestInv(r), UNCHANGED <<row, held, req>>
  PROVE  \A r \in Requests : RequestInv(r)'
BY DEF RequestInv

LEMMA QuietJobs ==
  ASSUME RejectInv, CompleteInv, TypeOK,
         UNCHANGED <<row, age, held, rejectJob, completeJob>>
  PROVE  RejectInv' /\ CompleteInv'
BY DEF RejectInv, CompleteInv, Ended, Elapsed

\* What every step other than a creation does to the row of a booking at most:
\* no draft appears and nothing comes to wait, and no clock runs back.
Written(b) ==
    /\ row'[b].status \in {"none", DRAFT} => row[b].status \in {"none", DRAFT}
    /\ row'[b].status = PENDING => row[b].status = PENDING
    /\ Ended(b) => Ended(b)'
    /\ Elapsed(b) => Elapsed(b)'

LEMMA WrittenKeepsJobs ==
  ASSUME TypeOK, RejectInv, CompleteInv, Remember,
         \A b \in Bookings : Written(b),
         rejectJob' \in {rejectJob, JobIdle}, completeJob' \in {completeJob, JobIdle}
  PROVE  RejectInv' /\ CompleteInv'
<1>1. \A b \in Bookings : held[b] \subseteq held'[b]
  BY DEF Remember, TypeOK
<1>2. rejectJob'.batch \subseteq rejectJob.batch
      /\ completeJob'.batch \subseteq completeJob.batch
  BY DEF JobIdle
<1>3. rejectJob.batch \subseteq Bookings /\ completeJob.batch \subseteq Bookings
  BY DEF TypeOK
<1>4. RejectInv'
  BY <1>1, <1>2, <1>3 DEF RejectInv, Written
<1>5. CompleteInv'
  BY <1>1, <1>2, <1>3 DEF CompleteInv, Written
<1> QED
  BY <1>4, <1>5

\* A request keeps what it relies on when its own slot is untouched or freed.
LEMMA WrittenKeepsRequests ==
  ASSUME TypeOK, \A r \in Requests : RequestInv(r), Remember,
         \A b \in Bookings : Written(b),
         \A r \in Requests : req'[r] = req[r] \/ req'[r] = Idle
  PROVE  \A r \in Requests : RequestInv(r)'
<1>1. \A b \in Bookings : held[b] \subseteq held'[b]
  BY DEF Remember, TypeOK
<1>2. SUFFICES ASSUME NEW r \in Requests, req'[r] = req[r] PROVE RequestInv(r)'
  BY DEF RequestInv, Idle
<1> QED
  BY <1>1, <1>2 DEF RequestInv, Written

\* The invariant of one booking survives a step that writes no row of it.
LEMMA UntouchedBooking ==
  ASSUME TypeOK, NEW b \in Bookings, BookingInv(b), Remember,
         row'[b] = row[b], age'[b] = age[b],
         notices' = notices
  PROVE  BookingInv(b)'
<1>1. held'[b] = held[b]
  BY DEF Remember, BookingInv, TypeOK
<1> QED
  BY <1>1 DEF BookingInv, Ended, Elapsed, Exists

\* The statuses are different strings, and "none" and "erased" are none of them.
LEMMA StatusFacts ==
  /\ Canceled = {BABY_SITTER_CANCEL, PARENT_CANCEL}
  /\ {PENDING, CONFIRMED, COMPLETED, DRAFT} \cap Canceled = {}
  /\ PENDING # CONFIRMED /\ PENDING # COMPLETED /\ PENDING # DRAFT
  /\ CONFIRMED # COMPLETED /\ CONFIRMED # DRAFT /\ COMPLETED # DRAFT
  /\ "none" \notin BookingStatus /\ "erased" \notin BookingStatus
  /\ {DRAFT, PENDING, CONFIRMED, COMPLETED} \cup Canceled = BookingStatus
BY DEF Canceled, BookingStatus, PENDING, CONFIRMED, COMPLETED, DRAFT,
       BABY_SITTER_CANCEL, PARENT_CANCEL

LEMMA CreateInv ==
  ASSUME IInv, TypeOK', NEW b \in Bookings, CreateBooking(b)
  PROVE  IInv'
<1> USE DEF IInv
<1>1. PICK s \in Babysitters, p \in Parents \cup {None}, times \in BOOLEAN,
           status \in {DRAFT, PENDING, COMPLETED} :
        row' = [row EXCEPT ![b] = NewRow(s, p, times, status)]
  BY DEF CreateBooking
<1>2. /\ row[b].status = "none" /\ held[b] = {"none"}
      /\ row'[b] = NewRow(s, p, times, status)
      /\ \A x \in Bookings \ {b} : row'[x] = row[x]
  BY <1>1 DEF CreateBooking, BookingInv, TypeOK
<1>3. \A x \in Bookings : held'[x] = held[x] \cup {row'[x].status}
  BY DEF CreateBooking, Remember
<1>4. BookingInv(b)'
  <2>1. held'[b] = {"none", status} /\ row'[b].status = status
    BY <1>2, <1>3 DEF NewRow
  <2>2. <<b, "expired">> \notin notices /\ <<b, "confirmed">> \notin notices
    BY <1>2 DEF BookingInv, PENDING
  <2>3. notices' = notices
    BY DEF CreateBooking
  <2>4. status = PENDING => ~row'[b].confirmedAt /\ ~row'[b].canceledAt
                            /\ row'[b].isReject = "null"
    BY <1>2 DEF NewRow
  <2>5. status \in BookingStatus /\ (status = COMPLETED => PENDING \notin held'[b])
    BY <2>1, StatusFacts DEF PENDING, COMPLETED
  <2> QED
    BY <2>1, <2>2, <2>3, <2>4, <2>5, StatusFacts DEF BookingInv
<1>5. \A x \in Bookings : BookingInv(x)'
  BY <1>2, <1>4, UntouchedBooking DEF CreateBooking
<1>6. \A r \in Requests : RequestInv(r)'
  BY <1>2, <1>3 DEF CreateBooking, RequestInv
<1>7. RejectInv' /\ CompleteInv'
  BY <1>2, <1>3 DEF CreateBooking, RejectInv, CompleteInv, Elapsed, Ended, TypeOK
<1> QED
  BY <1>5, <1>6, <1>7

LEMMA ViewInv ==
  ASSUME IInv, TypeOK', NEW b \in Bookings, ViewBooking(b)
  PROVE  IInv'
<1> USE DEF IInv
<1>1. \A x \in Bookings : /\ row'[x].status = row[x].status
                          /\ row'[x].isReject = row[x].isReject
                          /\ row'[x].confirmedAt = row[x].confirmedAt
                          /\ row'[x].canceledAt = row[x].canceledAt
                          /\ row'[x].bookingTimes = row[x].bookingTimes
  BY DEF ViewBooking, TypeOK, Row
<1>2. UNCHANGED <<age, req, rejectJob, completeJob, held, notices>>
  BY DEF ViewBooking
<1>3. ASSUME NEW x \in Bookings PROVE BookingInv(x)'
  BY <1>1, <1>2 DEF BookingInv, Ended, Elapsed, Exists
<1>4. \A r \in Requests : RequestInv(r)'
  BY <1>1, <1>2 DEF RequestInv
<1>5. RejectInv' /\ CompleteInv'
  BY <1>1, <1>2 DEF RejectInv, CompleteInv, Ended, Elapsed, TypeOK
<1> QED
  BY <1>3, <1>4, <1>5

LEMMA PassInv ==
  ASSUME IInv, TypeOK', NEW b \in Bookings, Pass(b)
  PROVE  IInv'
<1> USE DEF IInv
<1>1. UNCHANGED <<row, req, rejectJob, completeJob, held, notices>>
  BY DEF Pass
<1>2. \A x \in Bookings : /\ Elapsed(x) => Elapsed(x)'
                          /\ Ended(x) => Ended(x)'
  BY DEF Pass, Elapsed, Ended, LastAge, TypeOK
<1>3. ASSUME NEW x \in Bookings PROVE BookingInv(x)'
  BY <1>1, <1>2 DEF BookingInv, Exists
<1>4. \A r \in Requests : RequestInv(r)'
  BY <1>1, QuietRequests
<1>5. RejectInv' /\ CompleteInv'
  BY <1>1, <1>2 DEF RejectInv, CompleteInv, TypeOK
<1> QED
  BY <1>3, <1>4, <1>5

\* A request that starts on b, a booking that is neither a draft nor missing,
\* and whose notice, if it sends one, tells of a cancellation.
LEMMA ReadInv ==
  ASSUME IInv, TypeOK', NEW r \in Requests, NEW b \in Bookings,
         ConfirmRead(r, b) \/ CancelRead(r, b)
  PROVE  IInv'
<1> USE DEF IInv
<1>1. UNCHANGED <<row, age, rejectJob, completeJob, held>>
  BY DEF ConfirmRead, CancelRead
<1>2. notices \subseteq notices' /\ notices' \subseteq notices \cup {<<b, "canceled">>}
  BY DEF ConfirmRead, CancelRead
<1>3. \A x \in Bookings, k \in {"expired", "confirmed"} :
        <<x, k>> \in notices' <=> <<x, k>> \in notices
  BY <1>2
<1>4. ASSUME NEW x \in Bookings PROVE BookingInv(x)'
  BY <1>1, <1>3 DEF BookingInv, Ended, Elapsed, Exists
<1>5. row[b].status \notin {"none", DRAFT}
  BY StatusFacts DEF ConfirmRead, CancelRead, CanConfirm, CanCancel
<1>6. /\ req'[r].booking = b /\ req'[r].pc = "read"
      /\ \A q \in Requests \ {r} : req'[q] = req[q]
  <2>1. CASE ConfirmRead(r, b)
    BY <2>1 DEF ConfirmRead, TypeOK
  <2>2. CASE CancelRead(r, b)
    <3>1. PICK c \in Canceled :
            req' = [req EXCEPT ![r] =
                      [pc |-> "read", booking |-> b, cols |-> {},
                       snap |-> [row[b] EXCEPT !.status = c, !.canceledAt = TRUE,
                                   !.isReject = RejectFlag(row[b].status)]]]
      BY <2>2 DEF CancelRead
    <3> QED
      BY <3>1 DEF TypeOK
  <2> QED
    BY <2>1, <2>2
<1>7. \A q \in Requests : RequestInv(q)'
  BY <1>1, <1>5, <1>6 DEF RequestInv
<1>8. RejectInv' /\ CompleteInv'
  BY <1>1, QuietJobs
<1> QED
  BY <1>4, <1>7, <1>8

LEMMA LoadInv ==
  ASSUME IInv, TypeOK', NEW r \in Requests, SaveLoad(r)
  PROVE  IInv'
<1> USE DEF IInv
<1> DEFINE b == req[r].booking
           cols == ChangedColumns(req[r].snap, row[b])
<1>1. UNCHANGED <<row, age, rejectJob, completeJob, held, notices>>
  BY DEF SaveLoad
<1>2. /\ req'[r] = Idle \/ /\ req'[r].booking = b
                           /\ req'[r].snap = req[r].snap
                           /\ req'[r].cols = cols
      /\ \A q \in Requests \ {r} : req'[q] = req[q]
  BY DEF SaveLoad, TypeOK
<1>3. b \in Bookings /\ row[b].status \notin {"none", DRAFT}
      /\ req[r].snap.status \in {CONFIRMED} \cup Canceled
  BY DEF SaveLoad, RequestInv, TypeOK
<1>4. "status" \in cols <=> req[r].snap.status # row[b].status
  BY DEF ChangedColumns, Columns, Stamp
<1>5. row[b].status \in held[b]
  BY <1>3 DEF BookingInv
<1>6. RequestInv(r)'
  <2> HIDE DEF cols
  <2>1. CASE req'[r] = Idle
    BY <2>1 DEF RequestInv, Idle
  <2>2. CASE /\ req'[r].booking = b /\ req'[r].snap = req[r].snap
             /\ req'[r].cols = cols
    BY <1>1, <1>3, <1>4, <1>5, <2>2, StatusFacts DEF RequestInv
  <2> QED
    BY <1>2, <2>1, <2>2
<1>7. \A q \in Requests : RequestInv(q)'
  BY <1>1, <1>2, <1>6 DEF RequestInv
<1>8. \A x \in Bookings : BookingInv(x)'
  BY <1>1, QuietBookings
<1>9. RejectInv' /\ CompleteInv'
  BY <1>1, QuietJobs
<1> QED
  BY <1>7, <1>8, <1>9

LEMMA UpdateInv ==
  ASSUME IInv, TypeOK', NEW r \in Requests, SaveUpdate(r)
  PROVE  IInv'
<1> USE DEF IInv
<1>b. PICK b \in Bookings : b = req[r].booking
  BY DEF SaveUpdate, RequestInv
<1> DEFINE snap == req[r].snap
           new == Merge(row[b], snap, req[r].cols)
<1>1. /\ b \in Bookings /\ row[b] \in Row /\ snap \in Row
      /\ req[r].cols \in SUBSET Columns
      /\ snap.status \in {CONFIRMED} \cup Canceled
      /\ row[b].status \notin {"none", DRAFT}
  BY <1>b DEF SaveUpdate, RequestInv, TypeOK
<1>2. /\ row'[b] = IF Exists(b) THEN new ELSE row[b]
      /\ \A x \in Bookings \ {b} : row'[x] = row[x]
  BY <1>b, <1>1 DEF SaveUpdate, TypeOK
<1>3. new.status = (IF "status" \in req[r].cols THEN snap.status ELSE row[b].status)
      /\ new.bookingTimes = row[b].bookingTimes
  BY <1>1, MergeType
<1>4. UNCHANGED <<age, rejectJob, completeJob>> /\ Remember
  BY DEF SaveUpdate
<1>5. \A x \in Bookings : held'[x] = held[x] \cup {row'[x].status}
  BY <1>4 DEF Remember
<1>6. row[b].status = PENDING => "status" \in req[r].cols
  BY <1>b DEF SaveUpdate, RequestInv
<1>7. row'[b].status \notin {"none", DRAFT, PENDING}
  BY <1>1, <1>2, <1>3, <1>6, StatusFacts DEF Exists
<1>8. \A k \in {"expired", "confirmed"}, x \in Bookings :
        <<x, k>> \in notices' <=>
          \/ <<x, k>> \in notices
          \/ x = b /\ k = "confirmed" /\ snap.status = CONFIRMED
  BY <1>b, <1>1 DEF SaveUpdate
<1>9. Exists(b) /\ snap.status = CONFIRMED => CONFIRMED \in held'[b]
  <2> SUFFICES ASSUME Exists(b), snap.status = CONFIRMED
               PROVE  CONFIRMED \in held'[b]
    OBVIOUS
  <2>1. CASE "status" \in req[r].cols
    BY <1>1, <1>2, <1>3, <1>5, <2>1
  <2>2. CASE "status" \notin req[r].cols
    BY <1>b, <1>1, <1>5, <2>2 DEF SaveUpdate, RequestInv
  <2> QED
    BY <2>1, <2>2
<1> HIDE DEF new
<1>10. \A x \in Bookings : Written(x)
  BY <1>1, <1>2, <1>3, <1>4, <1>7 DEF Written, Ended, Elapsed
<1>11. BookingInv(b)'
  <2>1. row'[b].status \in held'[b]
    BY <1>1, <1>5
  <2>2. row'[b].status = COMPLETED /\ PENDING \in held'[b] =>
          CONFIRMED \in held'[b] /\ Ended(b)'
    <3>1. row'[b].status = COMPLETED =>
            row[b].status = COMPLETED /\ row'[b].bookingTimes = row[b].bookingTimes
      BY <1>1, <1>2, <1>3, StatusFacts
    <3>2. PENDING \in held'[b] => PENDING \in held[b]
      BY <1>5, <1>7
    <3>3. CONFIRMED \in held[b] => CONFIRMED \in held'[b]
      BY <1>5
    <3> QED
      BY <1>4, <3>1, <3>2, <3>3 DEF BookingInv, Ended
  <2>3. <<b, "expired">> \in notices' => Elapsed(b)' /\ PENDING \in held'[b]
    BY <1>1, <1>4, <1>5, <1>8 DEF BookingInv, Elapsed
  <2>4. <<b, "confirmed">> \in notices' /\ Exists(b)' => CONFIRMED \in held'[b]
    <3>1. Exists(b)' => Exists(b)
      BY <1>2 DEF Exists
    <3> QED
      BY <1>1, <1>5, <1>8, <1>9, <3>1 DEF BookingInv
  <2> QED
    BY <1>7, <2>1, <2>2, <2>3, <2>4 DEF BookingInv
<1>12. ASSUME NEW x \in Bookings \ {b} PROVE BookingInv(x)'
  <2>1. held'[x] = held[x]
    <3>1. row'[x] = row[x] /\ row[x].status \in held[x]
      BY <1>2 DEF BookingInv
    <3>2. held'[x] = held[x] \cup {row[x].status}
      BY <1>5, <3>1
    <3> QED
      BY <3>1, <3>2
  <2> QED
    BY <1>2, <1>4, <1>8, <2>1 DEF BookingInv, Ended, Elapsed, Exists
<1>13. \A q \in Requests : RequestInv(q)'
  <2>1. \A q \in Requests : req'[q] = req[q] \/ req'[q] = Idle
    BY DEF SaveUpdate, TypeOK
  <2> QED
    BY <1>4, <1>10, <2>1, WrittenKeepsRequests
<1>14. RejectInv' /\ CompleteInv'
  BY <1>4, <1>10, WrittenKeepsJobs
<1> QED
  BY <1>11, <1>12, <1>13, <1>14

\* The two jobs up to their updates: what they select is worth relying on.
LEMMA SelectInv ==
  ASSUME IInv, TypeOK', RejectSelect \/ CompleteSelect
  PROVE  IInv'
<1> USE DEF IInv
<1>1. UNCHANGED <<row, age, req, held, notices>>
  BY DEF RejectSelect, CompleteSelect
<1>2. \A b \in rejectJob'.batch :
        b \in rejectJob.batch \/ (b \in Bookings /\ Due(b))
  <2>1. CASE RejectSelect
    BY <2>1 DEF RejectSelect, DueBookings
  <2>2. CASE CompleteSelect
    BY <2>2 DEF CompleteSelect
  <2> QED
    BY <2>1, <2>2
<1>3. \A b \in completeJob'.batch :
        b \in completeJob.batch
          \/ (b \in Bookings /\ row[b].status = CONFIRMED /\ Ended(b))
  <2>1. CASE RejectSelect
    BY <2>1 DEF RejectSelect
  <2>2. CASE CompleteSelect
    BY <2>2 DEF CompleteSelect, FinishedBookings
  <2> QED
    BY <2>1, <2>2
<1>4. \A b \in Bookings : row[b].status \in held[b]
  BY DEF BookingInv
<1>5. \A b \in rejectJob'.batch :
        Elapsed(b) /\ PENDING \in held[b] /\ row[b].status \notin {"none", DRAFT}
  BY <1>2, <1>4, StatusFacts DEF Due, RejectInv
<1>6. \A b \in completeJob'.batch :
        CONFIRMED \in held[b] /\ Ended(b) /\ row[b].status \notin {"none", DRAFT}
  BY <1>3, <1>4, StatusFacts DEF CompleteInv
<1>7. RejectInv' /\ CompleteInv'
  BY <1>1, <1>5, <1>6 DEF RejectInv, CompleteInv, Ended, Elapsed
<1>8. (\A b \in Bookings : BookingInv(b)') /\ (\A r \in Requests : RequestInv(r)')
  BY <1>1, QuietBookings, QuietRequests
<1> QED
  BY <1>7, <1>8

LEMMA NotifyInv ==
  ASSUME IInv, TypeOK', RejectNotify
  PROVE  IInv'
<1> USE DEF IInv
<1>1. UNCHANGED <<row, age, req, held, completeJob>>
      /\ rejectJob'.batch = rejectJob.batch
  BY DEF RejectNotify, TypeOK
<1>2. \A b \in Bookings :
        /\ <<b, "expired">> \in notices' =>
             <<b, "expired">> \in notices \/ b \in rejectJob.batch
        /\ <<b, "confirmed">> \in notices' => <<b, "confirmed">> \in notices
  BY DEF RejectNotify
<1>3. ASSUME NEW b \in Bookings PROVE BookingInv(b)'
  BY <1>1, <1>2 DEF BookingInv, RejectInv, Ended, Elapsed, Exists
<1>4. \A r \in Requests : RequestInv(r)'
  BY <1>1, QuietRequests
<1>5. RejectInv' /\ CompleteInv'
  BY <1>1 DEF RejectInv, CompleteInv, Ended, Elapsed
<1> QED
  BY <1>3, <1>4, <1>5

LEMMA RejectUpdateInv ==
  ASSUME IInv, TypeOK', RejectUpdate
  PROVE  IInv'
<1> USE DEF IInv
<1>1. UNCHANGED <<age, req, completeJob, notices>> /\ rejectJob' = JobIdle /\ Remember
  BY DEF RejectUpdate
<1>2. \A b \in Bookings :
        \/ row'[b] = row[b]
        \/ /\ row[b].status = PENDING
           /\ row'[b].status = BABY_SITTER_CANCEL
           /\ row'[b].bookingTimes = row[b].bookingTimes
  <2>1. \A b \in Bookings :
          /\ Rejected(row[b]).status = BABY_SITTER_CANCEL
          /\ Rejected(row[b]).bookingTimes = row[b].bookingTimes
    BY DEF Rejected, TypeOK, Row
  <2> QED
    BY <2>1 DEF RejectUpdate
<1>3. \A b \in Bookings : held'[b] = held[b] \cup {row'[b].status}
  BY <1>1 DEF Remember
<1>4. \A b \in Bookings : Written(b)
  BY <1>1, <1>2, StatusFacts DEF Written, Ended, Elapsed, PENDING, DRAFT
<1>5. ASSUME NEW b \in Bookings PROVE BookingInv(b)'
  <2>1. CASE row'[b] = row[b]
    BY <1>1, <2>1, UntouchedBooking
  <2>2. CASE row[b].status = PENDING /\ row'[b].status = BABY_SITTER_CANCEL
    <3>1. row'[b].status \notin {"none", PENDING, COMPLETED}
      BY <2>2, StatusFacts DEF BABY_SITTER_CANCEL
    <3>2. Exists(b)
      BY <2>2, StatusFacts DEF Exists
    <3> QED
      BY <1>1, <1>3, <3>1, <3>2 DEF BookingInv, Elapsed
  <2> QED
    BY <1>2, <2>1, <2>2
<1>6. \A r \in Requests : RequestInv(r)'
  BY <1>1, <1>4, WrittenKeepsRequests
<1>7. RejectInv' /\ CompleteInv'
  BY <1>1, <1>4, WrittenKeepsJobs
<1> QED
  BY <1>5, <1>6, <1>7

LEMMA CompleteUpdateInv ==
  ASSUME IInv, TypeOK', CompleteUpdate
  PROVE  IInv'
<1> USE DEF IInv
<1>1. UNCHANGED <<age, req, rejectJob, notices>> /\ completeJob' = JobIdle /\ Remember
  BY DEF CompleteUpdate
<1>2. \A b \in Bookings :
        \/ row'[b] = row[b]
        \/ /\ b \in completeJob.batch /\ Exists(b)
           /\ row'[b].status = COMPLETED
           /\ row'[b].bookingTimes = row[b].bookingTimes
  BY DEF CompleteUpdate, TypeOK, Row
<1>3. \A b \in Bookings : held'[b] = held[b] \cup {row'[b].status}
  BY <1>1 DEF Remember
<1>4. \A b \in completeJob.batch :
        CONFIRMED \in held[b] /\ Ended(b) /\ row[b].status \notin {"none", DRAFT}
  BY DEF CompleteInv
<1>5. \A b \in Bookings : Written(b)
  BY <1>1, <1>2, <1>4, StatusFacts DEF Written, Ended, Elapsed, COMPLETED
<1>6. ASSUME NEW b \in Bookings PROVE BookingInv(b)'
  <2>1. CASE row'[b] = row[b]
    BY <1>1, <2>1, UntouchedBooking
  <2>2. CASE /\ b \in completeJob.batch /\ Exists(b)
             /\ row'[b].status = COMPLETED
             /\ row'[b].bookingTimes = row[b].bookingTimes
    <3>1. row'[b].status \notin {"none", PENDING}
      BY <2>2, StatusFacts DEF COMPLETED
    <3>2. CONFIRMED \in held'[b] /\ Ended(b)'
      BY <1>1, <1>3, <1>4, <2>2 DEF Ended
    <3> QED
      BY <1>1, <1>3, <2>2, <3>1, <3>2 DEF BookingInv, Elapsed
  <2> QED
    BY <1>2, <2>1, <2>2
<1>7. \A r \in Requests : RequestInv(r)'
  BY <1>1, <1>5, WrittenKeepsRequests
<1>8. RejectInv' /\ CompleteInv'
  BY <1>1, <1>5, WrittenKeepsJobs
<1> QED
  BY <1>6, <1>7, <1>8

\* A booking without its user is erased, which ends it for every property; a
\* missing row references nobody.
LEMMA EraseInv ==
  ASSUME IInv, TypeOK', NEW u \in Users, HardDeleteAccount(u)
  PROVE  IInv'
<1> USE DEF IInv
<1>1. UNCHANGED <<age, req, rejectJob, completeJob, notices>> /\ Remember
  BY DEF HardDeleteAccount
<1>2. \A b \in Bookings :
        \/ row'[b] = row[b]
        \/ row'[b].status = "erased" /\ ~row'[b].bookingTimes
  BY DEF HardDeleteAccount, EmptyRow
<1>3. \A b \in Bookings : held'[b] = held[b] \cup {row'[b].status}
  BY <1>1 DEF Remember
<1>4. \A b \in Bookings : Written(b)
  BY <1>1, <1>2, StatusFacts DEF Written, Ended, Elapsed, PENDING, DRAFT
<1>5. ASSUME NEW b \in Bookings PROVE BookingInv(b)'
  <2>1. CASE row'[b] = row[b]
    BY <1>1, <2>1, UntouchedBooking
  <2>2. CASE row'[b].status = "erased"
    <3>1. row'[b].status \notin {"none", PENDING, COMPLETED}
      BY <2>2 DEF PENDING, COMPLETED
    <3>2. ~Exists(b)'
      BY <2>2, StatusFacts DEF Exists
    <3> QED
      BY <1>1, <1>3, <3>1, <3>2 DEF BookingInv, Elapsed
  <2> QED
    BY <1>2, <2>1, <2>2
<1>6. \A r \in Requests : RequestInv(r)'
  BY <1>1, <1>4, WrittenKeepsRequests
<1>7. RejectInv' /\ CompleteInv'
  BY <1>1, <1>4, WrittenKeepsJobs
<1> QED
  BY <1>5, <1>6, <1>7

\* What neither writes a booking nor sends a notice: the other account
\* operations, the death of a process, which drops what was in flight, and
\* stuttering.
LEMMA OtherInv ==
  ASSUME IInv, TypeOK',
         \/ \E u \in Users : DeleteAccount(u) \/ RestoreAccount(u)
         \/ CrashBookingSvc \/ CrashCronSvc \/ UNCHANGED vars
  PROVE  IInv'
<1> USE DEF IInv
<1>1. UNCHANGED <<row, age, held, notices>>
  BY DEF DeleteAccount, RestoreAccount, CrashBookingSvc, CrashCronSvc, vars
<1>2. \A r \in Requests : req'[r] = req[r] \/ req'[r] = Idle
  BY DEF DeleteAccount, RestoreAccount, CrashBookingSvc, CrashCronSvc, vars
<1>3. rejectJob' \in {rejectJob, JobIdle} /\ completeJob' \in {completeJob, JobIdle}
  BY DEF DeleteAccount, RestoreAccount, CrashBookingSvc, CrashCronSvc, vars
<1>4. \A b \in Bookings : BookingInv(b)'
  BY <1>1, QuietBookings
<1>5. \A r \in Requests : RequestInv(r)'
  BY <1>1, <1>2 DEF RequestInv, Idle
<1>6. RejectInv' /\ CompleteInv'
  BY <1>1, <1>3 DEF RejectInv, CompleteInv, Ended, Elapsed, JobIdle
<1> QED
  BY <1>4, <1>5, <1>6

LEMMA NextInv == IInv /\ [Next]_vars => IInv'
<1> SUFFICES ASSUME IInv, [Next]_vars PROVE IInv'
  OBVIOUS
<1>1. TypeOK'
  BY NextType DEF IInv
<1> QED
  BY <1>1, CreateInv, ViewInv, PassInv, ReadInv, LoadInv, UpdateInv, SelectInv,
     NotifyInv, RejectUpdateInv, CompleteUpdateInv, EraseInv, OtherInv DEF Next

\* IInv holds in every reachable state, however operations overlap.
THEOREM Inductive == Spec => []IInv
BY InitInv, NextInv, PTL DEF Spec

----------------------------------------------------------------------------
(* The theorems. *)

\* Every variable keeps its type, and every request in flight serves a booking
\* with a row to save whose status is one that confirming or cancelling sets.
THEOREM TypeCorrect == Spec => []TypeOK
BY Inductive, PTL DEF IInv

\* A booking that waits for its answer has none of the columns of an answer,
\* however confirmBooking, cancelBooking and the expiry job overlap on it.
THEOREM PendingStaysPristine == Spec => []PendingIsPristine
<1>1. IInv => PendingIsPristine
  BY DEF IInv, BookingInv, PendingIsPristine
<1> QED
  BY <1>1, Inductive, PTL

\* A requested booking is completed only after it was confirmed and its times
\* are over, although updateStatusBookingComplete updates by id alone.
THEOREM CompletionNeedsConfirmation == Spec => []CompletedWasConfirmed
<1>1. IInv => CompletedWasConfirmed
  BY DEF IInv, BookingInv, CompletedWasConfirmed
<1> QED
  BY <1>1, Inductive, PTL

\* A notice of expiry is sent only for a request whose window has run out,
\* although the job notifies from the list it selected and not from the rows.
THEOREM ExpiryNoticesAreDue == Spec => []ExpiryNoticeIsDue
<1>1. IInv => ExpiryNoticeIsDue
  BY DEF IInv, BookingInv, ExpiryNoticeIsDue
<1> QED
  BY <1>1, Inductive, PTL

\* A parent is told of a confirmation only if the booking was confirmed,
\* although the write that precedes the notice may skip the status column.
THEOREM ConfirmNoticesAreTrue == Spec => []ConfirmNoticeIsTrue
<1>1. IInv => ConfirmNoticeIsTrue
  BY DEF IInv, BookingInv, ConfirmNoticeIsTrue
<1> QED
  BY <1>1, Inductive, PTL

\* A step that changes the status of a stored booking takes it from a status
\* that is not DRAFT to one that is neither DRAFT nor PENDING.
LEMMA StatusStep ==
  ASSUME IInv, [Next]_vars, NEW b \in Bookings, Exists(b),
         row'[b].status \in BookingStatus, row'[b].status # row[b].status
  PROVE  row[b].status # DRAFT /\ row'[b].status \notin {DRAFT, PENDING}
<1> USE DEF IInv
<1>1. ASSUME NEW x \in Bookings, CreateBooking(x) \/ ViewBooking(x) \/ Pass(x)
      PROVE  FALSE
  <2>1. x = b => ~CreateBooking(x)
    BY StatusFacts DEF CreateBooking, Exists
  <2>2. x # b /\ CreateBooking(x) => row'[b] = row[b]
    BY DEF CreateBooking, TypeOK
  <2>3. ViewBooking(x) \/ Pass(x) => row'[b].status = row[b].status
    BY DEF ViewBooking, Pass, TypeOK, Row
  <2> QED
    BY <1>1, <2>1, <2>2, <2>3
<1>2. ASSUME NEW r \in Requests, SaveUpdate(r)
      PROVE  row[b].status # DRAFT /\ row'[b].status \notin {DRAFT, PENDING}
  <2>1. req[r].booking = b
    BY <1>2 DEF SaveUpdate, RequestInv, TypeOK
  <2>2. row[b].status # DRAFT
    BY <1>2, <2>1 DEF SaveUpdate, RequestInv
  <2>3. row'[b] = Merge(row[b], req[r].snap, req[r].cols)
    BY <1>2, <2>1 DEF SaveUpdate, TypeOK
  <2>4. row'[b].status = req[r].snap.status
    <3>1. /\ row[b] \in Row /\ req[r].snap \in Row
          /\ req[r].cols \in SUBSET Columns
      BY DEF TypeOK
    <3> QED
      BY <2>3, <3>1, MergeType
  <2>5. req[r].snap.status \in {CONFIRMED} \cup Canceled
    BY <1>2 DEF SaveUpdate, TypeOK
  <2> QED
    BY <2>2, <2>4, <2>5, StatusFacts
<1>3. CASE RejectUpdate
  <2>1. row[b].status = PENDING /\ row'[b] = Rejected(row[b])
    BY <1>3 DEF RejectUpdate
  <2>2. row'[b].status = BABY_SITTER_CANCEL
    BY <2>1 DEF Rejected, TypeOK, Row
  <2> QED
    BY <2>1, <2>2, StatusFacts
<1>4. CASE CompleteUpdate
  <2>1. b \in completeJob.batch /\ row'[b] = [row[b] EXCEPT !.status = COMPLETED]
    BY <1>4 DEF CompleteUpdate
  <2>2. row'[b].status = COMPLETED
    BY <2>1 DEF TypeOK, Row
  <2> QED
    BY <2>1, <2>2, StatusFacts DEF CompleteInv
<1>5. ASSUME NEW u \in Users, HardDeleteAccount(u) PROVE FALSE
  <2>1. row'[b].status = "erased" \/ row'[b] = row[b]
    BY <1>5 DEF HardDeleteAccount, EmptyRow
  <2> QED
    BY <2>1, StatusFacts
<1>6. row' # row
  OBVIOUS
<1>7. ASSUME NEW r \in Requests,
             SaveLoad(r) \/ \E x \in Bookings : ConfirmRead(r, x) \/ CancelRead(r, x)
      PROVE  FALSE
  BY <1>6, <1>7 DEF SaveLoad, ConfirmRead, CancelRead
<1>8. ~(RejectSelect \/ RejectNotify \/ CompleteSelect \/ CrashBookingSvc
          \/ CrashCronSvc \/ UNCHANGED vars
          \/ \E u \in Users : DeleteAccount(u) \/ RestoreAccount(u))
  BY <1>6 DEF RejectSelect, RejectNotify, CompleteSelect, CrashBookingSvc,
              CrashCronSvc, DeleteAccount, RestoreAccount, vars
<1> QED
  BY <1>1, <1>2, <1>3, <1>4, <1>5, <1>7, <1>8 DEF Next

\* No step makes a draft anything else or anything else a draft, and no step
\* makes an answered request wait again: a stale save cannot undo an answer.
THEOREM AnswersStayFinal == Spec => AnswersAreFinal
<1> DEFINE Final(b) == /\ (row[b].status = DRAFT) <=> (row'[b].status = DRAFT)
                       /\ row'[b].status = PENDING => row[b].status = PENDING
<1>1. IInv /\ [Next]_vars =>
        [\A b \in Bookings :
           Exists(b) /\ row'[b].status \in BookingStatus => Final(b)]_vars
  <2> SUFFICES ASSUME IInv, [Next]_vars, NEW b \in Bookings,
                      Exists(b), row'[b].status \in BookingStatus
               PROVE  Final(b)
    OBVIOUS
  <2> QED
    BY StatusStep
<1> QED
  BY <1>1, Inductive, PTL DEF Spec, AnswersAreFinal

----------------------------------------------------------------------------
(* Notices sent before the write, however operations overlap.              *)

Told(b) == {<<b, "canceled">>, <<b, "expired">>} \cap notices # {}
Confirmation(b) == <<b, "confirmed">> \in notices

\* The notices of b: a confirmation is never kept quiet, nobody is told about a
\* draft, and what was told is true, overtaken, or about to be written.
NoticeStory(b) ==
    /\ CONFIRMED \in held[b] => Confirmation(b)
    /\ Told(b) => row[b].status \notin {"none", DRAFT}
    /\ Told(b) /\ Exists(b) =>
         \/ row[b].status \in Canceled
         \/ Confirmation(b)
         \/ row[b].status = PENDING /\ (Busy(b) \/ crashes > 0)

\* What is idle is at no booking.
Tidy ==
    /\ \A r \in Requests : req[r].pc = "idle" => req[r].booking = None
    /\ rejectJob.pc = "idle" => rejectJob.batch = {}
    /\ completeJob.pc = "idle" => completeJob.batch = {}

NoticeStories == Tidy /\ \A b \in Bookings : NoticeStory(b)

LEMMA InitStories == Init => NoticeStories
BY DEF Init, NoticeStories, Tidy, NoticeStory, Told, Idle, JobIdle, CONFIRMED

\* A step that sends no new notice of an end, and after which the booking has
\* the status it had, is cancelled or was confirmed, keeps its story, if it
\* takes nobody from a booking that waits.
LEMMA StoryKept ==
    ASSUME NEW b \in Bookings, NoticeStory(b), Told(b)' => Told(b), Confirmation(b) => Confirmation(b)',
           CONFIRMED \in held'[b] => CONFIRMED \in held[b] \/ Confirmation(b)',
           row'[b].status \in {"none", DRAFT} => row[b].status \in {"none", DRAFT},
           Exists(b)' => Exists(b),
           Exists(b)' => \/ row'[b].status = row[b].status
                         \/ row'[b].status \in Canceled
                         \/ Confirmation(b)',
           row'[b].status = PENDING /\ Busy(b) => Busy(b)' \/ crashes' > 0,
           crashes > 0 => crashes' > 0
    PROVE  NoticeStory(b)'
BY StatusFacts DEF NoticeStory

\* A row that is not written adds nothing to its history.
LEMMA HeldKept ==
    ASSUME IInv, NEW b \in Bookings, row'[b] = row[b], held'[b] = held[b] \cup {row'[b].status}
    PROVE  held'[b] = held[b]
<1>1. row[b].status \in held[b]
  BY DEF IInv, BookingInv
<1> QED
  BY <1>1

\* Steps that write no row and send no notice.
LEMMA QuietStories ==
    ASSUME IInv, NoticeStories, UNCHANGED <<row, held, notices>>, Tidy',
           \/ crashes' = crashes /\ \A b \in Bookings : Busy(b) => Busy(b)'
           \/ crashes' = crashes + 1
    PROVE  NoticeStories'
<1>1. crashes \in Nat
  BY DEF IInv, TypeOK
<1>2. ASSUME NEW b \in Bookings PROVE NoticeStory(b)'
  <2>1. /\ Told(b)' <=> Told(b)
        /\ Confirmation(b)' <=> Confirmation(b)
        /\ Exists(b)' <=> Exists(b)
    BY DEF Told, Confirmation, Exists
  <2>2. (Busy(b) => Busy(b)' \/ crashes' > 0) /\ (crashes > 0 => crashes' > 0)
    BY <1>1
  <2> QED
    BY <2>1, <2>2, StoryKept DEF NoticeStories
<1> QED
  BY <1>2 DEF NoticeStories

LEMMA OtherStories ==
    ASSUME IInv, NoticeStories,
           \/ \E b \in Bookings : Pass(b)
           \/ \E u \in Users : DeleteAccount(u) \/ RestoreAccount(u)
           \/ CrashBookingSvc \/ CrashCronSvc \/ UNCHANGED vars
    PROVE  NoticeStories'
<1>1. UNCHANGED <<row, held, notices>>
  BY DEF Pass, DeleteAccount, RestoreAccount, CrashBookingSvc, CrashCronSvc, vars
<1>2. \/ UNCHANGED <<req, rejectJob, completeJob, crashes>>
      \/ CrashBookingSvc \/ CrashCronSvc
  BY DEF Pass, DeleteAccount, RestoreAccount, vars
<1>3. CASE UNCHANGED <<req, rejectJob, completeJob, crashes>>
  <2>1. Tidy' /\ \A b \in Bookings : Busy(b) => Busy(b)'
    BY <1>3 DEF NoticeStories, Tidy, Busy
  <2> QED
    BY <1>1, <1>3, <2>1, QuietStories
<1>4. CASE CrashBookingSvc
  <2>1. crashes' = crashes + 1 /\ Tidy'
    BY <1>4 DEF CrashBookingSvc, NoticeStories, Tidy, Idle
  <2> QED
    BY <1>1, <2>1, QuietStories
<1>5. CASE CrashCronSvc
  <2>1. crashes' = crashes + 1 /\ Tidy'
    BY <1>5 DEF CrashCronSvc, NoticeStories, Tidy, JobIdle
  <2> QED
    BY <1>1, <2>1, QuietStories
<1> QED
  BY <1>2, <1>3, <1>4, <1>5

\* Nobody was told of a row that is created, and viewing changes no status.
LEMMA CreateStories ==
    ASSUME IInv, NoticeStories, NEW b \in Bookings, CreateBooking(b) \/ ViewBooking(b)
    PROVE  NoticeStories'
<1>1. UNCHANGED <<notices, req, rejectJob, completeJob, crashes>>
  BY DEF CreateBooking, ViewBooking
<1>2. Tidy'
  BY <1>1 DEF NoticeStories, Tidy
<1>3. \A x \in Bookings : Busy(x)' = Busy(x) /\ Told(x)' = Told(x) /\ Confirmation(x)' = Confirmation(x)
  BY <1>1 DEF Busy, Told, Confirmation
<1>4. CASE ViewBooking(b)
  <2>1. held' = held /\ \A x \in Bookings : row'[x].status = row[x].status
    BY <1>4 DEF ViewBooking, IInv, TypeOK, Row
  <2>2. \A x \in Bookings : NoticeStory(x)'
    BY <1>1, <1>3, <2>1 DEF NoticeStories, NoticeStory, Exists
  <2> QED
    BY <1>2, <2>2 DEF NoticeStories
<1>5. CASE CreateBooking(b)
  <2>1. PICK s \in Babysitters, p \in Parents \cup {None}, times \in BOOLEAN,
             status \in {DRAFT, PENDING, COMPLETED} :
          row' = [row EXCEPT ![b] = NewRow(s, p, times, status)]
    BY <1>5 DEF CreateBooking
  <2>2. row[b].status = "none" /\ row'[b].status = status
        /\ \A x \in Bookings \ {b} : row'[x] = row[x]
    BY <1>5, <2>1 DEF CreateBooking, NewRow, IInv, TypeOK
  <2>3. \A x \in Bookings : held'[x] = held[x] \cup {row'[x].status}
    BY <1>5 DEF CreateBooking, Remember
  <2>4. NoticeStory(b)'
    BY <1>3, <2>2, <2>3, StatusFacts DEF NoticeStories, NoticeStory
  <2>5. ASSUME NEW x \in Bookings \ {b} PROVE NoticeStory(x)'
    <3>1. held'[x] = held[x]
      BY <2>2, <2>3, HeldKept
    <3> QED
      BY <1>1, <1>3, <2>2, <3>1 DEF NoticeStories, NoticeStory, Exists
  <2> QED
    BY <1>2, <2>4, <2>5 DEF NoticeStories
<1> QED
  BY <1>4, <1>5

\* The request that tells of a cancellation is at the booking from then on,
\* which waits or was confirmed.
LEMMA ReadStories ==
    ASSUME IInv, NoticeStories, NEW r \in Requests, NEW b \in Bookings,
           ConfirmRead(r, b) \/ CancelRead(r, b)
    PROVE  NoticeStories'
<1>1. UNCHANGED <<row, held, rejectJob, completeJob, crashes>>
  BY DEF ConfirmRead, CancelRead
<1>2. /\ row[b].status \in {PENDING, CONFIRMED}
      /\ notices' \in {notices, notices \cup {<<b, "canceled">>}}
      /\ req[r].pc = "idle"
  BY DEF ConfirmRead, CancelRead, CanConfirm, CanCancel
<1>3. /\ req'[r].booking = b /\ req'[r].pc = "read"
      /\ \A q \in Requests \ {r} : req'[q] = req[q]
  <2>1. CASE ConfirmRead(r, b)
    BY <2>1 DEF ConfirmRead, IInv, TypeOK
  <2>2. CASE CancelRead(r, b)
    <3>1. PICK c \in Canceled :
            req' = [req EXCEPT ![r] =
                      [pc |-> "read", booking |-> b, cols |-> {},
                       snap |-> [row[b] EXCEPT !.status = c, !.canceledAt = TRUE,
                                   !.isReject = RejectFlag(row[b].status)]]]
      BY <2>2 DEF CancelRead
    <3> QED
      BY <3>1 DEF IInv, TypeOK
  <2> QED
    BY <2>1, <2>2
<1>4. Tidy'
  BY <1>1, <1>3 DEF NoticeStories, Tidy
<1>5. req[r].booking = None
  BY <1>2 DEF NoticeStories, Tidy
<1>6. \A x \in Bookings : Busy(x) => Busy(x)'
  BY <1>1, <1>3, <1>5 DEF Busy
<1>7. \A x \in Bookings : /\ Confirmation(x)' <=> Confirmation(x)
                          /\ x # b => (Told(x)' <=> Told(x))
  BY <1>2 DEF Confirmation, Told
<1>8. NoticeStory(b)'
  <2>1. Busy(b)'
    BY <1>3 DEF Busy
  <2>2. row[b].status = CONFIRMED => Confirmation(b)
    BY DEF IInv, BookingInv, NoticeStories, NoticeStory
  <2>3. row[b].status \notin {"none", DRAFT}
    BY <1>2, StatusFacts
  <2> QED
    BY <1>1, <1>2, <1>7, <2>1, <2>2, <2>3 DEF NoticeStories, NoticeStory
<1>9. ASSUME NEW x \in Bookings, x # b PROVE NoticeStory(x)'
  BY <1>1, <1>6, <1>7, <1>9 DEF NoticeStories, NoticeStory, Exists
<1> QED
  BY <1>4, <1>8, <1>9 DEF NoticeStories

\* A save gives up only where there is no row left.
LEMMA LoadStories ==
    ASSUME IInv, NoticeStories, NEW r \in Requests, SaveLoad(r)
    PROVE  NoticeStories'
<1>1. UNCHANGED <<row, held, notices, rejectJob, completeJob, crashes>>
  BY DEF SaveLoad
<1>2. PICK b \in Bookings : b = req[r].booking
  BY DEF SaveLoad, IInv, RequestInv
<1>3. /\ \/ req'[r] = Idle /\ ~Exists(b)
         \/ req'[r].booking = b /\ req'[r].pc = "loaded"
      /\ \A q \in Requests \ {r} : req'[q] = req[q]
  BY <1>2 DEF SaveLoad, IInv, TypeOK
<1>4. Tidy'
  BY <1>1, <1>3 DEF NoticeStories, Tidy, Idle
<1>5. \A x \in Bookings : Busy(x) /\ Exists(x) => Busy(x)'
  BY <1>1, <1>2, <1>3 DEF Busy
<1>6. \A x \in Bookings : NoticeStory(x)'
  BY <1>1, <1>5 DEF NoticeStories, NoticeStory, Exists, Told, Confirmation
<1> QED
  BY <1>4, <1>6 DEF NoticeStories

\* A save of a row that waits writes its status, and one that leaves a
\* confirmation tells of it.
LEMMA UpdateStories ==
    ASSUME IInv, NoticeStories, NEW r \in Requests, SaveUpdate(r)
    PROVE  NoticeStories'
<1>1. PICK b \in Bookings : b = req[r].booking
  BY DEF SaveUpdate, IInv, RequestInv
<1> DEFINE snap == req[r].snap
           new == Merge(row[b], snap, req[r].cols)
<1>2. /\ row[b] \in Row /\ snap \in Row /\ req[r].cols \in SUBSET Columns
      /\ snap.status \in {CONFIRMED} \cup Canceled
      /\ row[b].status \notin {"none", DRAFT}
      /\ row[b].status = PENDING => "status" \in req[r].cols
  BY <1>1 DEF SaveUpdate, IInv, RequestInv, TypeOK
<1>3. /\ row'[b] = IF Exists(b) THEN new ELSE row[b]
      /\ \A x \in Bookings \ {b} : row'[x] = row[x]
  BY <1>1, <1>2 DEF SaveUpdate, IInv, TypeOK
<1>4. new.status = IF "status" \in req[r].cols THEN snap.status ELSE row[b].status
  BY <1>2, MergeType
<1>5. UNCHANGED <<rejectJob, completeJob, crashes>>
  BY DEF SaveUpdate
<1>6. \A x \in Bookings : held'[x] = held[x] \cup {row'[x].status}
  BY DEF SaveUpdate, Remember
<1>7. /\ req'[r] = Idle
      /\ \A q \in Requests \ {r} : req'[q] = req[q]
  BY DEF SaveUpdate, IInv, TypeOK
<1>8. /\ notices \subseteq notices'
      /\ \A x \in Bookings : Told(x)' <=> Told(x)
      /\ snap.status = CONFIRMED => Confirmation(b)'
  BY <1>1 DEF SaveUpdate, Told, Confirmation
<1>9. \A x \in Bookings : row[x].status = CONFIRMED => Confirmation(x)
  BY DEF IInv, BookingInv, NoticeStories, NoticeStory
<1>10. \A x \in Bookings : Confirmation(x) => Confirmation(x)'
  BY <1>8 DEF Confirmation
<1>11. Tidy'
  BY <1>5, <1>7 DEF NoticeStories, Tidy, Idle
<1> HIDE DEF new, snap
<1>12. row'[b].status = (IF Exists(b) /\ "status" \in req[r].cols THEN snap.status ELSE row[b].status)
  BY <1>3, <1>4
<1>13. row'[b].status \notin {"none", DRAFT, PENDING}
  BY <1>2, <1>12, StatusFacts DEF Exists
<1>14. /\ CONFIRMED \in held'[b] => CONFIRMED \in held[b] \/ Confirmation(b)'
       /\ Exists(b)' => Exists(b)
       /\ row'[b].status = row[b].status \/ row'[b].status \in Canceled \/ Confirmation(b)'
  BY <1>2, <1>6, <1>8, <1>9, <1>10, <1>12 DEF Exists
<1>15. NoticeStory(b)'
  BY <1>5, <1>8, <1>10, <1>13, <1>14, StoryKept DEF NoticeStories
<1>16. ASSUME NEW x \in Bookings \ {b} PROVE NoticeStory(x)'
  <2>1. Busy(x) => Busy(x)'
    BY <1>1, <1>5, <1>7 DEF Busy
  <2>2. row'[x] = row[x] /\ (Exists(x)' <=> Exists(x))
    BY <1>3 DEF Exists
  <2>3. CONFIRMED \in held'[x] => CONFIRMED \in held[x] \/ Confirmation(x)'
    BY <1>6, <1>9, <1>10, <2>2
  <2> QED
    BY <1>5, <1>8, <1>10, <2>1, <2>2, <2>3, StoryKept DEF NoticeStories
<1> QED
  BY <1>11, <1>15, <1>16 DEF NoticeStories

\* A job that selects leaves nobody, as it was at no booking before.
LEMMA SelectStories ==
    ASSUME IInv, NoticeStories, RejectSelect \/ CompleteSelect
    PROVE  NoticeStories'
<1>1. UNCHANGED <<row, held, notices, req, crashes>>
  BY DEF RejectSelect, CompleteSelect
<1>2. rejectJob.batch \subseteq rejectJob'.batch /\ completeJob.batch \subseteq completeJob'.batch
  BY DEF RejectSelect, CompleteSelect, NoticeStories, Tidy
<1>3. Tidy'
  BY <1>1 DEF RejectSelect, CompleteSelect, NoticeStories, Tidy
<1>4. \A b \in Bookings : Busy(b) => Busy(b)'
  BY <1>1, <1>2 DEF Busy
<1> QED
  BY <1>1, <1>3, <1>4, QuietStories

\* Who is told of an expiry has a request the job is at, or one that was
\* answered meanwhile.
LEMMA NotifyStories ==
    ASSUME IInv, NoticeStories, RejectNotify
    PROVE  NoticeStories'
<1>1. UNCHANGED <<row, held, req, completeJob, crashes>>
      /\ rejectJob'.batch = rejectJob.batch /\ rejectJob'.pc = "notified"
  BY DEF RejectNotify, IInv, TypeOK
<1>2. Tidy'
  BY <1>1 DEF NoticeStories, Tidy
<1>3. \A b \in Bookings : /\ Told(b)' => Told(b) \/ b \in rejectJob.batch
                          /\ Confirmation(b)' <=> Confirmation(b)
                          /\ Busy(b)' <=> Busy(b)
  BY <1>1 DEF RejectNotify, Told, Confirmation, Busy
<1>4. ASSUME NEW b \in Bookings PROVE NoticeStory(b)'
  <2>1. CASE b \notin rejectJob.batch
    BY <1>1, <1>3, <2>1 DEF NoticeStories, NoticeStory, Exists
  <2>2. CASE b \in rejectJob.batch
    <3>1. Busy(b) /\ PENDING \in held[b] /\ row[b].status \notin {"none", DRAFT}
      BY <2>2 DEF Busy, IInv, RejectInv
    <3>2. row[b].status \in {CONFIRMED, COMPLETED} => Confirmation(b)
      BY <3>1 DEF IInv, BookingInv, NoticeStories, NoticeStory
    <3> QED
      BY <1>1, <1>3, <3>1, <3>2, StatusFacts DEF NoticeStories, NoticeStory, Exists
  <2> QED
    BY <2>1, <2>2
<1> QED
  BY <1>2, <1>4 DEF NoticeStories

\* The update of the expiry job leaves no booking of its batch waiting.
LEMMA RejectStories ==
    ASSUME IInv, NoticeStories, RejectUpdate
    PROVE  NoticeStories'
<1>1. UNCHANGED <<req, completeJob, notices, crashes>> /\ rejectJob' = JobIdle
  BY DEF RejectUpdate
<1>2. \A b \in Bookings :
        \/ row'[b] = row[b] /\ (b \in rejectJob.batch => row[b].status # PENDING)
        \/ row[b].status = PENDING /\ row'[b].status = BABY_SITTER_CANCEL
  <2>1. \A b \in Bookings : Rejected(row[b]).status = BABY_SITTER_CANCEL
    BY DEF Rejected, IInv, TypeOK, Row
  <2> QED
    BY <2>1 DEF RejectUpdate
<1>3. \A b \in Bookings : held'[b] = held[b] \cup {row'[b].status}
  BY DEF RejectUpdate, Remember
<1>4. Tidy'
  BY <1>1 DEF NoticeStories, Tidy, JobIdle
<1>5. ASSUME NEW b \in Bookings PROVE NoticeStory(b)'
  <2>1. (Told(b)' <=> Told(b)) /\ (Confirmation(b)' <=> Confirmation(b))
    BY <1>1 DEF Told, Confirmation
  <2>2. CASE row'[b] = row[b] /\ (b \in rejectJob.batch => row[b].status # PENDING)
    <3>1. held'[b] = held[b]
      BY <1>3, <2>2, HeldKept
    <3>2. row'[b].status = PENDING /\ Busy(b) => Busy(b)'
      BY <1>1, <2>2 DEF Busy
    <3>3. Exists(b)' <=> Exists(b)
      BY <2>2 DEF Exists
    <3> QED
      BY <1>1, <2>1, <2>2, <3>1, <3>2, <3>3, StoryKept DEF NoticeStories
  <2>3. CASE row[b].status = PENDING /\ row'[b].status = BABY_SITTER_CANCEL
    <3>1. /\ row'[b].status \in Canceled /\ row'[b].status # PENDING
          /\ row'[b].status \notin {"none", DRAFT, CONFIRMED} /\ Exists(b)
      BY <2>3, StatusFacts DEF BABY_SITTER_CANCEL, PENDING, CONFIRMED, DRAFT, Exists
    <3>2. CONFIRMED \in held'[b] => CONFIRMED \in held[b]
      BY <1>3, <3>1
    <3> QED
      BY <1>1, <2>1, <3>1, <3>2, StoryKept DEF NoticeStories
  <2> QED
    BY <1>2, <2>2, <2>3
<1> QED
  BY <1>4, <1>5 DEF NoticeStories

\* What the completing job overwrites had been confirmed, and its parent told.
LEMMA CompleteStories ==
    ASSUME IInv, NoticeStories, CompleteUpdate
    PROVE  NoticeStories'
<1>1. UNCHANGED <<req, rejectJob, notices, crashes>> /\ completeJob' = JobIdle
  BY DEF CompleteUpdate
<1>2. \A b \in Bookings :
        \/ row'[b] = row[b] /\ (b \in completeJob.batch => ~Exists(b))
        \/ b \in completeJob.batch /\ Exists(b) /\ row'[b].status = COMPLETED
  BY DEF CompleteUpdate, IInv, TypeOK, Row
<1>3. \A b \in Bookings : held'[b] = held[b] \cup {row'[b].status}
  BY DEF CompleteUpdate, Remember
<1>4. Tidy'
  BY <1>1 DEF NoticeStories, Tidy, JobIdle
<1>5. ASSUME NEW b \in Bookings PROVE NoticeStory(b)'
  <2>1. (Told(b)' <=> Told(b)) /\ (Confirmation(b)' <=> Confirmation(b))
    BY <1>1 DEF Told, Confirmation
  <2>2. CASE row'[b] = row[b] /\ (b \in completeJob.batch => ~Exists(b))
    <3>1. held'[b] = held[b]
      BY <1>3, <2>2, HeldKept
    <3>2. row'[b].status = PENDING /\ Busy(b) => Busy(b)'
      BY <1>1, <2>2, StatusFacts DEF Busy, Exists
    <3>3. Exists(b)' <=> Exists(b)
      BY <2>2 DEF Exists
    <3> QED
      BY <1>1, <2>1, <2>2, <3>1, <3>2, <3>3, StoryKept DEF NoticeStories
  <2>3. CASE b \in completeJob.batch /\ Exists(b) /\ row'[b].status = COMPLETED
    <3>1. CONFIRMED \in held[b] /\ Confirmation(b)
      BY <2>3 DEF IInv, CompleteInv, NoticeStories, NoticeStory
    <3>2. row'[b].status \notin {"none", DRAFT, PENDING}
      BY <2>3, StatusFacts DEF COMPLETED, DRAFT, PENDING
    <3> QED
      BY <1>1, <2>1, <2>3, <3>1, <3>2, StoryKept DEF NoticeStories
  <2> QED
    BY <1>2, <2>2, <2>3
<1> QED
  BY <1>4, <1>5 DEF NoticeStories

LEMMA EraseStories ==
    ASSUME IInv, NoticeStories, NEW u \in Users, HardDeleteAccount(u)
    PROVE  NoticeStories'
<1>1. UNCHANGED <<req, rejectJob, completeJob, notices, crashes>>
  BY DEF HardDeleteAccount
<1>2. \A b \in Bookings : row'[b] = row[b] \/ row'[b].status = "erased"
  BY DEF HardDeleteAccount, EmptyRow
<1>3. \A b \in Bookings : held'[b] = held[b] \cup {row'[b].status}
  BY DEF HardDeleteAccount, Remember
<1>4. Tidy'
  BY <1>1 DEF NoticeStories, Tidy
<1>5. ASSUME NEW b \in Bookings PROVE NoticeStory(b)'
  <2>1. (Told(b)' <=> Told(b)) /\ (Confirmation(b)' <=> Confirmation(b)) /\ (Busy(b)' <=> Busy(b))
    BY <1>1 DEF Told, Confirmation, Busy
  <2>2. CASE row'[b] = row[b]
    <3>1. held'[b] = held[b]
      BY <1>3, <2>2, HeldKept
    <3>2. Exists(b)' <=> Exists(b)
      BY <2>2 DEF Exists
    <3> QED
      BY <1>1, <2>1, <2>2, <3>1, <3>2, StoryKept DEF NoticeStories
  <2>3. CASE row'[b].status = "erased"
    <3>1. ~Exists(b)' /\ row'[b].status \notin {"none", DRAFT, CONFIRMED, PENDING}
      BY <2>3, StatusFacts DEF Exists, DRAFT, CONFIRMED, PENDING
    <3>2. CONFIRMED \in held'[b] => CONFIRMED \in held[b]
      BY <1>3, <3>1
    <3> QED
      BY <1>1, <2>1, <3>1, <3>2, StoryKept DEF NoticeStories
  <2> QED
    BY <1>2, <2>2, <2>3
<1> QED
  BY <1>4, <1>5 DEF NoticeStories

LEMMA NextStories == IInv /\ NoticeStories /\ [Next]_vars => NoticeStories'
BY OtherStories, CreateStories, ReadStories, LoadStories, UpdateStories, SelectStories,
   NotifyStories, RejectStories, CompleteStories, EraseStories DEF Next

\* Whoever was told of a cancellation or an expiry before it was written has a
\* cancelled booking, or the parent was told of a confirmation that got in
\* between; a request told to be over waits on only while somebody is still at
\* it, or after a process died (cancelBooking, rejectedBookingAfter48Hours).
THEOREM NoticesAreTrueOrOvertaken == Spec => []NoticeIsTrueOrOvertaken
<1>1. NoticeStories => NoticeIsTrueOrOvertaken
  BY DEF NoticeStories, NoticeStory, Told, Confirmation, NoticeIsTrueOrOvertaken
<1>2. Spec => []NoticeStories
  BY Inductive, InitStories, NextStories, PTL DEF Spec
<1> QED
  BY <1>1, <1>2, PTL

----------------------------------------------------------------------------
(* The serial regime, Overlap = FALSE: operations on a booking do not       *)
(* overlap.                                                                *)

\* Nobody else is at work on the booking of a request or a job.
Apart ==
    /\ \A r \in Requests : req[r].pc = "idle" <=> req[r] = Idle
    /\ \A q, r \in Requests : q # r /\ req[q].pc # "idle" => req[q].booking # req[r].booking
    /\ \A r \in Requests : req[r].booking \notin rejectJob.batch \cup completeJob.batch
    /\ rejectJob.batch \cap completeJob.batch = {}

\* What a request saves is the row as it is, with the answer it gives.
Answered(stored, status) ==
    IF status = CONFIRMED
    THEN [stored EXCEPT !.status = status, !.confirmedAt = TRUE]
    ELSE [stored EXCEPT !.status = status, !.canceledAt = TRUE, !.isReject = RejectFlag(stored.status)]

SnapIsFresh(r) ==
    LET b == req[r].booking
        snap == req[r].snap
    IN req[r].pc # "idle" /\ Exists(b) =>
         /\ row[b].status \in IF snap.status = CONFIRMED THEN {PENDING} ELSE {PENDING, CONFIRMED}
         /\ snap = Answered(row[b], snap.status)
         /\ req[r].pc = "loaded" => req[r].cols = ChangedColumns(snap, row[b])

\* What a job selected is as it was.
BatchesAreFresh ==
    /\ \A b \in rejectJob.batch : Exists(b) => row[b].status = PENDING
    /\ \A b \in completeJob.batch : Exists(b) => row[b].status = CONFIRMED

\* The columns of a row tell one story.
RowAgrees(b) ==
    LET r == row[b] IN
    /\ r.status = "none" => r = EmptyRow
    /\ r.status = "erased" => ~r.isViewed /\ r.parentId = None /\ r.babysitterId = None
    /\ r.status = CONFIRMED => r.confirmedAt /\ ~r.canceledAt /\ r.isReject = "null"
    /\ r.status = COMPLETED => ~r.canceledAt
    /\ r.status = PARENT_CANCEL => r.canceledAt
    /\ r.status \in Canceled /\ r.canceledAt =>
         (r.isReject = "false" <=> r.confirmedAt) /\ r.isReject # "null"
    /\ r.status = BABY_SITTER_CANCEL /\ ~r.canceledAt =>
         Elapsed(b) /\ r.isReject = "false" /\ ~r.confirmedAt

\* Whoever was told of a cancellation has it, or the request that told it is
\* at work.
NoticeInv(b) ==
    <<b, "canceled">> \in notices =>
      /\ row[b].status # "none"
      /\ crashes = 0 /\ Exists(b) =>
           \/ row[b].status \in Canceled
           \/ \E r \in Requests : req[r].booking = b /\ req[r].snap.status # CONFIRMED

Serial ==
    /\ Apart
    /\ \A r \in Requests : SnapIsFresh(r)
    /\ BatchesAreFresh
    /\ \A b \in Bookings : RowAgrees(b) /\ NoticeInv(b)

LEMMA IdleFacts == Idle.pc = "idle" /\ Idle.booking = None
BY DEF Idle

LEMMA SerialInit == Init => Serial
<1> SUFFICES ASSUME Init PROVE Serial
  OBVIOUS
<1>1. Apart /\ BatchesAreFresh
  BY DEF Init, Apart, Idle, JobIdle, BatchesAreFresh
<1>2. \A r \in Requests : SnapIsFresh(r)
  BY DEF Init, SnapIsFresh, Idle
<1>3. \A b \in Bookings : RowAgrees(b) /\ NoticeInv(b)
  BY StatusFacts DEF Init, RowAgrees, NoticeInv, EmptyRow, BookingStatus
<1> QED
  BY <1>1, <1>2, <1>3 DEF Serial

\* A save of a fresh row merges to what the request holds.
LEMMA MergeIsSnap ==
    ASSUME NEW stored \in Row, NEW status \in {CONFIRMED} \cup Canceled
    PROVE  LET snap == Answered(stored, status) IN
           Merge(stored, snap, ChangedColumns(snap, stored)) = snap
<1> DEFINE snap == Answered(stored, status)
           merged == Merge(stored, snap, ChangedColumns(snap, stored))
<1>1. /\ snap \in [status : {status}, isReject : {"null", "false", "true"}, isViewed : BOOLEAN,
                  confirmedAt : BOOLEAN, canceledAt : BOOLEAN, babysitterId : {stored.babysitterId},
                  parentId : {stored.parentId}, bookingTimes : {stored.bookingTimes}]
  BY DEF Answered, Row, RejectFlag
<1>2. /\ merged.status = snap.status /\ merged.isReject = snap.isReject
      /\ merged.isViewed = snap.isViewed /\ merged.confirmedAt = snap.confirmedAt
      /\ merged.canceledAt = snap.canceledAt /\ merged.babysitterId = snap.babysitterId
      /\ merged.parentId = snap.parentId /\ merged.bookingTimes = snap.bookingTimes
  <2>1. \A c \in Columns : c \notin ChangedColumns(snap, stored) => snap[c] = stored[c]
    BY DEF ChangedColumns
  <2> HIDE DEF snap
  <2>2. \A c \in Columns : c \notin ChangedColumns(snap, stored) => snap[c] = stored[c]
    BY <2>1
  <2> QED
    BY <1>1, <2>2 DEF Merge, Columns
<1>3. merged = [status |-> merged.status, isReject |-> merged.isReject, isViewed |-> merged.isViewed,
                confirmedAt |-> merged.confirmedAt, canceledAt |-> merged.canceledAt,
                babysitterId |-> merged.babysitterId, parentId |-> merged.parentId,
                bookingTimes |-> merged.bookingTimes]
  BY DEF Merge
<1>4. snap = [status |-> snap.status, isReject |-> snap.isReject, isViewed |-> snap.isViewed,
              confirmedAt |-> snap.confirmedAt, canceledAt |-> snap.canceledAt,
              babysitterId |-> snap.babysitterId, parentId |-> snap.parentId,
              bookingTimes |-> snap.bookingTimes]
  BY <1>1
<1> HIDE DEF snap, merged
<1>5. merged = snap
  BY <1>2, <1>3, <1>4
<1> QED
  BY <1>5 DEF merged, snap

----------------------------------------------------------------------------
(* Steps that start no operation: what the others hold stays fresh when    *)
(* nobody writes it.                                                       *)

\* The step leaves the row of b as it is, or takes it away.
Steady(b) == row'[b] = row[b] \/ row'[b].status \notin BookingStatus

LEMMA FreshStays ==
    ASSUME IInv, Serial,
           \A r \in Requests : req'[r] \in {req[r], Idle},
           rejectJob'.batch \subseteq rejectJob.batch, completeJob'.batch \subseteq completeJob.batch,
           \A r \in Requests : req'[r].pc # "idle" => Steady(req[r].booking),
           \A b \in rejectJob'.batch \cup completeJob'.batch : Steady(b)
    PROVE  Apart' /\ (\A r \in Requests : SnapIsFresh(r)') /\ BatchesAreFresh'
<1>1. Idle.pc = "idle" /\ Idle.booking = None
  BY DEF Idle
<1>2. \A r \in Requests : req'[r].pc # "idle" => req'[r] = req[r] /\ req[r].pc # "idle"
  BY <1>1
<1>3. rejectJob.batch \subseteq Bookings /\ completeJob.batch \subseteq Bookings
  BY DEF IInv, TypeOK
<1>4. Apart'
  <2>1. \A r \in Requests : req'[r].pc = "idle" <=> req'[r] = Idle
    BY <1>1, <1>2 DEF Serial, Apart
  <2>2. \A r \in Requests : req[r].pc # "idle" => req[r].booking \in Bookings
    BY DEF IInv, RequestInv
  <2>3. \A q, r \in Requests : q # r /\ req'[q].pc # "idle" => req'[q].booking # req'[r].booking
    <3> SUFFICES ASSUME NEW q \in Requests, NEW r \in Requests, q # r, req'[q].pc # "idle"
                 PROVE  req'[q].booking # req'[r].booking
      OBVIOUS
    <3>1. req'[q] = req[q] /\ req[q].pc # "idle"
      BY <1>2
    <3> QED
      BY <1>1, <2>2, <3>1 DEF Serial, Apart
  <2>4. \A r \in Requests : req'[r].booking \notin rejectJob'.batch \cup completeJob'.batch
    BY <1>1, <1>3 DEF Serial, Apart
  <2> QED
    BY <2>1, <2>3, <2>4 DEF Serial, Apart
<1>5. \A r \in Requests : SnapIsFresh(r)'
  BY <1>2 DEF Serial, SnapIsFresh, Exists, Steady
<1>6. BatchesAreFresh'
  BY DEF Serial, BatchesAreFresh, Exists, Steady
<1> QED
  BY <1>4, <1>5, <1>6

\* A row nobody writes goes on telling its story, as its age only grows.
LEMMA StoryStays ==
    ASSUME NEW b \in Bookings, RowAgrees(b), row'[b] = row[b], Elapsed(b) => Elapsed(b)'
    PROVE  RowAgrees(b)'
BY DEF RowAgrees, Elapsed

\* A notice of cancellation stays true when no cancelled booking is changed
\* and no request that told of one ends.
LEMMA NoticeStays ==
    ASSUME NEW b \in Bookings, NoticeInv(b),
           <<b, "canceled">> \in notices' => <<b, "canceled">> \in notices,
           crashes' = 0 => crashes = 0,
           row[b].status # "none" => row'[b].status # "none",
           row'[b].status \in BookingStatus =>
             row[b].status \in BookingStatus \cup {"none"} /\ (row[b].status \in Canceled => row'[b].status \in Canceled),
           \A r \in Requests :
             crashes' = 0 /\ req[r].booking = b /\ req[r].snap.status # CONFIRMED /\ row'[b].status \in BookingStatus =>
               \/ req'[r].booking = b /\ req'[r].snap.status # CONFIRMED
               \/ row'[b].status \in Canceled
    PROVE  NoticeInv(b)'
BY DEF NoticeInv, Exists

\* Steps that change no row and start nothing.
LEMMA IdleStepsAreSerial ==
    ASSUME IInv, Serial, row' = row, \A b \in Bookings : Elapsed(b) => Elapsed(b)',
           \A b \in Bookings : <<b, "canceled">> \in notices' => <<b, "canceled">> \in notices,
           rejectJob'.batch \subseteq rejectJob.batch, completeJob'.batch \subseteq completeJob.batch,
           \/ UNCHANGED <<req, crashes>>
           \/ crashes' = crashes + 1 /\ \A r \in Requests : req'[r] \in {req[r], Idle}
    PROVE  Serial'
<1>1. \A r \in Requests : req'[r] \in {req[r], Idle}
  OBVIOUS
<1>2. Apart' /\ (\A r \in Requests : SnapIsFresh(r)') /\ BatchesAreFresh'
  BY <1>1, FreshStays DEF Steady
<1>3. \A b \in Bookings : RowAgrees(b)'
  BY StoryStays DEF Serial
<1>4. crashes \in Nat
  BY DEF IInv, TypeOK
<1>5. \A b \in Bookings : NoticeInv(b)'
  BY <1>4 DEF Serial, NoticeInv, Exists
<1> QED
  BY <1>2, <1>3, <1>5 DEF Serial

LEMMA OthersAreSerial ==
    ASSUME IInv, Serial,
           \/ RejectNotify \/ CrashBookingSvc \/ CrashCronSvc \/ UNCHANGED vars
           \/ \E u \in Users : DeleteAccount(u) \/ RestoreAccount(u)
           \/ \E b \in Bookings : Pass(b)
    PROVE  Serial' /\ row' = row
<1>1. row' = row
  BY DEF RejectNotify, CrashBookingSvc, CrashCronSvc, vars, DeleteAccount, RestoreAccount, Pass
<1>2. \A b \in Bookings : Elapsed(b) => Elapsed(b)'
  BY DEF RejectNotify, CrashBookingSvc, CrashCronSvc, vars, DeleteAccount, RestoreAccount, Pass,
         Elapsed, IInv, TypeOK
<1>3. \A b \in Bookings : <<b, "canceled">> \in notices' => <<b, "canceled">> \in notices
  BY DEF RejectNotify, CrashBookingSvc, CrashCronSvc, vars, DeleteAccount, RestoreAccount, Pass
<1>4. rejectJob'.batch \subseteq rejectJob.batch /\ completeJob'.batch \subseteq completeJob.batch
  BY DEF RejectNotify, CrashBookingSvc, CrashCronSvc, vars, DeleteAccount, RestoreAccount, Pass, JobIdle,
         IInv, TypeOK
<1>5. \/ UNCHANGED <<req, crashes>>
      \/ crashes' = crashes + 1 /\ \A r \in Requests : req'[r] \in {req[r], Idle}
  BY DEF RejectNotify, CrashBookingSvc, CrashCronSvc, vars, DeleteAccount, RestoreAccount, Pass
<1> QED
  BY <1>1, <1>2, <1>3, <1>4, <1>5, IdleStepsAreSerial

----------------------------------------------------------------------------
(* Steps that start an operation, which nobody else is at, or load a row.  *)

\* Confirming and cancelling start from the row as it is.
LEMMA ReadIsSerial ==
    ASSUME IInv, Serial, ~Overlap, NEW r \in Requests, NEW b \in Bookings,
           ConfirmRead(r, b) \/ CancelRead(r, b)
    PROVE  Serial' /\ row' = row
<1>1. /\ req[r].pc = "idle" /\ ~Busy(b)
      /\ UNCHANGED <<row, age, rejectJob, completeJob, crashes>>
      /\ row[b].status \in {PENDING, CONFIRMED}
      /\ req \in [Requests -> [pc : ReqPC, booking : Bookings \cup {None}, snap : Row, cols : SUBSET Columns]]
      /\ row[b] \in Row
  BY DEF ConfirmRead, CancelRead, MayStart, CanConfirm, CanCancel, IInv, TypeOK
<1>2. PICK c : c = req'[r]
  OBVIOUS
<1>3. /\ c.pc = "read" /\ c.booking = b
      /\ c.snap = Answered(row[b], c.snap.status) /\ c.snap.status \in {CONFIRMED} \cup Canceled
      /\ c.snap.status = CONFIRMED => row[b].status = PENDING
      /\ \A q \in Requests \ {r} : req'[q] = req[q]
      /\ \A x \in Bookings : <<x, "canceled">> \in notices' /\ <<x, "canceled">> \notin notices =>
                               x = b /\ c.snap.status # CONFIRMED
  <2>1. CASE ConfirmRead(r, b)
    <3> DEFINE d == [pc |-> "read", booking |-> b, cols |-> {}, snap |-> Answered(row[b], CONFIRMED)]
    <3>1. req' = [req EXCEPT ![r] = d] /\ UNCHANGED notices /\ row[b].status = PENDING
      BY <2>1 DEF ConfirmRead, CanConfirm, Answered
    <3>2. d.pc = "read" /\ d.booking = b /\ d.snap = Answered(row[b], CONFIRMED)
      OBVIOUS
    <3>3. Answered(row[b], CONFIRMED).status = CONFIRMED
      BY <1>1 DEF Answered, Row
    <3> HIDE DEF d
    <3>4. c = d /\ \A q \in Requests \ {r} : req'[q] = req[q]
      BY <1>1, <1>2, <3>1
    <3> QED
      BY <3>1, <3>2, <3>3, <3>4
  <2>2. CASE CancelRead(r, b)
    <3>1. PICK canceledAs \in Canceled :
            req' = [req EXCEPT ![r] =
                      [pc |-> "read", booking |-> b, cols |-> {},
                       snap |-> [row[b] EXCEPT !.status = canceledAs, !.canceledAt = TRUE,
                                               !.isReject = RejectFlag(row[b].status)]]]
      BY <2>2 DEF CancelRead
    <3> DEFINE d == [pc |-> "read", booking |-> b, cols |-> {}, snap |-> Answered(row[b], canceledAs)]
    <3>2. canceledAs # CONFIRMED
      BY StatusFacts
    <3>3. req' = [req EXCEPT ![r] = d] /\ notices' = notices \cup {<<b, "canceled">>}
      BY <2>2, <3>1, <3>2 DEF Answered, CancelRead
    <3>4. d.pc = "read" /\ d.booking = b /\ d.snap = Answered(row[b], canceledAs)
      OBVIOUS
    <3>5. Answered(row[b], canceledAs).status = canceledAs
      BY <1>1, <3>2 DEF Answered, Row
    <3> HIDE DEF d
    <3>6. c = d /\ \A q \in Requests \ {r} : req'[q] = req[q]
      BY <1>1, <1>2, <3>3
    <3> QED
      BY <3>2, <3>3, <3>4, <3>5, <3>6
  <2> QED
    BY <2>1, <2>2
<1>4. Apart'
  <2>1. /\ \A q \in Requests : req[q].booking # b
        /\ b \notin rejectJob.batch \cup completeJob.batch
    BY <1>1 DEF Busy
  <2>2. \A q \in Requests : req'[q].pc = "idle" <=> req'[q] = Idle
    BY <1>2, <1>3, IdleFacts DEF Serial, Apart
  <2>3. \A p, q \in Requests : p # q /\ req'[p].pc # "idle" => req'[p].booking # req'[q].booking
    <3>1. \A q \in Requests : q = r => req'[q].booking = b
      BY <1>2, <1>3
    <3>2. \A q \in Requests : q # r => req'[q] = req[q]
      BY <1>3
    <3> QED
      BY <2>1, <3>1, <3>2 DEF Serial, Apart
  <2>4. \A q \in Requests : req'[q].booking \notin rejectJob.batch \cup completeJob.batch
    BY <1>2, <1>3, <2>1 DEF Serial, Apart
  <2> QED
    BY <1>1, <2>2, <2>3, <2>4 DEF Serial, Apart
<1>5. \A q \in Requests : SnapIsFresh(q)'
  BY <1>1, <1>2, <1>3, StatusFacts DEF Serial, SnapIsFresh, Exists
<1>6. BatchesAreFresh' /\ \A x \in Bookings : RowAgrees(x)'
  BY <1>1 DEF Serial, BatchesAreFresh, Exists, RowAgrees, Elapsed
<1>7. \A x \in Bookings : NoticeInv(x)'
  <2>1. \A q \in Requests, x \in Bookings : req[q].booking = x => q # r
    BY <1>1 DEF Serial, Apart, Idle
  <2>2. NoticeInv(b)'
    <3>1. row[b].status \notin Canceled \cup {"none"}
      BY <1>1, StatusFacts
    <3>2. \A q \in Requests : req[q].booking # b
      BY <1>1 DEF Busy
    <3>3. c.snap.status = CONFIRMED /\ <<b, "canceled">> \in notices' => <<b, "canceled">> \in notices
      BY <1>3
    <3>4. NoticeInv(b)
      BY DEF Serial
    <3> QED
      BY <1>1, <1>2, <1>3, <3>1, <3>2, <3>3, <3>4 DEF NoticeInv, Exists
  <2>3. ASSUME NEW x \in Bookings, x # b PROVE NoticeInv(x)'
    BY <1>1, <1>3, <2>1, <2>3 DEF Serial, NoticeInv, Exists
  <2> QED
    BY <2>2, <2>3
<1> QED
  BY <1>1, <1>4, <1>5, <1>6, <1>7 DEF Serial

\* save finds what the request read.
LEMMA LoadIsSerial ==
    ASSUME IInv, Serial, NEW r \in Requests, SaveLoad(r)
    PROVE  Serial' /\ row' = row
<1>1. PICK b : b = req[r].booking
  OBVIOUS
<1>2. /\ UNCHANGED <<row, age, rejectJob, completeJob, crashes, notices>> /\ b \in Bookings
      /\ req[r].pc = "read"
      /\ \A q \in Requests \ {r} : req'[q] = req[q]
      /\ req \in [Requests -> [pc : ReqPC, booking : Bookings \cup {None}, snap : Row, cols : SUBSET Columns]]
  BY <1>1 DEF SaveLoad, IInv, TypeOK, RequestInv
<1>3. \/ ~Exists(b) /\ req'[r] = Idle
      \/ /\ Exists(b)
         /\ req'[r].pc = "loaded" /\ req'[r].booking = b /\ req'[r].snap = req[r].snap
         /\ req'[r].cols = ChangedColumns(req[r].snap, row[b])
  BY <1>1, <1>2 DEF SaveLoad
<1>4. Apart'
  <2>1. \A q \in Requests : req'[q].pc = "idle" <=> req'[q] = Idle
    BY <1>2, <1>3, IdleFacts DEF Serial, Apart
  <2>2. \A q \in Requests : \/ req'[q].booking = req[q].booking /\ (req'[q].pc # "idle" => req[q].pc # "idle")
                            \/ req'[q].pc = "idle" /\ req'[q].booking = None
    BY <1>1, <1>2, <1>3, IdleFacts
  <2>3. \A q \in Requests : req[q].pc # "idle" => req[q].booking # None
    BY DEF IInv, RequestInv
  <2>4. \A p, q \in Requests : p # q /\ req'[p].pc # "idle" => req'[p].booking # req'[q].booking
    BY <2>2, <2>3 DEF Serial, Apart
  <2>5. \A q \in Requests : req'[q].booking \notin rejectJob.batch \cup completeJob.batch
    BY <2>2 DEF Serial, Apart, IInv, TypeOK
  <2> QED
    BY <1>2, <2>1, <2>4, <2>5 DEF Serial, Apart
<1>5. \A q \in Requests : SnapIsFresh(q)'
  <2>1. SnapIsFresh(r)'
    BY <1>1, <1>2, <1>3 DEF Serial, SnapIsFresh, Exists, Idle
  <2> QED
    BY <1>2, <2>1 DEF Serial, SnapIsFresh, Exists
<1>6. BatchesAreFresh' /\ \A x \in Bookings : RowAgrees(x)'
  BY <1>2 DEF Serial, BatchesAreFresh, Exists, RowAgrees, Elapsed
<1>7. \A x \in Bookings : NoticeInv(x)'
  <2>1. \A q \in Requests : Exists(req[q].booking) /\ req[q].booking \in Bookings =>
          req'[q].booking = req[q].booking /\ req'[q].snap = req[q].snap
    BY <1>1, <1>2, <1>3
  <2> QED
    BY <1>2, <2>1 DEF Serial, NoticeInv, Exists
<1> QED
  BY <1>2, <1>4, <1>5, <1>6, <1>7 DEF Serial

\* The jobs select what nobody is at.
LEMMA SelectIsSerial ==
    ASSUME IInv, Serial, ~Overlap, RejectSelect \/ CompleteSelect
    PROVE  Serial' /\ row' = row
<1>1. UNCHANGED <<row, age, req, notices, crashes>>
  BY DEF RejectSelect, CompleteSelect
<1>2. Apart'
  <2>1. CASE RejectSelect
    <3>1. rejectJob'.batch = DueBookings /\ completeJob' = completeJob /\ \A b \in DueBookings : ~Busy(b)
      BY <2>1 DEF RejectSelect, MayStart
    <3> QED
      BY <1>1, <3>1 DEF Serial, Apart, Busy
  <2>2. CASE CompleteSelect
    <3>1. completeJob'.batch = FinishedBookings /\ rejectJob' = rejectJob
          /\ \A b \in FinishedBookings : ~Busy(b)
      BY <2>2 DEF CompleteSelect, MayStart
    <3> QED
      BY <1>1, <3>1 DEF Serial, Apart, Busy
  <2> QED
    BY <2>1, <2>2
<1>3. BatchesAreFresh'
  BY <1>1 DEF Serial, BatchesAreFresh, RejectSelect, CompleteSelect, DueBookings, Due, FinishedBookings, Exists
<1>4. /\ \A q \in Requests : SnapIsFresh(q)'
      /\ \A x \in Bookings : RowAgrees(x)' /\ NoticeInv(x)'
  BY <1>1 DEF Serial, SnapIsFresh, Exists, RowAgrees, NoticeInv, Elapsed
<1> QED
  BY <1>1, <1>2, <1>3, <1>4 DEF Serial

----------------------------------------------------------------------------
(* Steps that write rows.                                                  *)

LEMMA CreateIsSerial ==
    ASSUME IInv, Serial, NEW b \in Bookings, CreateBooking(b)
    PROVE  Serial'
<1>1. PICK s \in Babysitters, p \in Parents \cup {None}, times \in BOOLEAN, status \in {DRAFT, PENDING, COMPLETED} :
        row' = [row EXCEPT ![b] = NewRow(s, p, times, status)]
  BY DEF CreateBooking
<1>2. /\ row[b].status = "none" /\ row'[b] = NewRow(s, p, times, status)
      /\ \A x \in Bookings \ {b} : row'[x] = row[x]
      /\ UNCHANGED <<age, req, rejectJob, completeJob, notices, crashes>>
  BY <1>1 DEF CreateBooking, IInv, TypeOK
<1>3. /\ \A r \in Requests : req[r].pc # "idle" => req[r].booking \in Bookings \ {b}
      /\ rejectJob.batch \cup completeJob.batch \subseteq Bookings \ {b}
  BY <1>2 DEF IInv, RequestInv, RejectInv, CompleteInv, TypeOK
<1>4. Apart' /\ (\A r \in Requests : SnapIsFresh(r)') /\ BatchesAreFresh'
  BY <1>2, <1>3, FreshStays DEF Steady
<1>5. RowAgrees(b)'
  <2>1. row'[b].status = status /\ ~row'[b].canceledAt
    BY <1>2 DEF NewRow
  <2>2. status \notin {"none", "erased", CONFIRMED, PARENT_CANCEL, BABY_SITTER_CANCEL}
    BY DEF DRAFT, PENDING, COMPLETED, CONFIRMED, PARENT_CANCEL, BABY_SITTER_CANCEL
  <2> QED
    BY <2>1, <2>2 DEF RowAgrees, Canceled
<1>6. NoticeInv(b)'
  BY <1>2 DEF Serial, NoticeInv
<1>7. ASSUME NEW x \in Bookings, x # b PROVE RowAgrees(x)' /\ NoticeInv(x)'
  BY <1>2, <1>7 DEF Serial, RowAgrees, NoticeInv, Exists, Elapsed
<1> QED
  BY <1>4, <1>5, <1>6, <1>7 DEF Serial

LEMMA ViewIsSerial ==
    ASSUME IInv, Serial, ~Overlap, NEW b \in Bookings, ViewBooking(b)
    PROVE  Serial'
<1>1. /\ row'[b] = [row[b] EXCEPT !.isViewed = TRUE] /\ row[b] \in Row
      /\ Exists(b) /\ ~Busy(b)
      /\ \A x \in Bookings \ {b} : row'[x] = row[x]
      /\ UNCHANGED <<age, req, rejectJob, completeJob, notices, crashes>>
  BY DEF ViewBooking, MayStart, IInv, TypeOK
<1>2. /\ row'[b].status = row[b].status /\ row'[b].confirmedAt = row[b].confirmedAt
      /\ row'[b].canceledAt = row[b].canceledAt /\ row'[b].isReject = row[b].isReject
  BY <1>1 DEF Row
<1>3. /\ \A r \in Requests : req[r].pc # "idle" => req[r].booking \in Bookings \ {b}
      /\ rejectJob.batch \cup completeJob.batch \subseteq Bookings \ {b}
  BY <1>1 DEF Busy, IInv, RequestInv, TypeOK
<1>4. Apart' /\ (\A r \in Requests : SnapIsFresh(r)') /\ BatchesAreFresh'
  BY <1>1, <1>3, FreshStays DEF Steady
<1>5. row[b].status \notin {"none", "erased"}
  BY <1>1, StatusFacts DEF Exists
<1>6. RowAgrees(b)'
  BY <1>1, <1>2, <1>5 DEF Serial, RowAgrees, Elapsed
<1>7. NoticeInv(b)'
  BY <1>1, <1>2 DEF Serial, NoticeInv, Exists
<1>8. ASSUME NEW x \in Bookings, x # b PROVE RowAgrees(x)' /\ NoticeInv(x)'
  BY <1>1, <1>8 DEF Serial, RowAgrees, NoticeInv, Exists, Elapsed
<1> QED
  BY <1>4, <1>6, <1>7, <1>8 DEF Serial

\* What save writes is the row as it is with the answer of the request.
LEMMA UpdateWrites ==
    ASSUME IInv, Serial, NEW r \in Requests, NEW b, b = req[r].booking, SaveUpdate(r)
    PROVE  /\ b \in Bookings /\ row[b] \in Row /\ req[r].snap.status \in {CONFIRMED} \cup Canceled
           /\ \A x \in Bookings : row'[x] = IF x = b /\ Exists(b) THEN Answered(row[b], req[r].snap.status)
                                            ELSE row[x]
           /\ Exists(b) => row[b].status \in IF req[r].snap.status = CONFIRMED THEN {PENDING}
                                                                               ELSE {PENDING, CONFIRMED}
<1>1. /\ b \in Bookings /\ row[b] \in Row /\ req[r].snap.status \in {CONFIRMED} \cup Canceled
      /\ req[r].pc = "loaded"
  BY DEF SaveUpdate, IInv, TypeOK, RequestInv
<1>2. Exists(b) => /\ req[r].snap = Answered(row[b], req[r].snap.status)
                   /\ req[r].cols = ChangedColumns(req[r].snap, row[b])
                   /\ row[b].status \in IF req[r].snap.status = CONFIRMED THEN {PENDING} ELSE {PENDING, CONFIRMED}
  BY <1>1 DEF Serial, SnapIsFresh
<1>3. Exists(b) => Merge(row[b], req[r].snap, req[r].cols) = Answered(row[b], req[r].snap.status)
  <2>1. \A status \in {CONFIRMED} \cup Canceled :
          Merge(row[b], Answered(row[b], status), ChangedColumns(Answered(row[b], status), row[b]))
            = Answered(row[b], status)
    BY <1>1, MergeIsSnap
  <2> QED
    BY <1>1, <1>2, <2>1
<1>4. \A x \in Bookings : row'[x] = IF x = b /\ Exists(b) THEN Merge(row[b], req[r].snap, req[r].cols)
                                    ELSE row[x]
  BY <1>1 DEF SaveUpdate, IInv, TypeOK
<1> QED
  BY <1>1, <1>2, <1>3, <1>4

\* The columns after an answer.
LEMMA AnswerColumns ==
    ASSUME NEW stored \in Row, NEW status \in {CONFIRMED} \cup Canceled
    PROVE  LET new == Answered(stored, status) IN
           /\ new.status = status /\ new.isViewed = stored.isViewed
           /\ status = CONFIRMED => /\ new.confirmedAt /\ new.canceledAt = stored.canceledAt
                                    /\ new.isReject = stored.isReject
           /\ status # CONFIRMED => /\ new.canceledAt /\ new.confirmedAt = stored.confirmedAt
                                    /\ new.isReject = RejectFlag(stored.status)
BY DEF Answered, Row

LEMMA UpdateIsSerial ==
    ASSUME IInv, Serial, NEW r \in Requests, SaveUpdate(r)
    PROVE  Serial'
<1>1. PICK b, status : b = req[r].booking /\ status = req[r].snap.status
  OBVIOUS
<1>2. PICK new : new = Answered(row[b], status)
  OBVIOUS
<1>3. /\ b \in Bookings /\ row[b] \in Row /\ status \in {CONFIRMED} \cup Canceled
      /\ \A x \in Bookings : row'[x] = IF x = b /\ Exists(b) THEN new ELSE row[x]
      /\ Exists(b) => row[b].status \in IF status = CONFIRMED THEN {PENDING} ELSE {PENDING, CONFIRMED}
  BY <1>1, <1>2, UpdateWrites
<1>4. /\ UNCHANGED <<age, rejectJob, completeJob, crashes>>
      /\ req'[r] = Idle /\ \A q \in Requests \ {r} : req'[q] = req[q]
      /\ \A x \in Bookings : <<x, "canceled">> \in notices' => <<x, "canceled">> \in notices
      /\ req[r].pc = "loaded"
  BY DEF SaveUpdate, IInv, TypeOK
<1>5. /\ new.status = status
      /\ status = CONFIRMED => new.confirmedAt /\ new.canceledAt = row[b].canceledAt /\ new.isReject = row[b].isReject
      /\ status # CONFIRMED => /\ new.canceledAt /\ new.confirmedAt = row[b].confirmedAt
                               /\ new.isReject = RejectFlag(row[b].status)
  BY <1>2, <1>3, AnswerColumns
<1>6. /\ \A q \in Requests : req'[q].pc # "idle" => req[q].booking # b /\ req[q].booking \in Bookings
      /\ b \notin rejectJob.batch \cup completeJob.batch
      /\ rejectJob.batch \cup completeJob.batch \subseteq Bookings
  BY <1>1, <1>4, IdleFacts DEF Serial, Apart, IInv, RequestInv, TypeOK
<1>7. Apart' /\ (\A q \in Requests : SnapIsFresh(q)') /\ BatchesAreFresh'
  <2>1. \A q \in Requests : req'[q] \in {req[q], Idle}
    BY <1>4
  <2>2. \A x \in Bookings \ {b} : Steady(x)
    BY <1>3 DEF Steady
  <2> QED
    BY <1>4, <1>6, <2>1, <2>2, FreshStays
<1>8. RowAgrees(b)'
  <2>1. CASE ~Exists(b)
    BY <1>3, <1>4, <2>1 DEF Serial, RowAgrees, Elapsed
  <2>2. CASE Exists(b)
    <3>1. row'[b] = new
      BY <1>3, <2>2
    <3>2. /\ row[b].status = PENDING => row[b].isReject = "null" /\ ~row[b].confirmedAt /\ ~row[b].canceledAt
          /\ row[b].status = CONFIRMED => row[b].isReject = "null" /\ row[b].confirmedAt /\ ~row[b].canceledAt
      BY <1>3 DEF Serial, RowAgrees, IInv, BookingInv
    <3> QED
      BY <1>3, <1>5, <2>2, <3>1, <3>2, StatusFacts DEF RowAgrees, RejectFlag
  <2> QED
    BY <2>1, <2>2
<1>9. NoticeInv(b)'
  <2>1. CASE ~Exists(b)
    BY <1>3, <1>4, <2>1 DEF Serial, NoticeInv, Exists
  <2>2. CASE Exists(b) /\ status # CONFIRMED
    BY <1>3, <1>5, <2>2, StatusFacts DEF NoticeInv
  <2>3. CASE Exists(b) /\ status = CONFIRMED
    <3>1. row[b].status \notin Canceled /\ row'[b].status # "none"
      BY <1>3, <1>5, <2>3, StatusFacts
    <3>2. \A q \in Requests : req[q].booking = b => q = r
      BY <1>1, <1>4 DEF Serial, Apart
    <3>3. \A q \in Requests : req[q].booking = b => req[q].snap.status = CONFIRMED
      BY <1>1, <2>3, <3>2
    <3>4. NoticeInv(b)
      BY <1>3 DEF Serial
    <3>5. ~(<<b, "canceled">> \in notices /\ crashes = 0)
      BY <2>3, <3>1, <3>3, <3>4 DEF NoticeInv
    <3> QED
      BY <1>3, <1>4, <3>1, <3>5 DEF NoticeInv
  <2> QED
    BY <2>1, <2>2, <2>3
<1>10. ASSUME NEW x \in Bookings, x # b PROVE RowAgrees(x)' /\ NoticeInv(x)'
  BY <1>1, <1>3, <1>4, <1>10 DEF Serial, RowAgrees, NoticeInv, Exists, Elapsed
<1> QED
  BY <1>7, <1>8, <1>9, <1>10 DEF Serial

\* The expiry job cancels what it selected.
LEMMA RejectWrites ==
    ASSUME IInv, Serial, RejectUpdate
    PROVE  \A x \in Bookings :
             row'[x] = IF x \in rejectJob.batch /\ row[x].status = PENDING THEN Rejected(row[x]) ELSE row[x]
BY DEF RejectUpdate

LEMMA RejectIsSerial ==
    ASSUME IInv, Serial, RejectUpdate
    PROVE  Serial'
<1>1. /\ UNCHANGED <<age, req, completeJob, notices, crashes>> /\ rejectJob'.batch = {}
      /\ row \in [Bookings -> Row] /\ rejectJob.batch \subseteq Bookings /\ completeJob.batch \subseteq Bookings
  BY DEF RejectUpdate, JobIdle, IInv, TypeOK
<1>2. PICK B : B = rejectJob.batch
  OBVIOUS
<1>3. \A x \in Bookings : row'[x] = IF x \in B /\ row[x].status = PENDING THEN Rejected(row[x]) ELSE row[x]
  BY <1>2, RejectWrites
<1>4. Apart' /\ (\A r \in Requests : SnapIsFresh(r)') /\ BatchesAreFresh'
  <2>1. \A x \in Bookings \ B : Steady(x)
    BY <1>3 DEF Steady
  <2>2. \A r \in Requests : req[r].pc # "idle" => req[r].booking \in Bookings \ B
    BY <1>2 DEF Serial, Apart, IInv, RequestInv
  <2>3. completeJob.batch \subseteq Bookings \ B
    BY <1>1, <1>2 DEF Serial, Apart
  <2> QED
    BY <1>1, <2>1, <2>2, <2>3, FreshStays
<1>5. ASSUME NEW x \in Bookings, row'[x] = row[x] PROVE RowAgrees(x)' /\ NoticeInv(x)'
  BY <1>1, <1>5 DEF Serial, RowAgrees, NoticeInv, Exists, Elapsed
<1>6. ASSUME NEW x \in Bookings, x \in B, row[x].status = PENDING, row'[x] = Rejected(row[x])
      PROVE  RowAgrees(x)' /\ NoticeInv(x)'
  <2>1. /\ row'[x].status = BABY_SITTER_CANCEL /\ row'[x].isReject = "false"
        /\ row'[x].confirmedAt = row[x].confirmedAt /\ row'[x].canceledAt = row[x].canceledAt
    BY <1>1, <1>6 DEF Rejected, Row
  <2>2. ~row[x].confirmedAt /\ ~row[x].canceledAt
    BY <1>6 DEF IInv, BookingInv
  <2>3. Elapsed(x)'
    BY <1>1, <1>2, <1>6 DEF IInv, RejectInv, Elapsed
  <2>4. BABY_SITTER_CANCEL \notin {"none", "erased", CONFIRMED, COMPLETED, PARENT_CANCEL}
    BY DEF BABY_SITTER_CANCEL, CONFIRMED, COMPLETED, PARENT_CANCEL
  <2>5. NoticeInv(x)'
    BY <2>1, <2>4 DEF NoticeInv, Canceled
  <2> QED
    BY <2>1, <2>2, <2>3, <2>4, <2>5 DEF RowAgrees
<1>7. \A x \in Bookings : RowAgrees(x)' /\ NoticeInv(x)'
  BY <1>3, <1>5, <1>6
<1> QED
  BY <1>4, <1>7 DEF Serial

\* The completing job closes confirmed bookings only.
LEMMA CompleteWrites ==
    ASSUME IInv, Serial, CompleteUpdate
    PROVE  /\ completeJob.batch \subseteq Bookings
           /\ \A x \in completeJob.batch : Exists(x) => row[x].status = CONFIRMED
           /\ \A x \in Bookings :
                row'[x] = IF x \in completeJob.batch /\ Exists(x)
                          THEN [row[x] EXCEPT !.status = COMPLETED] ELSE row[x]
BY DEF CompleteUpdate, Serial, BatchesAreFresh, IInv, TypeOK

LEMMA CompleteIsSerial ==
    ASSUME IInv, Serial, CompleteUpdate
    PROVE  Serial'
<1>1. /\ UNCHANGED <<age, req, rejectJob, notices, crashes>> /\ completeJob'.batch = {}
      /\ row \in [Bookings -> Row] /\ rejectJob.batch \subseteq Bookings
  BY DEF CompleteUpdate, JobIdle, IInv, TypeOK
<1>2. PICK B : B = completeJob.batch
  OBVIOUS
<1>3. /\ B \subseteq Bookings /\ \A x \in B : Exists(x) => row[x].status = CONFIRMED
      /\ \A x \in Bookings : row'[x] = IF x \in B /\ Exists(x) THEN [row[x] EXCEPT !.status = COMPLETED] ELSE row[x]
  BY <1>2, CompleteWrites
<1>4. Apart' /\ (\A r \in Requests : SnapIsFresh(r)') /\ BatchesAreFresh'
  <2>1. \A x \in Bookings \ B : Steady(x)
    BY <1>3 DEF Steady
  <2>2. \A r \in Requests : req[r].pc # "idle" => req[r].booking \in Bookings \ B
    BY <1>2 DEF Serial, Apart, IInv, RequestInv
  <2>3. rejectJob.batch \subseteq Bookings \ B
    BY <1>1, <1>2 DEF Serial, Apart
  <2> QED
    BY <1>1, <2>1, <2>2, <2>3, FreshStays
<1>5. ASSUME NEW x \in Bookings, row'[x] = row[x] PROVE RowAgrees(x)' /\ NoticeInv(x)'
  BY <1>1, <1>5 DEF Serial, RowAgrees, NoticeInv, Exists, Elapsed
<1>6. ASSUME NEW x \in B, Exists(x), row'[x] = [row[x] EXCEPT !.status = COMPLETED]
      PROVE  RowAgrees(x)' /\ NoticeInv(x)'
  <2>1. /\ row'[x].status = COMPLETED /\ row'[x].canceledAt = row[x].canceledAt /\ row[x].status = CONFIRMED
        /\ x \in Bookings
    BY <1>1, <1>3, <1>6 DEF Row
  <2>2. ~row[x].canceledAt /\ NoticeInv(x)
    BY <2>1 DEF Serial, RowAgrees
  <2>3. COMPLETED \notin {"none", "erased", CONFIRMED, PARENT_CANCEL, BABY_SITTER_CANCEL}
        /\ CONFIRMED \notin Canceled
    BY DEF BABY_SITTER_CANCEL, CONFIRMED, COMPLETED, PARENT_CANCEL, Canceled
  <2>4. \A q \in Requests : req[q].booking # x
    BY <1>2, <1>6 DEF Serial, Apart
  <2>5. ~(<<x, "canceled">> \in notices /\ crashes = 0)
    BY <1>6, <2>1, <2>2, <2>3, <2>4 DEF NoticeInv
  <2>6. NoticeInv(x)'
    BY <1>1, <2>1, <2>3, <2>5 DEF NoticeInv
  <2> QED
    BY <2>1, <2>2, <2>3, <2>6 DEF RowAgrees, Canceled
<1>7. \A x \in Bookings : RowAgrees(x)' /\ NoticeInv(x)'
  BY <1>3, <1>5, <1>6
<1> QED
  BY <1>4, <1>7 DEF Serial

\* A removed user takes whole rows away.
LEMMA EraseIsSerial ==
    ASSUME IInv, Serial, NEW u \in Users, HardDeleteAccount(u)
    PROVE  Serial'
<1>1. PICK gone : gone = [EmptyRow EXCEPT !.status = "erased"]
  OBVIOUS
<1>2. /\ gone.status = "erased" /\ gone.parentId = None /\ gone.babysitterId = None /\ ~gone.isViewed
      /\ "erased" \notin BookingStatus
  BY <1>1, StatusFacts DEF EmptyRow
<1>3. /\ \A x \in Bookings : row'[x] = gone \/ row'[x] = row[x]
      /\ UNCHANGED <<age, req, rejectJob, completeJob, notices, crashes>>
      /\ rejectJob.batch \cup completeJob.batch \subseteq Bookings
  BY <1>1 DEF HardDeleteAccount, IInv, TypeOK
<1>4. \A x \in Bookings : Steady(x)
  BY <1>2, <1>3 DEF Steady
<1>5. Apart' /\ (\A r \in Requests : SnapIsFresh(r)') /\ BatchesAreFresh'
  <2>1. \A r \in Requests : req[r].pc # "idle" => req[r].booking \in Bookings
    BY DEF IInv, RequestInv
  <2> QED
    BY <1>3, <1>4, <2>1, FreshStays
<1>6. ASSUME NEW x \in Bookings, row'[x] = row[x] PROVE RowAgrees(x)' /\ NoticeInv(x)'
  BY <1>3, <1>6 DEF Serial, RowAgrees, NoticeInv, Exists, Elapsed
<1>7. ASSUME NEW x \in Bookings, row'[x] = gone PROVE RowAgrees(x)' /\ NoticeInv(x)'
  <2>1. "erased" \notin {"none", CONFIRMED, COMPLETED, BABY_SITTER_CANCEL, PARENT_CANCEL}
    BY DEF BABY_SITTER_CANCEL, CONFIRMED, COMPLETED, PARENT_CANCEL
  <2> QED
    BY <1>2, <1>7, <2>1 DEF RowAgrees, NoticeInv, Exists, Canceled
<1> QED
  BY <1>3, <1>5, <1>6, <1>7 DEF Serial

LEMMA SerialNext == ~Overlap /\ IInv /\ Serial /\ [Next]_vars => Serial'
<1> SUFFICES ASSUME ~Overlap, IInv, Serial, [Next]_vars PROVE Serial'
  OBVIOUS
<1> QED
  BY CreateIsSerial, ViewIsSerial, ReadIsSerial, LoadIsSerial, UpdateIsSerial, SelectIsSerial,
     RejectIsSerial, CompleteIsSerial, EraseIsSerial, OthersAreSerial DEF Next

\* The invariant of the serial regime holds in every reachable state.
THEOREM SerialInductive == ~Overlap => (Spec => [](IInv /\ Serial))
<1> SUFFICES ASSUME ~Overlap PROVE Spec => [](IInv /\ Serial)
  OBVIOUS
<1>1. Init => IInv /\ Serial
  BY InitInv, SerialInit
<1>2. IInv /\ Serial /\ [Next]_vars => (IInv /\ Serial)'
  BY NextInv, SerialNext
<1> QED
  BY <1>1, <1>2, PTL DEF Spec

\* Every stored booking but a draft is in exactly one total.
LEMMA CountedOnce ==
    ASSUME IInv, Serial, NEW b \in Bookings, Exists(b), row[b].status # DRAFT
    PROVE  Cardinality(CountedIn(b)) = 1
<1>1. PICK r \in Row : r = row[b]
  BY DEF IInv, TypeOK
<1>2. /\ r.status \in {PENDING, CONFIRMED, COMPLETED, BABY_SITTER_CANCEL, PARENT_CANCEL}
      /\ r.isReject \in {"null", "false", "true"}
      /\ r.status = PARENT_CANCEL => r.isReject # "null"
  BY <1>1 DEF Row, Exists, BookingStatus, Canceled, Serial, RowAgrees
<1>3. \E t \in Total : CountedIn(b) = {t}
  <2>1. CASE r.status = PENDING
    <3>1. CountedIn(b) = {"totalBookingPending"}
      BY <1>1, <1>2, <2>1 DEF CountedIn, Sums, Total, PENDING, CONFIRMED, COMPLETED, BABY_SITTER_CANCEL, PARENT_CANCEL
    <3> QED
      BY <3>1 DEF Total
  <2>2. CASE r.status = CONFIRMED
    <3>1. CountedIn(b) = {"totalBookingConfirmed"}
      BY <1>1, <1>2, <2>2 DEF CountedIn, Sums, Total, PENDING, CONFIRMED, COMPLETED, BABY_SITTER_CANCEL, PARENT_CANCEL
    <3> QED
      BY <3>1 DEF Total
  <2>3. CASE r.status = COMPLETED
    <3>1. CountedIn(b) = {"totalBookingCompleted"}
      BY <1>1, <1>2, <2>3 DEF CountedIn, Sums, Total, PENDING, CONFIRMED, COMPLETED, BABY_SITTER_CANCEL, PARENT_CANCEL
    <3> QED
      BY <3>1 DEF Total
  <2>4. CASE r.status = BABY_SITTER_CANCEL
    <3>1. CountedIn(b) = {IF r.isReject = "null" THEN "totalBookingAutoReject"
                          ELSE IF r.isReject = "true" THEN "totalBookingBabysitterReject"
                          ELSE "totalBabysitterCancel"}
      BY <1>1, <1>2, <2>4 DEF CountedIn, Sums, Total, PENDING, CONFIRMED, COMPLETED, BABY_SITTER_CANCEL, PARENT_CANCEL
    <3> QED
      BY <3>1 DEF Total
  <2>5. CASE r.status = PARENT_CANCEL
    <3>1. CountedIn(b) = {IF r.isReject = "true" THEN "totalBookingParentReject" ELSE "totalParentCancel"}
      BY <1>1, <1>2, <2>5 DEF CountedIn, Sums, Total, PENDING, CONFIRMED, COMPLETED, BABY_SITTER_CANCEL, PARENT_CANCEL
    <3> QED
      BY <3>1 DEF Total
  <2> QED
    BY <1>2, <2>1, <2>2, <2>3, <2>4, <2>5
<1> QED
  BY <1>3, FS_Singleton

\* When operations on a booking do not overlap, its columns tell one story and
\* it is in exactly one total of the statistics (confirmBooking, cancelBooking,
\* updateBookingRejectAfter48Hours, getStatisticsCommon).
THEOREM ColumnsAlwaysAgree == ~Overlap => (Spec => []ColumnsAgree)
<1>1. IInv /\ Serial => ColumnsAgree
  BY CountedOnce DEF ColumnsAgree, Serial, RowAgrees
<1> QED
  BY <1>1, SerialInductive, PTL

\* When operations on a booking do not overlap and no process died, whoever
\* was told of a cancellation has it once the request is over (cancelBooking).
THEOREM CancelNoticesComeTrue == ~Overlap => (Spec => []CancelNoticeComesTrue)
<1>1. IInv /\ Serial => CancelNoticeComesTrue
  BY DEF CancelNoticeComesTrue, Serial, NoticeInv, Busy
<1> QED
  BY <1>1, SerialInductive, PTL

----------------------------------------------------------------------------
(* The refinement: each step is one of the workflow's or none.             *)

\* One booking moves and nobody's view of another changes.
LEMMA OneMoves ==
    ASSUME NEW b \in Bookings, \A x \in Bookings \ {b} : row'[x] = row[x],
           NEW from, NEW to, Stage(row[b]) \in from, Stage(row'[b]) \in to,
           row'[b].isViewed <=> row[b].isViewed
    PROVE  Workflow!Move(b, from, to)
<1>1. [x \in Bookings |-> Stage(row'[x])] = [[x \in Bookings |-> Stage(row[x])] EXCEPT ![b] = Stage(row'[b])]
  OBVIOUS
<1>2. {x \in Bookings : row'[x].isViewed} = {x \in Bookings : row[x].isViewed}
  OBVIOUS
<1> QED
  BY <1>1, <1>2 DEF Workflow!Move

\* Many bookings move at once.
LEMMA ManyMove ==
    ASSUME NEW B \in SUBSET Bookings, \A x \in Bookings \ B : row'[x] = row[x],
           NEW from, NEW to, \A x \in B : Stage(row[x]) \in from /\ Stage(row'[x]) = to
    PROVE  Workflow!MoveAll(B, from, to)
BY DEF Workflow!MoveAll

\* Where a row of each status stands.
LEMMA StageOfStatus ==
    ASSUME NEW r
    PROVE  /\ r.status = PENDING => Stage(r) = "pending"
           /\ r.status = CONFIRMED => Stage(r) = "confirmed"
           /\ r.status = COMPLETED => Stage(r) = "completed"
           /\ r.status = DRAFT => Stage(r) = "draft"
           /\ r.status = "none" => Stage(r) = "none"
           /\ r.status = "erased" => Stage(r) = "erased"
           /\ r.status \in Canceled /\ r.canceledAt =>
                Stage(r) = IF r.status = BABY_SITTER_CANCEL
                           THEN IF r.isReject = "true" THEN "sitter_rejected" ELSE "sitter_cancelled"
                           ELSE IF r.isReject = "true" THEN "parent_withdrawn" ELSE "parent_cancelled"
           /\ r.status = BABY_SITTER_CANCEL /\ ~r.canceledAt => Stage(r) = "expired"
BY DEF Stage, Canceled, PENDING, CONFIRMED, COMPLETED, DRAFT, BABY_SITTER_CANCEL, PARENT_CANCEL

\* A stored row stands at a stage of the workflow, neither its first nor its
\* last.
LEMMA StoredStands ==
    ASSUME NEW r, r.status \in BookingStatus
    PROVE  Stage(r) \in Workflow!Stages \ {"none", "erased"}
BY DEF Stage, BookingStatus, Canceled, PENDING, CONFIRMED, COMPLETED, DRAFT, BABY_SITTER_CANCEL, PARENT_CANCEL,
       Workflow!Stages, Workflow!Cancelled, Workflow!Refused

LEMMA CreateIsCreate ==
    ASSUME IInv, Serial, NEW b \in Bookings, CreateBooking(b)
    PROVE  Workflow!Next
<1>1. PICK s \in Babysitters, p \in Parents \cup {None}, times \in BOOLEAN, status \in {DRAFT, PENDING, COMPLETED} :
        row' = [row EXCEPT ![b] = NewRow(s, p, times, status)]
  BY DEF CreateBooking
<1>2. /\ row[b].status = "none" /\ row'[b] = NewRow(s, p, times, status)
      /\ \A x \in Bookings \ {b} : row'[x] = row[x]
  BY <1>1 DEF CreateBooking, IInv, TypeOK
<1>3. row'[b].status = status /\ ~row'[b].isViewed /\ ~row[b].isViewed
  BY <1>2 DEF NewRow, Serial, RowAgrees, EmptyRow
<1>4. Stage(row[b]) \in {"none"} /\ Stage(row'[b]) \in {"draft", "pending", "completed"}
  BY <1>2, <1>3, StageOfStatus
<1>5. Workflow!Create(b)
  BY <1>2, <1>3, <1>4, OneMoves DEF Workflow!Create
<1> QED
  BY <1>5 DEF Workflow!Next

LEMMA ViewIsView ==
    ASSUME IInv, NEW b \in Bookings, ViewBooking(b)
    PROVE  Workflow!Next
<1>1. /\ row'[b] = [row[b] EXCEPT !.isViewed = TRUE] /\ row[b] \in Row /\ Exists(b)
      /\ \A x \in Bookings \ {b} : row'[x] = row[x]
  BY DEF ViewBooking, IInv, TypeOK
<1>2. Stage(row[b]) \notin {"none", "erased"}
  BY <1>1, StoredStands DEF Exists
<1>3. Stage(row'[b]) = Stage(row[b]) /\ row'[b].isViewed
  BY <1>1 DEF Stage, Row
<1>4. [x \in Bookings |-> Stage(row'[x])] = [x \in Bookings |-> Stage(row[x])]
  BY <1>1, <1>3
<1>5. {x \in Bookings : row'[x].isViewed} = {x \in Bookings : row[x].isViewed} \cup {b}
  BY <1>1, <1>3
<1>6. Workflow!View(b)
  BY <1>2, <1>4, <1>5 DEF Workflow!View
<1> QED
  BY <1>6 DEF Workflow!Next

LEMMA UpdateIsAnswer ==
    ASSUME IInv, Serial, NEW r \in Requests, SaveUpdate(r)
    PROVE  [Workflow!Next]_Workflow!vars
<1>1. PICK b, status : b = req[r].booking /\ status = req[r].snap.status
  OBVIOUS
<1>2. PICK new : new = Answered(row[b], status)
  OBVIOUS
<1>3. /\ b \in Bookings /\ row[b] \in Row /\ status \in {CONFIRMED} \cup Canceled
      /\ \A x \in Bookings : row'[x] = IF x = b /\ Exists(b) THEN new ELSE row[x]
      /\ Exists(b) => row[b].status \in IF status = CONFIRMED THEN {PENDING} ELSE {PENDING, CONFIRMED}
  BY <1>1, <1>2, UpdateWrites
<1>4. /\ new.status = status /\ new.isViewed = row[b].isViewed
      /\ status # CONFIRMED => new.canceledAt /\ new.isReject = RejectFlag(row[b].status)
  BY <1>2, <1>3, AnswerColumns
<1>5. CASE ~Exists(b)
  <2>1. \A x \in Bookings : row'[x] = row[x]
    BY <1>3, <1>5
  <2> QED
    BY <2>1 DEF Workflow!vars
<1>6. CASE Exists(b)
  <2>1. row'[b] = new /\ \A x \in Bookings \ {b} : row'[x] = row[x]
    BY <1>3, <1>6
  <2>2. CASE status = CONFIRMED
    <3>1. Stage(row[b]) \in {"pending"} /\ Stage(row'[b]) \in {"confirmed"}
      BY <1>3, <1>4, <1>6, <2>1, <2>2, StageOfStatus
    <3>2. Workflow!Confirm(b)
      BY <1>3, <1>4, <2>1, <3>1, OneMoves DEF Workflow!Confirm
    <3> QED
      BY <1>3, <3>2 DEF Workflow!Next
  <2>3. CASE status # CONFIRMED /\ row[b].status = PENDING
    <3>1. Stage(row[b]) \in {"pending"} /\ Stage(row'[b]) \in {"sitter_rejected", "parent_withdrawn"}
      BY <1>3, <1>4, <2>1, <2>3, StageOfStatus DEF RejectFlag
    <3>2. Workflow!Refuse(b)
      BY <1>3, <1>4, <2>1, <3>1, OneMoves DEF Workflow!Refuse
    <3> QED
      BY <1>3, <3>2 DEF Workflow!Next
  <2>4. CASE status # CONFIRMED /\ row[b].status = CONFIRMED
    <3>1. Stage(row[b]) \in {"confirmed"} /\ Stage(row'[b]) \in Workflow!Cancelled
      BY <1>3, <1>4, <2>1, <2>4, StageOfStatus, StatusFacts DEF RejectFlag, Workflow!Cancelled
    <3>2. Workflow!Cancel(b)
      BY <1>3, <1>4, <2>1, <3>1, OneMoves DEF Workflow!Cancel
    <3> QED
      BY <1>3, <3>2 DEF Workflow!Next
  <2> QED
    BY <1>3, <1>6, <2>2, <2>3, <2>4
<1> QED
  BY <1>5, <1>6

LEMMA RejectIsExpire ==
    ASSUME IInv, Serial, RejectUpdate
    PROVE  Workflow!Next
<1>1. PICK B : B = {x \in rejectJob.batch : row[x].status = PENDING}
  OBVIOUS
<1>2. /\ B \in SUBSET Bookings /\ row \in [Bookings -> Row]
      /\ \A x \in Bookings : row'[x] = IF x \in B THEN Rejected(row[x]) ELSE row[x]
      /\ \A x \in B : row[x].status = PENDING /\ ~row[x].canceledAt
  BY <1>1, RejectWrites DEF IInv, TypeOK, BookingInv
<1>3. \A x \in B : /\ row'[x].status = BABY_SITTER_CANCEL /\ row'[x].canceledAt = row[x].canceledAt
                   /\ row'[x].isViewed = row[x].isViewed
  BY <1>2 DEF Rejected, Row
<1>4. \A x \in B : Stage(row[x]) \in {"pending"} /\ Stage(row'[x]) = "expired"
  BY <1>2, <1>3, StageOfStatus
<1>5. {x \in Bookings : row'[x].isViewed} = {x \in Bookings : row[x].isViewed}
  BY <1>2, <1>3
<1>6. Workflow!Expire(B)
  BY <1>2, <1>4, <1>5, ManyMove DEF Workflow!Expire
<1> QED
  BY <1>2, <1>6 DEF Workflow!Next

LEMMA CompleteIsComplete ==
    ASSUME IInv, Serial, CompleteUpdate
    PROVE  Workflow!Next
<1>1. PICK B : B = {x \in completeJob.batch : Exists(x)}
  OBVIOUS
<1>2. /\ B \in SUBSET Bookings /\ row \in [Bookings -> Row]
      /\ \A x \in Bookings : row'[x] = IF x \in B THEN [row[x] EXCEPT !.status = COMPLETED] ELSE row[x]
      /\ \A x \in B : row[x].status = CONFIRMED
  BY <1>1, CompleteWrites DEF IInv, TypeOK
<1>3. \A x \in B : row'[x].status = COMPLETED /\ row'[x].isViewed = row[x].isViewed
  BY <1>2, ZenonT(40) DEF Row
<1>4. \A x \in B : Stage(row[x]) \in {"confirmed"} /\ Stage(row'[x]) = "completed"
  BY <1>2, <1>3, StageOfStatus
<1>5. {x \in Bookings : row'[x].isViewed} = {x \in Bookings : row[x].isViewed}
  BY <1>2, <1>3
<1>6. Workflow!Complete(B)
  BY <1>2, <1>4, <1>5, ManyMove DEF Workflow!Complete
<1> QED
  BY <1>2, <1>6 DEF Workflow!Next

LEMMA EraseIsErase ==
    ASSUME IInv, Serial, NEW u \in Users, HardDeleteAccount(u)
    PROVE  Workflow!Next
<1>1. PICK gone, B : /\ gone = [EmptyRow EXCEPT !.status = "erased"]
                     /\ B = {x \in Bookings : u \in {row[x].babysitterId, row[x].parentId}}
  OBVIOUS
<1>2. /\ gone.status = "erased" /\ ~gone.isViewed /\ B \in SUBSET Bookings /\ u # None
      /\ \A x \in Bookings : row'[x] = IF x \in B THEN gone ELSE row[x]
  BY <1>1 DEF EmptyRow, HardDeleteAccount, Users
<1>3. \A x \in B : row[x].status \in BookingStatus
  BY <1>1, <1>2 DEF Serial, RowAgrees, EmptyRow, IInv, TypeOK, Row, NoRow
<1>4. \A x \in B : Stage(row[x]) \in Workflow!Stages \ {"none"} /\ Stage(row'[x]) = "erased"
  BY <1>2, <1>3, StoredStands, StageOfStatus
<1>5. {x \in Bookings : row'[x].isViewed} = {x \in Bookings : row[x].isViewed} \ B
  BY <1>2
<1>6. Workflow!Erase(B)
  BY <1>2, <1>4, <1>5, ManyMove DEF Workflow!Erase
<1> QED
  BY <1>2, <1>6 DEF Workflow!Next

\* Every step of the code is one of the workflow's or changes nothing in it.
LEMMA StepIsWorkflow ==
    ASSUME ~Overlap, IInv, Serial, [Next]_vars
    PROVE  [Workflow!Next]_Workflow!vars
<1>1. ASSUME row' = row PROVE UNCHANGED Workflow!vars
  BY <1>1 DEF Workflow!vars
<1> QED
  BY <1>1, CreateIsCreate, ViewIsView, ReadIsSerial, LoadIsSerial, UpdateIsAnswer, SelectIsSerial,
     RejectIsExpire, CompleteIsComplete, EraseIsErase, OthersAreSerial DEF Next

\* When operations on a booking do not overlap, the requests cut at their round
\* trips, the jobs and the cascades implement the workflow in which every
\* operation takes effect at once.
THEOREM SerialIsWorkflow == ~Overlap => (Spec => WorkflowSpec)
<1> SUFFICES ASSUME ~Overlap PROVE Spec => WorkflowSpec
  OBVIOUS
<1>1. Init => Workflow!Init
  <2> SUFFICES ASSUME Init PROVE Workflow!Init
    OBVIOUS
  <2>1. \A b \in Bookings : Stage(row[b]) = "none" /\ ~row[b].isViewed
    BY StageOfStatus DEF Init, EmptyRow
  <2> QED
    BY <2>1 DEF Workflow!Init
<1>2. IInv /\ Serial /\ [Next]_vars => [Workflow!Next]_Workflow!vars
  BY StepIsWorkflow
<1>3. Spec => [](IInv /\ Serial)
  BY SerialInductive
<1> QED
  BY <1>1, <1>2, <1>3, PTL DEF Spec, WorkflowSpec, Workflow!Spec
=============================================================================
