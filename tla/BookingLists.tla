----------------------------- MODULE BookingLists -----------------------------
(***************************************************************************)
(* What booking-svc shows of the bookings, and what a booking costs.  The  *)
(* rows come with the tables db; who asks is a user me with its role.      *)
(***************************************************************************)
EXTENDS Queries, Integers

\* Columns and relations of the details are left out where nothing depends on
\* them; parents and babysitters are joined, so a deleted one has no code.
CodeOf(db, userId) == {u.userCode : u \in {v \in Undeleted(db.users) : v.id = userId}}
Mine(b, me) ==
    CASE me.role = "parent" -> b.parentId = me.id
      [] me.role = "babysitter" -> b.babysitterId = me.id
      [] OTHER -> TRUE
Page(rows, query) == getPagination(NewestFirst(rows), query.page, query.limit)

\* For admins: what is no draft, all or by the code of the booking or a party.
Found(db, b, q) ==
    q = b.bookCode \/ q \in CodeOf(db, b.parentId) \cup CodeOf(db, b.babysitterId)
getBookings(db, query) ==
    Page({b \in db.bookings : b.status # "DRAFT" /\ (query.q = "" \/ Found(db, b, query.q))}, query)

getUserBookings(db, me, query) ==
    Page({b \in db.bookings : Mine(b, me) /\ (query.status = {} \/ b.status \in query.status)}, query)

\* The times of a calendar that lie in the period altogether.
getBookingSchedules(db, me, period) ==
    {t \in db.bookingTimes :
        /\ period.from <= t.startTime /\ t.endTime <= period.to
        /\ \E b \in db.bookings : /\ b.id = t.bookingId /\ Mine(b, me)
                                  /\ b.status \in {"CONFIRMED", "COMPLETED"}}

\* The confirmed bookings of two users, the oldest first.
getBookingWithPartner(db, me, partnerId, query) ==
    LET babysitterId == IF me.role = "babysitter" THEN me.id ELSE partnerId
        parentId == IF me.role = "babysitter" THEN partnerId ELSE me.id
        rows == {b \in db.bookings : /\ b.babysitterId = babysitterId /\ b.parentId = parentId
                                     /\ b.status = "CONFIRMED"}
    IN getPagination(Reverse(NewestFirst(rows)), query.page, query.limit)

----------------------------------------------------------------------------
(* One booking, and what is new to a babysitter. *)

\* By its id, by its code, or the newest draft for a babysitter, of any parent.
getBookingDetail(db, key) ==
    CASE key.by = "id" -> {b \in db.bookings : b.id = key.value}
      [] key.by = "bookCode" -> {b \in db.bookings : b.bookCode = key.value}
      [] key.by = "babysitter" ->
            LET drafts == {b \in db.bookings : b.babysitterId = key.value /\ b.status = "DRAFT"}
            IN {b \in drafts : \A c \in drafts : c.createdAt <= b.createdAt}
\* The babysitter's own look at it marks it, for good.
ViewDetail(db, me, b) ==
    [db EXCEPT !.bookings = {IF c = b /\ me.role = "babysitter" /\ me.id = b.babysitterId
                             THEN [c EXCEPT !.isViewed = TRUE] ELSE c : c \in @}]
countConfirmedBookingCancellations(db, babysitterId) ==
    Cardinality({b \in db.bookings : /\ b.babysitterId = babysitterId /\ b.status = "BABY_SITTER_CANCEL"
                                     /\ b.isReject = "false"})

getBookingNotifications(db, me, status) ==
    LET rows == {b \in db.bookings : b.babysitterId = me.id /\ b.status \in status /\ ~b.isViewed}
    IN IF "PENDING" \in status THEN Reverse(NewestFirst(rows))
       ELSE SetToSortSeq(rows, LAMBDA b, c : b.canceledAt > c.canceledAt)

\* A child's age is told in years from the fourth birthday on; in months.
calculateAge(months) ==
    IF months >= 48 THEN [type |-> "year", age |-> months \div 12] ELSE [type |-> "month", age |-> months]

\* The gateway's own reckoning, of the birthday the age is asked for: the first
\* of a month.
getAgeOfChild(years, mob, currentMonth) ==
    IF years < 4 THEN [type |-> "month", age |-> 12 * years + currentMonth - mob]
    ELSE [type |-> IF years < 6 THEN "year" ELSE "year or more",
          age |-> IF mob > currentMonth THEN years - 1 ELSE years]

\* The price of slots in half hours: a break takes an hour off each that has
\* one.  Math.round takes a half up.
calculateSalary(baseSalary, slots) ==
    LET paid(s) == s.end - s.start - (IF s.hasBreakTime THEN 2 ELSE 0)
    IN (baseSalary * SumFunction([i \in DOMAIN slots |-> paid(slots[i])]) + 1) \div 2

----------------------------------------------------------------------------
(* Checked by evaluation, for all small tables of each kind. *)

BookingStatuses == {"DRAFT", "PENDING", "CONFIRMED", "COMPLETED", "PARENT_CANCEL"}
Booking(id, parent, sitter, status) ==
    [id |-> id, bookCode |-> ToString(id), parentId |-> parent, babysitterId |-> sitter, status |-> status,
     isReject |-> "null", isViewed |-> FALSE, createdAt |-> id, canceledAt |-> 10 + id]
BookingTable ==
    {{Booking(id, owner[id][1], owner[id][2], status[id]) : id \in 1..2} :
        owner \in [1..2 -> {1, 2} \X {3, 4}], status \in [1..2 -> BookingStatuses]}
Parties(deleted) ==
    {[id |-> u, userCode |-> "u" \o ToString(u), deleted |-> u \in deleted] : u \in 1..4}
Me(id) == [id |-> id, role |-> IF id <= 2 THEN "parent" ELSE "babysitter"]
Whole == [page |-> 1, limit |-> 9, status |-> {}, q |-> ""]

\* What a booking's parties and the admin list agrees: every booking is with its
\* parent, its babysitter and, but for a draft, the admin; a search by the code
\* of a party gives what that party lists, as long as its account is there.
ASSUME ListsOfBookingsAgree ==
    \A bookings \in BookingTable, deleted \in {{}, {1}} :
        LET db == [bookings |-> bookings, users |-> Parties(deleted)]
            listed(u) == ToSet(getUserBookings(db, Me(u), Whole).results)
            drafts == {b \in bookings : b.status = "DRAFT"} IN
        /\ listed(1) \cup listed(2) = bookings /\ listed(3) \cup listed(4) = bookings
        /\ listed(1) \cap listed(2) = {} /\ listed(3) \cap listed(4) = {}
        /\ ToSet(getBookings(db, Whole).results) = bookings \ drafts
        /\ \A u \in 1..4 :
             ToSet(getBookings(db, [Whole EXCEPT !.q = "u" \o ToString(u)]).results)
               = IF u \in deleted THEN {} ELSE listed(u) \ drafts
        /\ \A u \in {1, 2}, v \in {3, 4} :
             getBookingWithPartner(db, Me(u), v, Whole) = getBookingWithPartner(db, Me(v), u, Whole)

\* A draft that one parent asks for is that of the newest draft of all parents: hers only if
\* nobody else has drafted one for that babysitter since.
ASSUME DraftsAreOfAnyParent ==
    \A bookings \in BookingTable : \A b \in bookings :
        b.status = "DRAFT" =>
            (b \in getBookingDetail([bookings |-> bookings], [by |-> "babysitter", value |-> b.babysitterId])
             <=> ~\E c \in bookings : /\ c.babysitterId = b.babysitterId /\ c.status = "DRAFT"
                                      /\ c.createdAt > b.createdAt)

\* Of two periods that meet, both or neither list a time: the one that lies in it, neither
\* of them a time that begins in one and ends in the other.
ASSUME CrossingTimesAreInNoPeriod ==
    \A start, length, cut \in 1..4 :
        LET slot == [id |-> 1, bookingId |-> 1, startTime |-> start, endTime |-> start + length]
            db == [bookings |-> {Booking(1, 1, 3, "CONFIRMED")}, bookingTimes |-> {slot}]
            shown(from, to) == slot \in getBookingSchedules(db, Me(3), [from |-> from, to |-> to]) IN
        /\ shown(1, 8)
        /\ (shown(1, cut) \/ shown(cut, 8)) <=> ~(start < cut /\ cut < start + length)
        /\ ~(shown(1, cut) /\ shown(cut, 8))

\* A cancellation is among what is new to the babysitter exactly if she had not
\* looked at the booking while it was pending, or confirmed.
ASSUME SeenOnceIsNeverNew ==
    \A viewed \in BOOLEAN, viewer \in 1..4 :
        LET booking == Booking(1, 1, 3, "PENDING")
            db == [bookings |-> {booking}]
            later == IF viewed THEN ViewDetail(db, Me(viewer), booking) ELSE db
            canceled == [later EXCEPT !.bookings = {[b EXCEPT !.status = "PARENT_CANCEL"] : b \in @}]
        IN getBookingNotifications(canceled, Me(3), {"PARENT_CANCEL"}) = <<>> <=> viewed /\ viewer = 3

\* The age that is shown never goes back as a child grows, in months or in years.
ASSUME ChildrenGrow ==
    \A months \in 0..120 :
        LET now == calculateAge(months) IN
        LET next == calculateAge(months + 1)
            inMonths(a) == IF a.type = "year" THEN 12 * a.age ELSE a.age
        IN inMonths(now) <= inMonths(next) /\ inMonths(next) <= months + 1

\* A parent choosing a child's birthday is told the age her bookings will show, but for the
\* children of three whose fourth birthday is later this year, and "or more" from six.
ASSUME AgesAreToldAlike ==
    \A years \in 0..8 : \A mob, currentMonth \in 1..12 :
        LET told == getAgeOfChild(years, mob, currentMonth) IN
        LET shown == calculateAge(12 * years + currentMonth - mob) IN
        /\ told.age = shown.age <=> ~(years = 4 /\ mob > currentMonth)
        /\ (years < 6 /\ told.age = shown.age) => told = shown

Slot(start, end, hasBreakTime) == [start |-> start, end |-> end, hasBreakTime |-> hasBreakTime]

\* A slot costs the same as its two halves.  A booking costs less than nothing only if it has
\* a slot shorter than its break.
ASSUME PricesAddUp ==
    \A length \in 1..4, cut \in 1..3, hasBreakTime \in BOOLEAN, baseSalary \in {0, 2, 3} :
        LET whole == Slot(0, length, hasBreakTime)
            price(slots) == calculateSalary(baseSalary, slots) IN
        /\ cut < length =>
             price(<<whole>>) = price(<<Slot(0, cut, hasBreakTime), Slot(cut, length, FALSE)>>)
        /\ price(<<whole>>) < 0 => hasBreakTime /\ length < 2
=============================================================================
