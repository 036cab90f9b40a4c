---------------------------- MODULE BookingTimers ----------------------------
(***************************************************************************)
(* The clock of one request to confirm a booking: the countdown the entity *)
(* computes when it is loaded, and the hourly jobs of cron-svc that select *)
(* requests by the time that remains.  Each job starts at its own minute   *)
(* of the hour, once, and only on a process that is up at that minute; a   *)
(* run that was missed is not made up for.  Bookings do not influence each *)
(* other here, so one is modelled; what the jobs do round trip by round    *)
(* trip is in BookingLifecycle.                                            *)
(***************************************************************************)
EXTENDS Integers, FiniteSets

CONSTANTS
    Quarter,        \* ticks of the clock in a quarter of an hour
    SlotOffsets,    \* ticks from creation to the earliest working time
    None,           \* a booking without working times
    MaxNow,         \* bound: the last tick
    MaxDowns        \* bound: how often the cron process goes down

Hour == 4 * Quarter

ASSUME QuarterAssumption == Quarter \in Nat \ {0}
\* The gateway refuses a working time that starts within the hour.
ASSUME SlotAssumption ==
    SlotOffsets \subseteq {o \in Nat : o >= Hour} /\ None \notin Nat

ASSUME BoundAssumption == MaxNow \in Nat /\ MaxDowns \in Nat

VARIABLES
    now,            \* the current tick
    minute,         \* the tick within the hour
    status,         \* none, pending, answered or expired
    createdAt,      \* the tick of creation
    startTime,      \* the earliest bookingTime, None for a booking without
    up,             \* whether the cron process runs
    downs,          \* how often it went down
    ran,            \* the jobs that cannot start any more at this tick
    sent,           \* history: sent[j] are the ticks at which j sent its notice
    missed          \* history: runs of the expiry job missed after the deadline

vars == <<now, minute, status, createdAt, startTime, up, downs, ran, sent,
          missed>>

----------------------------------------------------------------------------
(* The countdown. *)

durationTimeToConfirm == 48 * Hour

\* A slot that starts sooner shortens the window.
EffectiveDuration ==
    IF startTime # None /\ startTime - createdAt < durationTimeToConfirm
    THEN startTime - createdAt ELSE durationTimeToConfirm

Deadline == createdAt + EffectiveDuration

NotBelow(x, least) == IF x < least THEN least ELSE x

RemainingUnclamped(t) == EffectiveDuration - (t - createdAt)    \* a mutant
remainingTime(t) == NotBelow(EffectiveDuration - (t - createdAt), 0)

----------------------------------------------------------------------------
(* The jobs. *)

reminder3  == "reminderConfirmBookingWhen3HoursLeft"
reminder23 == "reminderConfirmBookingWhen23HoursLeft"
rejected   == "rejectedBookingAfter48Hours"

Reminders == {reminder3, reminder23}
Jobs      == Reminders \cup {rejected}

\* The hours each job passes to getReminderBooking.
TimeRemain(j) == CASE j = reminder3  -> 3
                   [] j = reminder23 -> 16
                   [] j = rejected   -> 0

\* The tick of the hour at which the default schedule starts each job.
Minute(j) == CASE j = reminder3  -> 0
               [] j = reminder23 -> Quarter
               [] j = rejected   -> 2 * Quarter

StartingJobs == {j \in Jobs : minute = Minute(j)}

\* getReminderBooking; the inner join drops a booking without times.
SelectedAtBothEnds(j) ==                                        \* a mutant
    /\ status = "pending"
    /\ startTime # None
    /\ remainingTime(now) >= (TimeRemain(j) - 1) * Hour
    /\ remainingTime(now) <= TimeRemain(j) * Hour
SelectedInside(j) ==                                            \* a mutant
    /\ status = "pending"
    /\ startTime # None
    /\ remainingTime(now) > (TimeRemain(j) - 1) * Hour
    /\ remainingTime(now) < NotBelow(TimeRemain(j) * Hour, 1)
SelectedEarly(j) ==                                             \* a mutant
    /\ status = "pending"
    /\ startTime # None
    /\ remainingTime(now) <= (TimeRemain(j) + 1) * Hour
Selected(j) ==
    /\ status = "pending"
    /\ startTime # None
    /\ remainingTime(now) > (TimeRemain(j) - 1) * Hour
    /\ remainingTime(now) <= TimeRemain(j) * Hour

----------------------------------------------------------------------------
Init ==
    /\ now = 0
    /\ minute = 0
    /\ status = "none"
    /\ createdAt = 0
    /\ startTime = None
    /\ up = TRUE
    /\ downs = 0
    /\ ran = {}
    /\ sent = [j \in Jobs |-> {}]
    /\ missed = 0

\* The hours of the schedule are alike, so creation is in the first.
Create ==
    /\ status = "none"
    /\ now < Hour
    /\ status' = "pending"
    /\ createdAt' = now
    /\ startTime' \in {now + o : o \in SlotOffsets} \cup {None}
    /\ UNCHANGED <<now, minute, up, downs, ran, sent, missed>>

\* Confirming and cancelling do not look at the time that remains.
Answer ==
    /\ status = "pending"
    /\ status' = "answered"
    /\ UNCHANGED <<now, minute, createdAt, startTime, up, downs, ran, sent, missed>>

StartJob(j) ==
    /\ up
    /\ j \in StartingJobs \ ran
    /\ ran' = ran \cup {j}
    /\ IF Selected(j)
       THEN /\ sent' = [sent EXCEPT ![j] = @ \cup {now}]
            /\ status' = IF j = rejected THEN "expired" ELSE status
       ELSE UNCHANGED <<sent, status>>
    /\ UNCHANGED <<now, minute, createdAt, startTime, up, downs, missed>>

\* 1 when the expiry job should have started at this tick, and did not, with
\* the request overdue.
Overlooked ==
    IF /\ rejected \in StartingJobs \ ran
       /\ status = "pending"
       /\ now >= Deadline
    THEN 1 ELSE 0

\* A running process starts every job at its tick.  The clock stops with the
\* request: no job selects one that was answered or has expired.
Tick ==
    /\ now < MaxNow
    /\ status = "pending" \/ (status = "none" /\ now + 1 < Hour)
    /\ up => StartingJobs \subseteq ran
    /\ now' = now + 1
    /\ minute' = IF minute + 1 = Hour THEN 0 ELSE minute + 1
    /\ ran' = {}
    /\ missed' = missed + Overlooked
    /\ UNCHANGED <<status, createdAt, startTime, up, downs, sent>>

GoDown ==
    /\ up
    /\ downs < MaxDowns
    /\ up' = FALSE
    /\ downs' = downs + 1
    /\ UNCHANGED <<now, minute, status, createdAt, startTime, ran, sent, missed>>

\* onModuleInit registers the jobs; a tick that is under way has passed.
ComeUp ==
    /\ ~up
    /\ up' = TRUE
    /\ ran' = ran \cup StartingJobs
    /\ missed' = missed + Overlooked
    /\ UNCHANGED <<now, minute, status, createdAt, startTime, downs, sent>>

Next ==
    \/ Create \/ Answer \/ Tick \/ GoDown \/ ComeUp
    \/ \E j \in Jobs : StartJob(j)

Spec == Init /\ [][Next]_vars

----------------------------------------------------------------------------
\* Types; the countdown of a pending request is between nothing and the full
\* window, also long after it ran out (the entity clamps it at zero).
TypeOK ==
    /\ now \in Nat /\ minute \in 0..(Hour - 1)
    /\ status \in {"none", "pending", "answered", "expired"}
    /\ createdAt \in 0..now
    /\ startTime \in {createdAt + o : o \in SlotOffsets} \cup {None}
    /\ up \in BOOLEAN
    /\ downs \in 0..MaxDowns
    /\ ran \subseteq Jobs
    /\ sent \in [Jobs -> SUBSET (createdAt..now)]
    /\ missed \in Nat
    /\ status = "pending" => remainingTime(now) \in 0..durationTimeToConfirm

\* A babysitter gets each reminder of a request at most once, although the
\* job that sends it keeps no record of it: hourly runs and windows of one
\* hour that are open at one end fit together (getReminderBooking).
RemindedOnce == \A j \in Reminders : Cardinality(sent[j]) <= 1

\* While the process stays up no reminder is left out: a request that was
\* still pending when the hour of a reminder was over has got it.
ReminderNotSkipped ==
    \A j \in Reminders :
      /\ status = "pending" /\ startTime # None /\ downs = 0
      /\ EffectiveDuration > TimeRemain(j) * Hour
      /\ remainingTime(now) <= (TimeRemain(j) - 1) * Hour
      => sent[j] # {}

\* A request with working times outlives its deadline by less than an hour
\* for the next run of the expiry job and one for each run that was missed: a
\* run that finds an overdue request takes it, however late it is.
ExpiresInTime ==
    status = "pending" /\ startTime # None /\ now >= Deadline =>
      now - Deadline < Hour * (1 + missed)

\* A reminder leaves the babysitter the hours it is named for less one before
\* the expiry job takes the request, which it never does before the deadline.
TimeToAnswer ==
    status = "expired" =>
      /\ now >= Deadline
      /\ \A j \in Reminders : \A t \in sent[j] : now - t > (TimeRemain(j) - 1) * Hour

\* The reminder to confirm before 23 hours is sent when between 22 and 23
\* hours are left, as its job and its notification are named.
Reminder23IsSentInTime ==
    \A t \in sent[reminder23] : Deadline - t > 22 * Hour
=============================================================================
