-------------------------- MODULE BookingTimerProofs --------------------------
(***************************************************************************)
(* Proofs of what BookingTimers states, for every number of ticks in an    *)
(* hour, all working times the gateway admits and any outages.             *)
(***************************************************************************)
EXTENDS BookingTimers, FiniteSetTheorems, TLAPS

\* The tick at which j can start next.
NextRun(j) ==
    IF minute < Minute(j) \/ (minute = Minute(j) /\ j \notin ran)
    THEN now - minute + Minute(j) ELSE now - minute + Minute(j) + Hour

\* A notice was sent inside the window of its job, one run at least before
\* the next one.
SentInv ==
    \A j \in Reminders : \A t \in sent[j] :
      /\ Deadline - t > (TimeRemain(j) - 1) * Hour
      /\ Deadline - t <= TimeRemain(j) * Hour
      /\ t + Hour <= NextRun(j)

OnceInv == \A j \in Reminders : \A t, u \in sent[j] : t = u

\* A reminder that is still to be sent has its next run inside the window.
AheadInv ==
    \A j \in Reminders :
      /\ status = "pending" /\ startTime # None /\ downs = 0
      /\ EffectiveDuration > TimeRemain(j) * Hour
      /\ sent[j] = {}
      => Deadline - NextRun(j) > (TimeRemain(j) - 1) * Hour

\* The next run of the expiry job is the first after the deadline that was
\* not missed.
DueInv ==
    status = "pending" /\ startTime # None =>
      NextRun(rejected) < Deadline + Hour * (1 + missed)

TimerInv ==
    /\ TypeOK
    /\ ran \subseteq StartingJobs
    /\ downs = 0 => up
    /\ status = "none" => missed = 0 /\ \A j \in Jobs : sent[j] = {}
    /\ status = "expired" => now >= Deadline
    /\ SentInv /\ OnceInv /\ AheadInv /\ DueInv

----------------------------------------------------------------------------
LEMMA HourFacts == Quarter \in Nat \ {0} /\ Hour = 4 * Quarter /\ Hour \in Nat \ {0}
BY QuarterAssumption DEF Hour

USE HourFacts, BoundAssumption

LEMMA JobNames ==
  /\ Jobs = {reminder3, reminder23, rejected}
  /\ Reminders = {reminder3, reminder23}
  /\ reminder3 # reminder23 /\ reminder3 # rejected /\ reminder23 # rejected
BY DEF Jobs, Reminders, reminder3, reminder23, rejected

\* The schedule: every job starts once an hour, and its hours are few.
LEMMA JobFacts ==
  /\ \A j \in Jobs : Minute(j) \in 0..(Hour - 1)
  /\ TimeRemain(reminder3) = 3 /\ TimeRemain(reminder23) = 16
  /\ TimeRemain(rejected) = 0
  /\ Hour >= 4
BY JobNames DEF Minute, TimeRemain

\* The window to confirm is at least the hour every working time keeps.
LEMMA DeadlineFacts ==
  ASSUME TypeOK
  PROVE  /\ EffectiveDuration \in Hour..durationTimeToConfirm
         /\ Deadline \in Nat
         /\ Deadline = createdAt + EffectiveDuration
BY SlotAssumption DEF TypeOK, EffectiveDuration, Deadline, durationTimeToConfirm

LEMMA NextRunFacts ==
  ASSUME TypeOK, NEW j \in Jobs
  PROVE  /\ NextRun(j) \in Int /\ NextRun(j) >= now /\ NextRun(j) <= now + Hour
         /\ NextRun(j) = now <=> j \in StartingJobs \ ran
         /\ j \in StartingJobs \ ran <=> minute = Minute(j) /\ j \notin ran
<1>1. /\ Minute(j) \in 0..(Hour - 1) /\ minute \in 0..(Hour - 1)
      /\ now \in Nat /\ Hour \in Nat
  BY JobFacts DEF TypeOK
<1>2. j \in StartingJobs <=> minute = Minute(j)
  BY DEF StartingJobs
<1> QED
  BY <1>1, <1>2 DEF NextRun

\* The clock moves the next run of a job only when it passes the run.
LEMMA NextRunAfterTick ==
  ASSUME TypeOK, Tick, NEW j \in Jobs
  PROVE  NextRun(j)' = IF j \in StartingJobs \ ran THEN NextRun(j) + Hour ELSE NextRun(j)
<1>1. /\ Minute(j) \in 0..(Hour - 1) /\ minute \in 0..(Hour - 1)
      /\ now \in Nat /\ Hour \in Nat
  BY JobFacts DEF TypeOK
<1>2. /\ now' = now + 1 /\ ran' = {}
      /\ minute' = IF minute + 1 = Hour THEN 0 ELSE minute + 1
  BY DEF Tick
<1>3. j \in StartingJobs \ ran <=> minute = Minute(j) /\ j \notin ran
  BY NextRunFacts
<1>4. Minute(j)' = Minute(j)
  BY DEF Minute
<1> DEFINE m == Minute(j)
<1>5. m \in 0..(Hour - 1)
  BY <1>1
<1>6. NextRun(j)' = IF minute' < m \/ minute' = m
                    THEN now' - minute' + m ELSE now' - minute' + m + Hour
  BY <1>2, <1>4 DEF NextRun
<1>7. NextRun(j) = IF minute < m \/ (minute = m /\ j \notin ran)
                   THEN now - minute + m ELSE now - minute + m + Hour
  BY DEF NextRun
<1> HIDE DEF m
<1>8. CASE minute + 1 = Hour
  BY <1>1, <1>2, <1>3, <1>5, <1>6, <1>7, <1>8 DEF m
<1>9. CASE minute + 1 # Hour
  BY <1>1, <1>2, <1>3, <1>5, <1>6, <1>7, <1>9 DEF m
<1> QED
  BY <1>8, <1>9

\* A job that starts, or whose tick passes while the process comes up, is due
\* again an hour later.
LEMMA NextRunAfterRun ==
  ASSUME TypeOK, NEW j \in Jobs, UNCHANGED <<now, minute>>, ran \subseteq ran'
  PROVE  NextRun(j)' = IF j \in (StartingJobs \ ran) \cap ran'
                       THEN NextRun(j) + Hour ELSE NextRun(j)
<1>1. Minute(j)' = Minute(j)
  BY DEF Minute
<1>2. j \in StartingJobs \ ran <=> minute = Minute(j) /\ j \notin ran
  BY NextRunFacts
<1>3. /\ Minute(j) \in 0..(Hour - 1) /\ minute \in 0..(Hour - 1)
      /\ now \in Nat /\ Hour \in Nat
  BY JobFacts DEF TypeOK
<1> QED
  BY <1>1, <1>2, <1>3 DEF NextRun

LEMMA TimerInit == Init => TimerInv
<1> SUFFICES ASSUME Init PROVE TimerInv
  OBVIOUS
<1>1. TypeOK
  BY DEF Init, TypeOK
<1>2. SentInv /\ OnceInv
  BY JobNames DEF Init, SentInv, OnceInv
<1> QED
  BY <1>1, <1>2 DEF Init, TimerInv, AheadInv, DueInv

\* Types.
LEMMA TimerType ==
  ASSUME TimerInv, [Next]_vars
  PROVE  TypeOK'
<1> DEFINE Common == /\ now' \in Nat /\ minute' \in 0..(Hour - 1)
                     /\ status' \in {"none", "pending", "answered", "expired"}
                     /\ createdAt' \in 0..now'
                     /\ startTime' \in {createdAt' + o : o \in SlotOffsets} \cup {None}
                     /\ up' \in BOOLEAN
                     /\ downs' \in 0..MaxDowns
                     /\ ran' \subseteq Jobs
                     /\ sent' \in [Jobs -> SUBSET (createdAt'..now')]
                     /\ missed' \in Nat
<1>1. ASSUME Common PROVE TypeOK'
  <2>1. startTime' = None \/ (startTime' \in Nat /\ startTime' - createdAt' >= Hour)
    BY <1>1, SlotAssumption
  <2>2. durationTimeToConfirm' = durationTimeToConfirm
    BY DEF durationTimeToConfirm
  <2>3. EffectiveDuration' \in Hour..durationTimeToConfirm
    BY <1>1, <2>1 DEF EffectiveDuration, durationTimeToConfirm
  <2>4. remainingTime(now)' \in 0..durationTimeToConfirm
    <3>1. \A e \in 0..durationTimeToConfirm, n \in Nat : \A c \in 0..n :
            NotBelow(e - (n - c), 0) \in 0..durationTimeToConfirm
      BY DEF NotBelow, durationTimeToConfirm
    <3>2. EffectiveDuration' \in 0..durationTimeToConfirm
      BY <2>3
    <3>4. now' \in Nat /\ createdAt' \in 0..now'
      BY <1>1
    <3>3. remainingTime(now)' = NotBelow(EffectiveDuration' - (now' - createdAt'), 0)
      BY DEF remainingTime
    <3> QED
      BY <3>1, <3>2, <3>3, <3>4
  <2> QED
    BY <1>1, <2>2, <2>4 DEF TypeOK
<1> USE DEF TimerInv
<1>2. CASE Create
  <2>1. /\ now' = now /\ minute' = minute /\ status' = "pending" /\ createdAt' = now
        /\ startTime' \in {now + o : o \in SlotOffsets} \cup {None}
        /\ UNCHANGED <<up, downs, ran, sent, missed>>
        /\ \A j \in Jobs : sent[j] = {}
    BY <1>2 DEF Create
  <2>2. sent' \in [Jobs -> SUBSET (createdAt'..now')]
    BY <2>1 DEF TypeOK
  <2>3. Common
    BY <2>1, <2>2 DEF TypeOK
  <2> QED
    BY <1>1, <2>3
<1>3. CASE Answer
  <2>1. Common
    BY <1>3 DEF Answer, TypeOK
  <2> QED
    BY <1>1, <2>1
<1>4. CASE Tick
  <2>1. sent' \in [Jobs -> SUBSET (createdAt'..now')]
    BY <1>4 DEF Tick, TypeOK
  <2>2. missed' \in Nat
    BY <1>4 DEF Tick, Overlooked, TypeOK
  <2> QED
    BY <1>1, <1>4, <2>1, <2>2 DEF Tick, TypeOK
<1>5. CASE GoDown
  <2>1. downs' \in 0..MaxDowns
    <3>1. \A d \in 0..MaxDowns : d < MaxDowns => d + 1 \in 0..MaxDowns
      OBVIOUS
    <3> QED
      BY <1>5, <3>1 DEF GoDown, TypeOK
  <2>2. Common
    BY <1>5, <2>1 DEF GoDown, TypeOK
  <2> QED
    BY <1>1, <2>2
<1>6. CASE ComeUp
  <2>1. missed' \in Nat /\ ran' \subseteq Jobs
    BY <1>6 DEF ComeUp, Overlooked, StartingJobs, TypeOK
  <2> QED
    BY <1>1, <1>6, <2>1 DEF ComeUp, TypeOK
<1>7. ASSUME NEW j \in Jobs, StartJob(j) PROVE TypeOK'
  <2>1. sent' = [sent EXCEPT ![j] = @ \cup {now}] \/ sent' = sent
    BY <1>7 DEF StartJob
  <2>2. sent' \in [Jobs -> SUBSET (createdAt..now)]
    BY <2>1 DEF TypeOK
  <2>3. status' \in {"none", "pending", "answered", "expired"}
    BY <1>7 DEF StartJob, TypeOK
  <2> QED
    BY <1>1, <1>7, <2>2, <2>3 DEF StartJob, TypeOK
<1>8. CASE UNCHANGED vars
  BY <1>1, <1>8 DEF vars, TypeOK
<1> QED
  BY <1>2, <1>3, <1>4, <1>5, <1>6, <1>7, <1>8 DEF Next

----------------------------------------------------------------------------
(* The steps. *)

\* While the clock stands still the same jobs can start.
LEMMA SameJobs ==
  ASSUME UNCHANGED minute
  PROVE  StartingJobs' = StartingJobs
BY DEF StartingJobs, Jobs, Reminders, Minute

\* The deadline belongs to the request.
LEMMA SameDeadline ==
  ASSUME UNCHANGED <<createdAt, startTime>>
  PROVE  EffectiveDuration' = EffectiveDuration /\ Deadline' = Deadline
BY DEF EffectiveDuration, Deadline, durationTimeToConfirm

LEMMA SameNextRun ==
  ASSUME UNCHANGED <<now, minute, ran>>
  PROVE  \A j \in Jobs : NextRun(j)' = NextRun(j)
BY DEF NextRun, Minute

LEMMA CreateTimer ==
  ASSUME TimerInv, TypeOK', Create
  PROVE  TimerInv'
<1> USE DEF TimerInv
<1>1. /\ UNCHANGED <<now, minute, up, downs, ran, sent, missed>>
      /\ status' = "pending" /\ createdAt' = now /\ missed = 0
      /\ startTime' \in {now + o : o \in SlotOffsets} \cup {None}
      /\ \A j \in Jobs : sent[j] = {}
  BY DEF Create
<1>2. PICK e \in Hour..durationTimeToConfirm : EffectiveDuration' = e
  <2>1. startTime' = None \/ (startTime' \in Nat /\ startTime' - now >= Hour)
    BY <1>1, SlotAssumption DEF TypeOK
  <2>2. \A n : \A x : (x = None \/ (x \in Nat /\ n \in Nat /\ x - n >= Hour)) =>
          (IF x # None /\ x - n < durationTimeToConfirm
           THEN x - n ELSE durationTimeToConfirm) \in Hour..durationTimeToConfirm
    BY DEF durationTimeToConfirm
  <2> QED
    BY <1>1, <2>1, <2>2 DEF EffectiveDuration, durationTimeToConfirm, TypeOK
<1>3. Deadline' = now + e
  BY <1>1, <1>2 DEF Deadline
<1>4. \A j \in Jobs : /\ NextRun(j)' = NextRun(j)
                      /\ NextRun(j) \in Int /\ NextRun(j) <= now + Hour
  BY <1>1, SameNextRun, NextRunFacts
<1>5. SentInv' /\ OnceInv'
  BY <1>1 DEF SentInv, OnceInv, Jobs
<1>6. AheadInv'
  <2>1. \A j \in Reminders : e > TimeRemain(j) * Hour =>
          now + e - NextRun(j) > (TimeRemain(j) - 1) * Hour
    BY <1>4, JobFacts, JobNames DEF TypeOK, durationTimeToConfirm
  <2>2. \A j \in Reminders : TimeRemain(j)' = TimeRemain(j)
    BY DEF TimeRemain
  <2>3. \A j \in Reminders : j \in Jobs
    BY DEF Jobs
  <2>4. SUFFICES ASSUME NEW j \in Reminders, e > TimeRemain(j) * Hour
                 PROVE  Deadline' - NextRun(j)' > (TimeRemain(j) - 1) * Hour
    BY <1>2, <2>2 DEF AheadInv
  <2>5. now + e - NextRun(j) > (TimeRemain(j) - 1) * Hour
    BY <2>1, <2>4
  <2>6. NextRun(j)' = NextRun(j)
    BY <1>4, <2>3
  <2>7. /\ now \in Nat /\ NextRun(j) \in Int /\ e \in Nat
        /\ TimeRemain(j) \in {3, 16}
    BY <1>4, <2>3, JobFacts, JobNames DEF TypeOK, durationTimeToConfirm
  <2> QED
    BY <1>3, <2>5, <2>6, <2>7
<1>7. DueInv'
  <2>1. NextRun(rejected) < now + e + Hour * (1 + 0)
    BY <1>4, JobNames DEF TypeOK, durationTimeToConfirm
  <2>2. NextRun(rejected)' = NextRun(rejected)
    BY <1>4, JobNames
  <2> QED
    BY <1>1, <1>3, <2>1, <2>2 DEF DueInv
<1>8. ran' \subseteq StartingJobs'
  BY <1>1, SameJobs
<1> QED
  BY <1>1, <1>5, <1>6, <1>7, <1>8

\* An answer, or the process going down: the clock, the jobs and the notices
\* stay, and what the properties say of a pending request has fewer of them.
LEMMA QuietTimer ==
  ASSUME TimerInv, TypeOK', Answer \/ GoDown \/ UNCHANGED vars
  PROVE  TimerInv'
<1> USE DEF TimerInv
<1>1. /\ UNCHANGED <<now, minute, createdAt, startTime, ran, sent, missed>>
      /\ status' = status \/ (status = "pending" /\ status' = "answered")
      /\ (up' = up /\ downs' = downs) \/ downs' = downs + 1
  BY DEF Answer, GoDown, vars
<1>2. /\ EffectiveDuration' = EffectiveDuration /\ Deadline' = Deadline
      /\ \A j \in Jobs : NextRun(j)' = NextRun(j)
      /\ StartingJobs' = StartingJobs
  BY <1>1, SameNextRun, SameDeadline, SameJobs
<1>3. \A j \in Reminders : j \in Jobs /\ TimeRemain(j)' = TimeRemain(j)
  BY DEF Jobs, TimeRemain
<1>4. SentInv' /\ OnceInv'
  BY <1>1, <1>2, <1>3 DEF SentInv, OnceInv
<1>5. downs' = 0 => downs = 0 /\ up' = up
  BY <1>1 DEF TypeOK
<1>6. AheadInv'
  BY <1>1, <1>2, <1>3, <1>5 DEF AheadInv
<1>7. DueInv'
  BY <1>1, <1>2, JobNames DEF DueInv
<1> QED
  BY <1>1, <1>2, <1>4, <1>5, <1>6, <1>7

\* The clock passes a tick: a job that did not start at it, because the process
\* was down, is due an hour later.
LEMMA TickTimer ==
  ASSUME TimerInv, TypeOK', Tick
  PROVE  TimerInv'
<1> USE DEF TimerInv
<1>1. /\ UNCHANGED <<status, createdAt, startTime, up, downs, sent>>
      /\ now' = now + 1 /\ ran' = {} /\ missed' = missed + Overlooked
      /\ status \in {"none", "pending"}
      /\ up => StartingJobs \subseteq ran
  BY DEF Tick
<1>2. EffectiveDuration' = EffectiveDuration /\ Deadline' = Deadline
  BY <1>1, SameDeadline
<1>3. /\ Deadline \in Nat /\ now \in Nat /\ missed \in Nat
      /\ \A j \in Jobs : NextRun(j) \in Int /\ TimeRemain(j) \in Nat
  BY DeadlineFacts, NextRunFacts, JobFacts, JobNames DEF TypeOK
<1>4. \A j \in Jobs :
        /\ NextRun(j)' = NextRun(j) \/ NextRun(j)' = NextRun(j) + Hour
        /\ j \notin StartingJobs \ ran => NextRun(j)' = NextRun(j)
        /\ j \in StartingJobs \ ran => NextRun(j) = now
  BY NextRunAfterTick, NextRunFacts
<1>5. \A j \in Reminders : j \in Jobs /\ TimeRemain(j)' = TimeRemain(j)
  BY DEF Jobs, TimeRemain
<1>6. SentInv'
  <2> SUFFICES ASSUME NEW j \in Reminders, NEW t \in sent[j]
               PROVE  t + Hour <= NextRun(j)'
    BY <1>1, <1>2, <1>5 DEF SentInv
  <2>1. t + Hour <= NextRun(j) /\ t \in Nat
    BY <1>5 DEF SentInv, TypeOK
  <2> QED
    BY <1>3, <1>4, <1>5, <2>1
<1>7. OnceInv'
  BY <1>1 DEF OnceInv
<1>8. AheadInv'
  BY <1>1, <1>2, <1>4, <1>5 DEF AheadInv
<1>9. DueInv'
  <2> SUFFICES ASSUME status = "pending", startTime # None
               PROVE  NextRun(rejected)' < Deadline + Hour * (1 + missed')
    BY <1>1, <1>2 DEF DueInv
  <2>0. rejected \in Jobs
    BY JobNames
  <2>1. NextRun(rejected) < Deadline + Hour * (1 + missed)
    BY DEF DueInv
  <2>2. CASE rejected \notin StartingJobs \ ran
    BY <1>1, <1>3, <1>4, <2>0, <2>1, <2>2 DEF Overlooked
  <2>3. CASE rejected \in StartingJobs \ ran /\ now >= Deadline
    <3>1. missed' = missed + 1
      BY <1>1, <2>3 DEF Overlooked
    <3>2. NextRun(rejected)' = NextRun(rejected) + Hour
      BY <2>0, <2>3, NextRunAfterTick
    <3>3. Hour * (1 + (missed + 1)) = Hour * (1 + missed) + Hour
      BY <1>3
    <3> QED
      BY <1>3, <2>0, <2>1, <3>1, <3>2, <3>3
  <2>4. CASE rejected \in StartingJobs \ ran /\ ~(now >= Deadline)
    <3>1. missed' = missed
      BY <1>1, <1>3, <2>4 DEF Overlooked
    <3>2. NextRun(rejected)' = now + Hour
      BY <2>0, <2>4, <1>4, NextRunAfterTick
    <3>3. Hour * (1 + missed) >= Hour
      BY <1>3
    <3> QED
      BY <1>3, <2>4, <3>1, <3>2, <3>3
  <2> QED
    BY <2>2, <2>3, <2>4
<1>10. status = "none" => missed' = 0
  BY <1>1, <1>3 DEF Overlooked
<1> QED
  BY <1>1, <1>6, <1>7, <1>8, <1>9, <1>10

\* The process comes up: the jobs of the tick under way have missed it.
LEMMA ComeUpTimer ==
  ASSUME TimerInv, TypeOK', ComeUp
  PROVE  TimerInv'
<1> USE DEF TimerInv
<1>1. /\ UNCHANGED <<now, minute, status, createdAt, startTime, downs, sent>>
      /\ ran' = ran \cup StartingJobs /\ missed' = missed + Overlooked
      /\ up' = TRUE /\ downs # 0
  BY DEF ComeUp
<1>2. /\ EffectiveDuration' = EffectiveDuration /\ Deadline' = Deadline
      /\ StartingJobs' = StartingJobs
  BY <1>1, SameDeadline, SameJobs
<1>3. /\ Deadline \in Nat /\ now \in Nat /\ missed \in Nat
      /\ \A j \in Jobs : NextRun(j) \in Int
  BY DeadlineFacts, NextRunFacts DEF TypeOK
<1>4. \A j \in Jobs :
        /\ NextRun(j)' = IF j \in StartingJobs \ ran THEN NextRun(j) + Hour
                                                     ELSE NextRun(j)
        /\ j \in StartingJobs \ ran => NextRun(j) = now
  BY <1>1, NextRunAfterRun, NextRunFacts
<1>5. \A j \in Reminders : j \in Jobs /\ TimeRemain(j)' = TimeRemain(j)
  BY DEF Jobs, TimeRemain
<1>6. SentInv'
  <2> SUFFICES ASSUME NEW j \in Reminders, NEW t \in sent[j]
               PROVE  t + Hour <= NextRun(j)'
    BY <1>1, <1>2, <1>5 DEF SentInv
  <2>1. t + Hour <= NextRun(j) /\ t \in Nat
    BY <1>5 DEF SentInv, TypeOK
  <2> QED
    BY <1>3, <1>4, <1>5, <2>1
<1>7. OnceInv' /\ AheadInv'
  BY <1>1 DEF OnceInv, AheadInv
<1>8. DueInv'
  <2> SUFFICES ASSUME status = "pending", startTime # None
               PROVE  NextRun(rejected)' < Deadline + Hour * (1 + missed')
    BY <1>1, <1>2 DEF DueInv
  <2>0. rejected \in Jobs
    BY JobNames
  <2>1. NextRun(rejected) < Deadline + Hour * (1 + missed)
    BY DEF DueInv
  <2>2. CASE rejected \notin StartingJobs \ ran
    BY <1>1, <1>3, <1>4, <2>0, <2>1, <2>2 DEF Overlooked
  <2>3. CASE rejected \in StartingJobs \ ran /\ now >= Deadline
    <3>1. missed' = missed + 1
      BY <1>1, <2>3 DEF Overlooked
    <3>2. Hour * (1 + (missed + 1)) = Hour * (1 + missed) + Hour
      BY <1>3
    <3> QED
      BY <1>3, <1>4, <2>0, <2>1, <2>3, <3>1, <3>2
  <2>4. CASE rejected \in StartingJobs \ ran /\ ~(now >= Deadline)
    <3>1. missed' = missed
      BY <1>1, <1>3, <2>4 DEF Overlooked
    <3>2. Hour * (1 + missed) >= Hour
      BY <1>3
    <3> QED
      BY <1>3, <1>4, <2>0, <2>4, <3>1, <3>2
  <2> QED
    BY <2>2, <2>3, <2>4
<1>9. status = "none" => missed' = 0
  BY <1>1, <1>3 DEF Overlooked
<1> QED
  BY <1>1, <1>2, <1>6, <1>7, <1>8, <1>9

\* A job starts.  When it is a reminder and selects the request, the notice is
\* the first: an earlier one lies a full hour, its whole window, back.
LEMMA StartTimer ==
  ASSUME TimerInv, TypeOK', NEW j \in Jobs, StartJob(j)
  PROVE  TimerInv'
<1> USE DEF TimerInv
<1>1. /\ UNCHANGED <<now, minute, createdAt, startTime, up, downs, missed>>
      /\ up /\ j \in StartingJobs \ ran /\ ran' = ran \cup {j}
  BY DEF StartJob
<1>2. \/ /\ Selected(j)
         /\ sent' = [sent EXCEPT ![j] = @ \cup {now}]
         /\ status' = IF j = rejected THEN "expired" ELSE status
      \/ ~Selected(j) /\ UNCHANGED <<sent, status>>
  BY DEF StartJob
<1>3. /\ EffectiveDuration' = EffectiveDuration /\ Deadline' = Deadline
      /\ StartingJobs' = StartingJobs
  BY <1>1, SameDeadline, SameJobs
<1>4. /\ Deadline \in Nat /\ now \in Nat /\ missed \in Nat
      /\ \A k \in Jobs : NextRun(k) \in Int /\ TimeRemain(k) \in Nat
  BY DeadlineFacts, NextRunFacts, JobFacts, JobNames DEF TypeOK
<1>5. /\ \A k \in Jobs \ {j} : NextRun(k)' = NextRun(k)
      /\ NextRun(j) = now /\ NextRun(j)' = now + Hour
  BY <1>1, NextRunAfterRun, NextRunFacts
<1>6. \A k \in Reminders : k \in Jobs /\ k # rejected /\ TimeRemain(k)' = TimeRemain(k)
  BY JobNames DEF TimeRemain
<1>7. Selected(j) =>
        /\ status = "pending" /\ startTime # None
        /\ j \in Reminders => /\ Deadline - now > (TimeRemain(j) - 1) * Hour
                              /\ Deadline - now <= TimeRemain(j) * Hour
        /\ j = rejected => now >= Deadline
  <2>1. EffectiveDuration - (now - createdAt) = Deadline - now
    BY DeadlineFacts DEF TypeOK, durationTimeToConfirm
  <2>2. remainingTime(now) = NotBelow(Deadline - now, 0)
    BY <2>1 DEF remainingTime
  <2>3. ASSUME Selected(j), j \in Reminders
        PROVE  /\ Deadline - now > (TimeRemain(j) - 1) * Hour
               /\ Deadline - now <= TimeRemain(j) * Hour
    BY <1>4, <2>2, <2>3, JobFacts, JobNames DEF Selected, NotBelow
  <2>4. ASSUME Selected(j), j = rejected PROVE now >= Deadline
    BY <1>4, <2>2, <2>4, JobFacts DEF Selected, NotBelow
  <2> QED
    BY <2>3, <2>4 DEF Selected
<1>8. SentInv'
  <2> SUFFICES ASSUME NEW k \in Reminders, NEW t \in sent'[k]
               PROVE  /\ Deadline - t > (TimeRemain(k) - 1) * Hour
                      /\ Deadline - t <= TimeRemain(k) * Hour
                      /\ t + Hour <= NextRun(k)'
    BY <1>3, <1>6 DEF SentInv
  <2>1. t \in sent[k] \/ (k = j /\ t = now /\ Selected(j))
    BY <1>2, <1>6 DEF TypeOK
  <2>2. CASE t \in sent[k]
    <3>1. /\ Deadline - t > (TimeRemain(k) - 1) * Hour
          /\ Deadline - t <= TimeRemain(k) * Hour
          /\ t + Hour <= NextRun(k) /\ t \in Nat
      BY <1>6, <2>2 DEF SentInv, TypeOK
    <3> QED
      BY <1>4, <1>5, <1>6, <3>1
  <2>3. CASE k = j /\ t = now /\ Selected(j)
    BY <1>4, <1>5, <1>7, <2>3
  <2> QED
    BY <2>1, <2>2, <2>3
<1>9. OnceInv'
  <2>1. ASSUME Selected(j), j \in Reminders, NEW t \in sent[j] PROVE FALSE
    <3>1. Deadline - t <= TimeRemain(j) * Hour /\ t + Hour <= now /\ t \in Nat
      BY <1>5, <2>1 DEF SentInv, TypeOK
    <3>2. Deadline - now > (TimeRemain(j) - 1) * Hour
      BY <1>7, <2>1
    <3>3. (TimeRemain(j) - 1) * Hour = TimeRemain(j) * Hour - Hour
      BY <1>4
    <3>4. TimeRemain(j) * Hour \in Int
      BY <1>4
    <3> QED
      BY <1>4, <3>1, <3>2, <3>3, <3>4
  <2> SUFFICES ASSUME NEW k \in Reminders, NEW t \in sent'[k], NEW u \in sent'[k]
               PROVE  t = u
    BY DEF OnceInv
  <2>2. CASE k = j /\ Selected(j)
    BY <1>2, <2>1, <2>2 DEF TypeOK
  <2>3. CASE ~(k = j /\ Selected(j))
    BY <1>2, <1>6, <2>3 DEF OnceInv, TypeOK
  <2> QED
    BY <2>2, <2>3
<1>10. ASSUME ~Selected(j), status = "pending", startTime # None
       PROVE  /\ j \in Reminders => \/ Deadline - now <= (TimeRemain(j) - 1) * Hour
                                    \/ Deadline - now > TimeRemain(j) * Hour
              /\ j = rejected => now < Deadline
  <2>1. EffectiveDuration - (now - createdAt) = Deadline - now
    BY DeadlineFacts DEF TypeOK, durationTimeToConfirm
  <2>2. remainingTime(now) = NotBelow(Deadline - now, 0)
    BY <2>1 DEF remainingTime
  <2>3. ASSUME j \in Reminders
        PROVE  \/ Deadline - now <= (TimeRemain(j) - 1) * Hour
               \/ Deadline - now > TimeRemain(j) * Hour
    BY <1>4, <1>10, <2>2, <2>3, JobFacts, JobNames DEF Selected, NotBelow
  <2>4. ASSUME j = rejected PROVE now < Deadline
    BY <1>4, <1>10, <2>2, <2>4, JobFacts DEF Selected, NotBelow
  <2> QED
    BY <2>3, <2>4
<1>11. AheadInv'
  <2> SUFFICES ASSUME NEW k \in Reminders,
                      status' = "pending", startTime # None, downs = 0,
                      EffectiveDuration > TimeRemain(k) * Hour, sent'[k] = {}
               PROVE  Deadline - NextRun(k)' > (TimeRemain(k) - 1) * Hour
    BY <1>1, <1>3, <1>6 DEF AheadInv
  <2>1. status = "pending" /\ sent[k] = {} /\ ~(k = j /\ Selected(j))
    BY <1>2, <1>6 DEF TypeOK
  <2>2. Deadline - NextRun(k) > (TimeRemain(k) - 1) * Hour
    BY <2>1 DEF AheadInv
  <2>3. CASE k # j
    BY <1>5, <1>6, <2>2, <2>3
  <2>4. CASE k = j
    <3>1. Deadline - now > TimeRemain(k) * Hour
      BY <1>4, <1>5, <1>6, <1>10, <2>1, <2>2, <2>4
    <3>2. (TimeRemain(k) - 1) * Hour = TimeRemain(k) * Hour - Hour
          /\ TimeRemain(k) * Hour \in Int
      BY <1>4, <1>6
    <3> QED
      BY <1>4, <1>5, <2>4, <3>1, <3>2
  <2> QED
    BY <2>3, <2>4
<1>12. DueInv'
  <2> SUFFICES ASSUME status' = "pending", startTime # None
               PROVE  NextRun(rejected)' < Deadline + Hour * (1 + missed)
    BY <1>1, <1>3 DEF DueInv
  <2>1. status = "pending" /\ (j = rejected => ~Selected(j))
    BY <1>2
  <2>2. CASE j # rejected
    BY <1>5, <2>1, <2>2, JobNames DEF DueInv
  <2>3. CASE j = rejected
    <3>1. now < Deadline
      BY <1>10, <2>1, <2>3
    <3>2. Hour * (1 + missed) >= Hour
      BY <1>4
    <3> QED
      BY <1>4, <1>5, <2>3, <3>1, <3>2
  <2> QED
    BY <2>2, <2>3
<1>13. ran' \subseteq StartingJobs'
  BY <1>1, <1>3
<1>14. status' = "none" => status = "none" /\ ~Selected(j) /\ sent' = sent
  BY <1>2, <1>7
<1>15. status' = "expired" => now >= Deadline
  BY <1>2, <1>7
<1> QED
  BY <1>1, <1>3, <1>8, <1>9, <1>11, <1>12, <1>13, <1>14, <1>15

LEMMA TimerNext == TimerInv /\ [Next]_vars => TimerInv'
<1> SUFFICES ASSUME TimerInv, [Next]_vars PROVE TimerInv'
  OBVIOUS
<1>1. TypeOK'
  BY TimerType
<1> QED
  BY <1>1, CreateTimer, QuietTimer, TickTimer, ComeUpTimer, StartTimer DEF Next

LEMMA TimerInductive == Spec => []TimerInv
BY TimerInit, TimerNext, PTL DEF Spec

----------------------------------------------------------------------------
(* The theorems. *)

\* The countdown and the schedule keep their types: the countdown of a pending
\* request never leaves the window, however long the process was down.
THEOREM TimersTypeCorrect == Spec => []TypeOK
BY TimerInductive, PTL DEF TimerInv

\* No reminder is sent twice for one request, whatever runs were missed:
\* getReminderBooking keeps no record, its hourly windows alone ensure it.
THEOREM EveryReminderOnce == Spec => []RemindedOnce
<1>1. TimerInv => RemindedOnce
  <2> SUFFICES ASSUME TimerInv, NEW j \in Reminders PROVE Cardinality(sent[j]) <= 1
    BY DEF RemindedOnce
  <2>1. CASE sent[j] = {}
    BY <2>1, FS_EmptySet
  <2>2. CASE sent[j] # {}
    <3>1. PICK t \in sent[j] : sent[j] = {t}
      BY <2>2 DEF TimerInv, OnceInv
    <3>2. Cardinality({t}) = 1
      BY FS_Singleton
    <3> QED
      BY <3>1, <3>2
  <2> QED
    BY <2>1, <2>2
<1> QED
  BY <1>1, TimerInductive, PTL

\* A process that stays up sends every reminder whose hour the request lives
\* through, at whatever minute the request was made.
THEOREM NoReminderSkipped == Spec => []ReminderNotSkipped
<1>1. TimerInv => ReminderNotSkipped
  <2> SUFFICES ASSUME TimerInv, NEW j \in Reminders,
                      status = "pending", startTime # None, downs = 0,
                      EffectiveDuration > TimeRemain(j) * Hour,
                      remainingTime(now) <= (TimeRemain(j) - 1) * Hour,
                      sent[j] = {}
               PROVE  FALSE
    BY DEF ReminderNotSkipped
  <2>1. Deadline - NextRun(j) > (TimeRemain(j) - 1) * Hour
    BY DEF TimerInv, AheadInv
  <2>2. /\ NextRun(j) \in Int /\ NextRun(j) >= now /\ now \in Nat
        /\ Deadline \in Nat /\ TimeRemain(j) \in {3, 16}
    BY NextRunFacts, DeadlineFacts, JobFacts, JobNames DEF TimerInv, TypeOK
  <2>3. remainingTime(now) = NotBelow(Deadline - now, 0)
    BY DeadlineFacts DEF TimerInv, TypeOK, remainingTime, durationTimeToConfirm
  <2> QED
    BY <2>1, <2>2, <2>3 DEF NotBelow
<1> QED
  BY <1>1, TimerInductive, PTL

\* A request with working times is pending for less than an hour after its
\* deadline and an hour for each run of the expiry job the process missed.
THEOREM ExpiryCatchesUp == Spec => []ExpiresInTime
<1>1. TimerInv => ExpiresInTime
  <2> SUFFICES ASSUME TimerInv, status = "pending", startTime # None, now >= Deadline
               PROVE  now - Deadline < Hour * (1 + missed)
    BY DEF ExpiresInTime
  <2>1. NextRun(rejected) < Deadline + Hour * (1 + missed)
    BY DEF TimerInv, DueInv
  <2>2. /\ NextRun(rejected) \in Int /\ NextRun(rejected) >= now
        /\ now \in Nat /\ Deadline \in Nat /\ missed \in Nat
    BY NextRunFacts, DeadlineFacts, JobNames DEF TimerInv, TypeOK
  <2>3. Hour * (1 + missed) \in Nat
    BY <2>2
  <2> QED
    BY <2>1, <2>2, <2>3
<1> QED
  BY <1>1, TimerInductive, PTL

\* A babysitter who was reminded has the named time, less at most an hour,
\* before the request expires, and no request expires before its deadline.
THEOREM RemindedInTime == Spec => []TimeToAnswer
<1>1. TimerInv => TimeToAnswer
  <2> SUFFICES ASSUME TimerInv, status = "expired"
               PROVE  /\ now >= Deadline
                      /\ \A j \in Reminders : \A t \in sent[j] :
                           now - t > (TimeRemain(j) - 1) * Hour
    BY DEF TimeToAnswer
  <2>1. now >= Deadline /\ Deadline \in Nat /\ now \in Nat
    BY DeadlineFacts DEF TimerInv, TypeOK
  <2>2. ASSUME NEW j \in Reminders, NEW t \in sent[j]
        PROVE  now - t > (TimeRemain(j) - 1) * Hour
    <3>1. Deadline - t > (TimeRemain(j) - 1) * Hour /\ t \in Nat
      BY JobNames DEF TimerInv, SentInv, TypeOK
    <3>2. TimeRemain(j) \in {3, 16}
      BY JobFacts, JobNames
    <3> QED
      BY <2>1, <3>1, <3>2
  <2> QED
    BY <2>1, <2>2
<1> QED
  BY <1>1, TimerInductive, PTL
=============================================================================
