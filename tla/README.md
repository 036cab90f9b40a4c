# A verification project for book-babysitter

The repository is a NestJS monorepo: two HTTP gateways, a WebSocket gateway and
nine services that call each other over TCP messages and share one PostgreSQL
database through TypeORM. A parent books a babysitter; the babysitter confirms,
or the request expires; the booking is carried out, rated, talked about in a
chat and rewarded with points. No operation of the services opens a
transaction or takes a lock of its own, and every service may have many calls in
flight between two awaits. That makes order and staleness the hard part, and
what these modules are about.

## 1. Inventory

| Component | State | Operations that change it | What is hard | What makes it correct |
|---|---|---|---|---|
| Booking requests (`apps/booking-svc/src/booking`) | rows of `booking`, `bookingTimes`, `bookingChildren` | create, confirm, cancel, mark viewed | read, decide, save in separate round trips; save writes only what differs from a second read | an answered request stays answered, columns agree with the status |
| Booking jobs (`apps/cron-svc`) | none of its own; writes bookings | expiry, completion, two reminders, removal of deleted users | select, notify and update are apart; runs are missed and not repeated | what must end ends; no notice twice or for nothing |
| Booking codes and prices | `bookCode`, unique | next code = largest string of the month + 1 | two creations read the same largest code; string order against number order at month and digit boundaries | codes unique, and a lone creation never refused |
| Booking notices and chat messages (`booking-svc/notification`, `notify-svc`) | notices, conversations | sent before or after the write they tell of, not awaited | order, loss, a rejected call nobody awaits | a notice tells of something that happened |
| Ratings (`booking-svc/rating-*`) | one rating per booking, comments, stored average | rate, comment, delete, mark seen; a rating by an administrator | average from a separate query, and written back by auth-svc with the whole row of the user | at most one rating per booking, average equals the ratings |
| Points (`apps/point-svc`) | total per babysitter, log of awards | award for login, comment, post, rating | total read and written back; daily cap counted before the award | total equals the log, cap kept |
| Conversations (`apps/chat-svc`) | conversations, participants (soft-deleted), messages | send, create or restore, delete, mute, pin, seen | find-then-create; restore against delete | one conversation per pair, both see a new message |
| Socket connections (`apps/socket-gateway`) | map of connected clients | connect, disconnect, deliver | added under one key, removed under another; two sockets of a user | a connected user is reachable |
| Sessions and one-time codes (`auth-svc/session`) | sessions, codes, password | login, refresh, logout, sign-up, reset | a token or code is read, then used up | a token or code is used once, at most one session |
| Accounts (`auth-svc/account`, `cron-svc/user`) | users, soft-deleted or not, user codes, favourites | create, edit, delete, restore, remove, toggle favourite | cascades into work in flight; codes by count + 1 or largest + 1 | codes unique, nothing refers to a removed user |
| Posts, comments, reactions (`apps/post-svc`) | posts, reactions, view counts | create, edit, delete, toggle, view | check-then-act, read-then-write counters | one reaction per user and post |
| Requests to support (`apps/report-svc`) | request status, questions, reports | open, answer, close | the whole row is written back after a read | a closed request stays closed |
| Terms and settings (`apps/config-svc`) | versions of terms, lookup tables | publish, retire, edit | retire and publish are two calls | exactly one displayed version |
| Gateways | none | validation, routing | only a string ties a message to its handler; a socket event is sent before the answer | every message is handled and carries what its handler reads |
| Statistics (`apps/report-svc/src/statistics`), rankings, lists, profiles | read only | none | joins of users, bookings, ratings and posts: what doubles, what is left out | totals and lists are those of the rows they speak of |
| Push, mail, marketing (`apps/notify-svc`) | general notices, campaigns | publish, view, deliver | delivery is external | a notice counts as viewed by whom it was viewed |
| Shared library (`libs`) | none | base service, messages, guards, entities | `save` writes what differs from a second read | as its users need it |

**How they interact.** Gateways send a message to a service and wait for the answer.
Services send each other messages, some awaited, most not
(`libs/core/message-builder`): a rejection of one nobody awaits ends the
Node process, which the container restarts. The database is the shared state:
`cron-svc` and `auth-svc` write the rows of `booking-svc` directly, the first by its
jobs and the second by the cascade of a removed user.

The hazards, each at its line and with the properties that would catch it, are in
`PROJECT.json`.

## 2. Modules

Booking:

* `BookingLifecycle` is the program: the booking table and everything that
  writes it, one action per database round trip.
* `BookingWorkflow` is the abstract specification: the life of a booking as its
  two users see it, every operation at once.
* `BookingCorrectness` states the properties of the first and the refinement
  mapping to the second; `MCBooking` adds the symmetry for TLC.
* `BookingStatistics` is what the statistics count of the booking table, tied to it in
  `BookingCorrectness`.
* `BookingProofs` proves the properties that hold whatever overlaps, and for the serial regime the others and the refinement.
* `BookingTimers` is the countdown of one request and the hourly schedule;
  `BookingTimerProofs` proves all its properties.

Chat: `ChatUsers` declares who there is, `Conversations` is chat-svc, `Sockets` the table of
socket-gateway, and `Chat` composes them; `MCChat`. `ChatProofs` proves all
its properties.

Accounts: `OneTimeCodes` is the table of mailed codes that both `Sessions` (login, refresh,
logout, codes, reset; `MCSessions`) and `Accounts` (sign-up, profile, delete, restore, removal;
`MCAccounts`) extend. `SessionProofs` and `AccountProofs` prove all their properties.

Small services: `Points`, `Ratings`, `SupportRequests`, `Terms`, `Lists`, `Posts`, `BookCodes`, `Forms` and
`Settings` extend `ServiceCalls`, which declares what they share, and `Services` puts them side by side;
`MCServices`. `ServiceProofs` proves what the lists, requests, posts, points and ratings state, `ConfigProofs` what the codes,
terms, settings and forms state and the types of all of them. `FiniteNumbers` is what those proofs know of finite sets
of numbers: the largest of them, their sums, and induction over finite sets.

Functions: `Queries` says what joins, sums and orders of the database return; `Reports` (statistics and
rankings), `Listings` (posts, requests, notices), `BookingLists` (bookings, calendars, notices, ages, prices) and
`Profiles` (profiles, managers, permissions) are the reading side as functions of small tables, `Handlers`
and `Routes` the commands the services handle and the messages sent to them. What
they owe is stated as assumptions, which TLC evaluates with `MCAccounts`; `AccountProofs` proves most of it for tables
of any size. `Search` is the filter of babysitters over all dates of birth; `MCSearch`.

### State and actions of BookingLifecycle

| Model | Code |
|---|---|
| `row[b]` | the columns of `BookingEntity` that can change, dates as set or not; `none` before creation, `erased` after the cascade of its user |
| `age[b]` | 0 while `remainingTime > 0`, 1 after, 2 when every `bookingTime` is over |
| `account[u]` | active, soft-deleted, removed |
| `req[r]` | a confirm or cancel call: `read` (row loaded, decided, changed in memory), `loaded` (`save` has loaded the row again and computed `cols`, the columns that differ) |
| `rejectJob`, `completeJob` | the batch a run of the job holds between its query and its update |
| `held`, `notices`, `crashes` | history: statuses a booking has had, notices sent, process deaths |
| `ConfirmRead`, `CancelRead` | `confirmBooking`, `cancelBooking` up to `save`, the notice of a cancellation included, which is sent before |
| `SaveLoad`, `SaveUpdate` | TypeORM's `save`, as the base service's `create` uses it: SELECT, then UPDATE of the differing columns by id; the notice of a confirmation follows |
| `ViewBooking` | the update of `isViewed` that `getBookingDetail` does not await |
| `RejectSelect`, `RejectNotify`, `RejectUpdate` | `rejectedBookingAfter48Hours`: query, notices, update of those still pending |
| `CompleteSelect`, `CompleteUpdate` | `updateStatusBookingComplete`: query, update by id |
| `DeleteAccount`, `RestoreAccount`, `HardDeleteAccount` | the account operations and the cascade |
| `CrashBookingSvc`, `CrashCronSvc` | the process dies with what it had in flight |

`Overlap` chooses the regime. TRUE is the deployment. FALSE admits only behaviours
in which an operation on a booking starts when no other is under way on it
(operations on different bookings still interleave): it shows what the code
does right when it is not overtaken, so that the difference between the runs is
exactly what overlapping costs.

What is abstracted: dates to set or not, prices, addresses and children (they never
change), reasons, wording and language of notices. A working time ends after
the window to confirm because the gateway asks for a minimum length; it admits a
shorter one for a time that is itself marked as a draft, which is left out. The check
that the babysitter exists and the insertion are one step; a babysitter who
soft-deletes the account between them gives a booking that the model reaches
by deleting afterwards. A failed database call answers with an error and changes
nothing, which is a request that never started.

### State and actions of BookingTimers

`now` and `minute` are the clock in ticks, `Quarter` ticks to a quarter of an hour;
`createdAt`, `startTime` and `status` are the request; `up` is the cron process; `ran` are
the jobs that cannot start any more at this tick; `sent` and `missed` are history.
`remainingTime` is `countDown` of the entity, clamp included. `StartJob(j)` is a run of a
job at its minute: `Selected(j)` is `getReminderBooking` with the hours the job
passes. `Tick` moves the clock only when a running process has started all
jobs of the tick; a process that is down misses them, and `ComeUp` does not
make up for them (`CronJob` has no such option set). The seconds of the countdown become
ticks, and a run happens at its minute exactly: a drift of a second
at the very boundary of a window is not modelled. The short tick of the checked
instance is seven and a half minutes, so that requests are made
between the minutes of the jobs as well as on them.

### State and actions of the chat modules

| Model | Code |
|---|---|
| `conv`, `part`, `msgs` | rows of `conversation` and `participant` in PostgreSQL, messages in MongoDB in the order of their creation |
| `calls[k]` | a call being served, at the round trip `pc`, with what it read |
| `CreateMessage`, `FindConversation`, `CreateConversation`, `ReadParticipant`, `RestoreParticipant`, `InsertMessage` | `createMessage`: take the conversation the client names, whosever it is and whether or not there is one, or look for one of the pair, or create one with both participants; restore the deleted participants, store |
| `DraftMessage` | what a parent writes to a babysitter with the draft of a booking |
| `part[c][u][r]` | the rows of `u` in `c`: a conversation with oneself, which the code admits, has both rows from one user |
| `StartConversation`, `StartFind`, `StartCreate`, `StartJoin` | `createConversation`, which looks for a message rather than a conversation, and adds the two participants one by one |
| `getConversationByUserId`, `SystemOpen`, `SystemFind`, `SystemCreate`, `BookingMessage` | opening a conversation with a user or the administrator, and the messages of booking-svc |
| `deleteConversation`, `ToggleFlag` | soft delete of one's participant row, mute and pin |
| `Sees`, `Listed`, `Partners` | what `getConversationMessage` and `getListConversation` show |
| `connectedClients` | the map of the gateway, entered under `user.userId` and removed under `user.id` |
| `HandleMessage`, `EmitMessage` | `handleMessage` before and after its await for the URLs of the files |
| `Fault` | chat-svc or the gateway dies, or a user is removed for good |

Sender and receiver may be the same user, and the conversation any: nothing in the code asks. A time is a place in the log of
messages. `broken`, `forgotten`, `away`, `talked`, `steady` and `latest` are history.

### State and actions of Sessions and Accounts

| Model | Code |
|---|---|
| `codes`, `old` | rows of `user_otp`; those older than the minute in which no other is mailed |
| `sessions`, `account` | rows of `login_session`; whether the user is live, soft-deleted or removed |
| `login`, `loginUser`, `SocialLogin`, `verifyOtp`, `refreshToken`, then `EndOldSessions`, `TakeCode`, `SpendToken`, `generateToken` | the ways to a session, cut at their round trips: the old session ends, or the code or token is spent, and then a row is inserted |
| `forgotPassword`, `resendOtp`, `ReplaceCodes`, `NewCode` | codes mailed anew |
| `verifyOtpForgotPassword`, `AcceptCode`, `resetPassword`, `ReadUser`, `SavePassword` | the reset of a password with a code |
| `users` | rows of `user` with state, role, number of the code, sign-up done or not; an email may have one live row |
| `RegisterEmail`, `EndCodes`, `MailCode` | the code of a sign-up |
| `setPassword`, `SocialCallback`, `createByAdmin`, then `SpendCode`, `ReadNumber`, `InsertUser`, `CreateSocial` | the three ways to an account: the first takes the largest number + 1, the others count + 1 |
| `updateProfile`, `signup`, `RestoreUser`, `SaveUser`, `RemoveUser`, `deleteAccount`, `HardDeleteUser`, `HardDeleteUserByIds` | writes of a row read before; the job's read and the removal it sends for later |

`shared`, `stale`, `overrun` and `refused` are history: which calls met on one user, session or code, and which rows were
written from an old copy.

### State and actions of the small services

| Module | Code | Steps |
|---|---|---|
| `Points` | `upsertPoint`, the caps, the log | count today's log, read the total, write total, write log; a first total is an insert into a unique column. `given` and `cuts` are history: the awards a total got today, and those that died before their log |
| `Ratings` | `createRatingBabysitter`, edit, delete, the rating of an administrator; `users.avg_rating` as auth-svc writes it | insert, average of all rows, update of the user; an edit saves rating, babysitter and booking by id. `HoldRow`, `CompareRow`, `OverwriteRow`: auth-svc reads the whole row, waits (for S3), and `save` writes what differs from a second read |
| `SupportRequests` | questions, reports, contact wishes, absences | read, decide, save of what was read |
| `Terms` | `saveTerm`, `updateTerm` | read, withdraw, insert the next version |
| `Lists` | reactions, favourites, rankings | look for the row, insert or delete |
| `Posts` | write, edit, delete, `getPostById` | read the post, write views + 1, insert the viewer |
| `BookCodes` | `getCurrentBookingCode`, `createBooking` | read the largest text of the month, insert; the month turns |
| `Forms` | images and languages of an account, permissions of a manager, currencies, countries | delete what is not in the form, save the rest; the main image moves to place 0 |
| `Settings` | special services with their texts, questions and answers | read, merge the text of one language, save; place in a type = largest + 1 |

A behaviour of `Services` is one of a single service, `focus`: they share no row, so their state
spaces are added instead of multiplied. Each module has an action for the death of
its process, which drops the calls in flight.

### The functions

Each function is named after the method it translates and takes the tables it queries.
`Queries` gives joins their SQL meaning (an outer join has a null row, soft-deleted rows are
left out unless asked for). The assumptions compare a function with a plain statement of what
it is to return, over all tables of a small universe or a table built to hold each case: totals of revenue, the age
bands, the rates, last month, the order of rankings and lists, which posts a search finds, which
requests are marked read, what a calendar shows, who holds a permission. Where the code returns something
else, the assumption says exactly when (section 4).

`Handlers` has a record per controller of a service: a command, and the parts of its message that
are read and have no default. `Routes` has a set per controller of a gateway, per guard and per service
that sends: command, receiver and the parts always sent. A message is `answered`, `lacking` or
`unavailable`, as `sendMessage` of the shared library and the handler make it. The
assumptions of `Routes` state that no command is handled twice, that every message is
handled and whole but for those named there, that no handler is out of
reach but one, and that what needs no token needs no user.

## 3. Runs

| Run | Question | Instance | Shows |
|---|---|---|---|
| `booking_overlap` | what survives every interleaving | 1 booking, 2 requests, both jobs, 1 crash, `Overlap` TRUE | a waiting request has no trace of an answer; completion needs a confirmation and the end of the times; expiry notices are due; confirmation notices are true; a notice of a cancellation or expiry comes true or was overtaken by a confirmation that was told too; answers are final |
| `booking_serial` | is it the workflow when nothing overlaps | 2 bookings, 2 requests, 1 crash, `Overlap` FALSE | columns agree with the status, and every row but a draft is in exactly one total of the statistics; a cancellation notice comes true; every behaviour is one of `BookingWorkflow` |
| `booking_liveness` | does everything end | 1 booking, 1 request, 1 crash, `Overlap` TRUE, fairness | a request with times and both parties is answered or expires; a finished booking is closed |
| `booking_timers` | do schedule and countdown fit | `Quarter` = 2, slots around 1, 3, 16 and 48 hours and none, 1 outage | reminders once, none skipped, expiry within an hour and an hour per missed run, reminders leave their time |
| `chat` | who sees what | 2 users and the admin, 2 conversations, 2 sockets, 2 messages, 4 events (calls, sockets, at most one fault), 2 calls at a time; any conversation may be named and anybody written to | a stored message is seen by its receiver unless he had no row in the conversation named or left meanwhile; what was deleted stays deleted; a talk that began in a conversation of both keeps it; every listed conversation has its partner but for one with oneself, removals and dead calls; the latest socket is found, a steady receiver is shown the message |
| `sessions` | what is a code, token or login worth twice | an admin and a babysitter, 2 codes, 3 sessions, 4 calls, 2 at a time | one session per member, a token opens one, a code is accepted once, each unless two calls met on it; no session for an account gone all along |
| `accounts` | what do copies and orders make of an account | 2 emails, 3 rows, 2 numbered roles, 2 codes, 3 calls, 2 at a time | a lone sign-up is not refused for its number; an account is what was last ordered; sign-up is completed once; a social user can return. The assumptions of `Profiles`, `BookingLists`, `Listings`, `Reports`, `Routes` |
| `services` | what do the small services lose | 2 users, bookings, requests; 4 calls (3 about ratings, of 2 ids), 2 at a time; caps of 2, 4 terms, 2 rows to a form, 3 settings | each service's table is what its calls ordered, except after exactly the overlap or death each property names |
| `search_ages` | violation | dates of birth of thirty years | nobody in the thirties is found |
| `booking_complete_race` | violation | 1 booking, 1 request | a cancelled booking becomes COMPLETED |
| `booking_count` | violation | 1 booking, nothing overlapping | an expired request counts as a cancelled confirmation |
| `booking_reminder_name` | violation | one slot far away | the reminder named for 23 hours is sent at 16 |

**Bounds and why they are enough.** The actions of `BookingLifecycle` touch one booking,
except the jobs and the cascade, which treat each booking of a batch alike; the overlap
run therefore has one booking and spends the states on what races for it: two
requests can be any of confirm/confirm, confirm/cancel and cancel/cancel, with both
jobs. Two bookings appear where a batch or the regime relates them. One crash
suffices for a second attempt, as a process starts from nothing. `MaxNow` in the timers
lies one missed run and more after the longest window. Requests and bookings are
symmetric, as every property quantifies over them; the liveness run uses no symmetry.
In the other runs calls race for one row by twos: two slots let any two calls overlap at every round trip, and one or two
calls more give them a state to start from (an account to log in to, a first message, a full cap). A third call in flight
would race with each of the two for the same kind of step, and no property counts them. Two users
suffice for a pair in a conversation or a row that must not change; three account rows for a number that was
given, removed and given again; four terms for two lines of two versions. Three calls about ratings are a rating, a whole row read before it and whatever comes third. Limits of
the code (five awards, three reviews, five bookings in a profile) are constants cut to two so that they are met.
`CHECK_DEADLOCK FALSE`: when every booking is over and every account removed nothing is left
to do, the clock of the timers stops with its request, and the calls of the other runs are bounded.

**History.** The weaker truths of this code are stated exactly: a property excuses an object only when a history
variable says that two named steps met on it (`shared`, `stale`, `overrun`, `away`, `lost`, `crowded`, `cuts`, `outOfDate`, `reopened`,
`divided`, `twice`, `mixed`, `torn`, `hurried`, `refusals`), so each run shows both that nothing else breaks
the property and, by its mutants, what would. What overlaps of those named do to the object is not claimed. The types of `Chat`, `Sessions`, `Accounts` and `Services` are conjuncts of
`ListHasPartners`, `OneSessionPerMember`, `SocialUserCanReturn` and `ViewsAreCounted`; that of the bookings is proved (`TypeCorrect`) and not run.

**Fairness.** Weak fairness of time passing, of the steps of a started request (the
event loop serves it unless the process dies) and of the steps of the two jobs
(they are scheduled hourly and the container is restarted). Nothing is assumed
of users: no fairness on create, confirm, cancel, view, delete or restore. Crashes are
bounded by `MaxCrashes`: endless crashes would refute any progress. The chat, account and
service modules state safety only and assume no fairness.

## 4. Findings

1. `updateStatusBookingComplete` updates by id alone what it selected as confirmed;
   a cancellation between its query and its update is overwritten with COMPLETED
   while its date, reason and notice remain. The sibling job repeats the
   status in its update (`booking_complete_race`).
2. `countConfirmedBookingCancellations` counts BABY_SITTER_CANCEL with `isReject` false, which
   is also what the expiry job writes: a babysitter who let a request expire is
   shown with one more cancelled confirmation (`booking_count`).
3. The job and the notification named for 23 hours select 15 to 16 hours
   (`booking_reminder_name`).

4. The filter for the thirties asks for a date of birth after January 1 twenty-nine years
   ago and before January 1 forty years ago: nobody is found (`search_ages`).

Noted while modelling, and not claimed as findings, mostly because nothing in the repository says otherwise:

*Bookings.* In the overlapping regime a confirmation may lose the status column to a cancellation and still notify; a
confirmation is accepted between the end of the window and the run of the expiry job; a booking without
working times never expires. `isViewed`, set while a request waits, is never reset, so a later cancellation is not among
the babysitter's notices; only a save that read the row before it was viewed writes the flag back. The month in a code is not padded: a booking coded in September and stored in October hides
all codes of October, and the city's next bookings collide. A slot shorter than its break has a negative price. A time
that crosses the border of two adjacent periods is in neither calendar. The gateway tells the babysitter's client
of a request before it is stored, and also when storing it fails; it tells a child's age of three as years when the code elsewhere uses months.

*Messages.* `updateGeneralNotificationDetail` has no handler; `getUserBatchLog` and `updateUserBatchConfig` answer nothing, which
the sender turns into a 503. `cancelSendNotification` sends an empty question for a detail and cancels nothing; the user's list
of questions reads `LanguageCode` and is sent `languageCode`; the sockets' `createConversation` sends parts its handler does
not read. A handler that answers null (`createMessage` after an error it swallowed) makes its caller fail though the work may be done;
calls nobody awaits then end the process.

*Chat.* An empty conversation is created twice without any overlap, as a message is looked for. A receiver who deletes
between restore and insert does not see the message. `createMessage` stores in whatever conversation the client names: a receiver without a row
there never sees the message. `createConversation` takes oneself for a partner, and the list then fails on the partner it does not find
(`conversation.service.ts:133`); of the two rows a deletion takes one. A purged partner, or a conversation whose creation died half way, makes
the list fail.

*Sessions and accounts.* A resent code of an admin login has no user and is never accepted. `googleAuthRedirect`
compares the `socialId` of an array and refuses every returning user. Numbers by count + 1 collide without any overlap once an
account was removed for good, and stay stuck; the highest number of a removed user is given again. `setPassword` uses its
code up even when it fails afterwards. A save of a row removed meanwhile inserts it again. Sessions outlive the account's
deletion. `hardDeleteUserByIds` removes an account restored since the job read it.

*Ratings, points, posts, requests.* Edited, deleted and removed ratings and those of an administrator leave the average until the next new one, and a profile saved
after a wait for S3 brings back the average it read before. A death between total and log is an award the cap does not count, so
that day has one more. The thread of questions takes a request of any type. `roundRating`
shows an exact average of 4 as 4.5. A second first total is refused and its award lost. An edit of a post deleted meanwhile is written and then fails on
its second read. Contact wishes and absences may be reopened by any later update. A death between withdrawing and adding leaves a term without a current version.

*Lists and statistics.* Two of the lists of posts skip `page - 1` rows, so their pages overlap. The search of posts by owner bypasses its
other conditions; the history of searches is everybody's, as its condition is not where TypeORM looks. `getReviewOfBabysitters` ignores its page.
General notices count as viewed once anybody viewed them. `totalBookingAutoReject` asks for a null that the expiry
job never writes and is 0. Statistics without a completed booking fail. Last month is this month's end minus a month, and loses
the 29th to 31st. A user with two social accounts counts twice in the rates. A language listed twice in a profile counts
twice in a search, and a booking of any status blocks a babysitter.

## 5. Proofs

Assumed of the constants: `None` is no booking and no user, `Overlap` is a Boolean and
`MaxCrashes` a natural number; `Quarter` is positive, working times start an hour after
creation or later, the bounds are natural numbers. Nothing else: the sets may be
empty or infinite. For the chat, `Admin` is no user and `None` no user, conversation or socket, `SOCKET_KEY`
is no user, and the bounds are natural numbers; `ChatAssumption`, `KeyAssumption`, `MessageBound` and `ChatBounds` say so.
For sessions, accounts and services, `None` is no user (for accounts no slot of a call, for services no number either), and the bounds and the cap of awards are natural numbers,
those of the services' calls, of the terms and of the points of a rating positive
(`CodesAssumption`, `SessionBounds`, `CallsBound`, `CallsAssumption`, `NullAssumption`, `PointsAssumption`, `PointAssumption`, `TermsAssumption`, `RowsAssumption`, `SettingsAssumption`); the roles of accounts are those of the
code (`RolesAssumption`).

**BookingProofs.** None of the invariants is inductive alone: whether a save may write
depends on what its request, or a job's batch, saw earlier. `IInv` adds what each party in flight
may rely on. `RequestInv`: its booking is no draft and exists or was erased; if the row still
waits, the save writes the status column; a confirmation that leaves the status column out found the
row confirmed already. `RejectInv`, `CompleteInv`: the batch was pending and overdue, or was
confirmed and is over. `BookingInv` ties status, history and notices. The step
lemmas are one per operation; those that write rows go through `Written`, what every
writer but creation does to a row at most, and `WrittenKeepsJobs` and `WrittenKeepsRequests`. From `Spec => []IInv`
follow `TypeCorrect`, `PendingStaysPristine`, `CompletionNeedsConfirmation`, `ExpiryNoticesAreDue`,
`ConfirmNoticesAreTrue` and, through `StatusStep`, the action property `AnswersStayFinal`. `NoticesAreTrueOrOvertaken` adds
`NoticeStories`: a confirmation is never kept quiet, nobody is told about a draft, and what was told of a booking is true, overtaken
or about to be written (`NoticeStory`); what is idle is at no booking (`Tidy`). A step that writes no row keeps a story when who was
at the booking still is (`StoryKept`); those that do have a lemma each.

For `Overlap` = FALSE the invariant `Serial` joins it. `Apart`: a booking has one request or one job at most. `SnapIsFresh` and
`BatchesAreFresh`: what it read is what is stored, so that the columns `save` finds changed make the row exactly the one the request
holds (`MergeIsSnap`). `RowAgrees` and `NoticeInv` are the properties themselves, the latter with the request that will make the
notice true. What a step does not write stays fresh (`FreshStays`), and what starts finds nobody at the booking. From
`SerialInductive` follow `ColumnsAlwaysAgree`, `CancelNoticesComeTrue` and, a lemma per writer of rows (`UpdateIsAnswer`, `RejectIsExpire`
and the others), `SerialIsWorkflow`: every other step stutters in the workflow.

**BookingTimerProofs.** The argument is one number, `NextRun(j)`, the tick at which job j can start next.
A notice lies an hour or more before it (`SentInv`), which with a window one hour wide
and open at one end excludes a second; while the process stays up it lies inside the window of
a reminder still to come (`AheadInv`); and that of the expiry job is less than an hour per missed
run after the deadline and an hour more (`DueInv`). All five properties of the run are theorems, for every
length of the tick.

**ChatProofs, sockets.** Removal goes by a key that is not a user's, so entries outlive their sockets; what saves the
table is that an entry is overwritten only by a socket of the same user. `SocketInv` says so by `openedBy`: the latest
socket of a user was opened by that user. `HandlingInv` carries it over the await: the receiver's socket that was read is the one the
message goes to, as no socket opens twice.

**ChatProofs, messages.** The calls take no lock, so the invariant says what a call may still rely on at its `pc`. `CallInv`:
past its search it has a conversation to name, and one that creates participants a conversation that exists. `SendInv`: the receiver's row that is being
restored is there, and once the receiver was restored he is active, or had no row or left (then the call's `away` says so) or was removed.
`TalkInv`: a call between two who talked finds what they wrote, and is about to create only if one of them was removed, which makes the save
fail. Talking is a message in a conversation of both, so a message in somebody else's binds nobody; what makes `TalkInv` inductive is `TalkStays`, that
both stay in it until removed.
`ForgetInv`: a participant who is active in any row is so since his last deletion or later. What other steps may do to all these
is `RowsStay`, `ActiveStay`, `SinceStay` and `MessagesStay`; each step is shown to keep them, and `StepKeeps` does the rest.

**ChatProofs, lists.** `createConversation` creates two participants one after the other. `JoinInv`: the call that does so is alone in its
conversation, which was created for these two (or one), and where at `joinOther` the first is in. `PairInv`: a conversation has both,
or a reason (a removal, a call at work, a dead one). A step that creates no participants keeps both (`ListStays`);
`OthersAreListed` is for the two that do.

**SessionProofs.** A call holds what it read before an await, so `CallOK` says what its copy may be at each `pc`; with `TypeOK`
and `AdminCodes` (the code of an admin login is no member's) it is `IInv`, of which `SessionTypesHold` and the action property
`NoSessionAfterDeletion` follow. The other three each add one invariant of the rows and of the calls that may still write them:
`CodeInv` (a code is accepted and still usable only when its overlap was noted), `TokenInv` (the same of a token that
was spent) and `MemberInv` (who is about to open a session has closed the others, or met another call).

**AccountProofs.** Calls hold rows they read, and write them back later. `CallOK` says what such a copy may be: whose row it is, that
the number it read is free and that the row is as it was read, the last two unless the row (or, for a number, any row) was written
since. `RowOK` is the properties row by row: `Fresh` (signed up once at most, and then nobody may sign up again), the state
that was ordered, and a social account or the call that is to write it. A step writes no row (`QuietStep`), writes some and
marks all copies of them (`WriteStep`), or makes one (`Inserts`). That a lone sign-up is not refused needs the largest number to exist
(`NumberIsNew`), as accounts stay finitely many.

**ServiceProofs, ConfigProofs, FiniteNumbers.** The services share no state, so each has an invariant of its own, kept because a step is either the
service's or leaves it alone (`ListsMove`, `TermsMove` and the like). They have one shape: what is stored is right, what a call
read is still what is stored, and two calls at the same row are noted in the history that excuses them.
`ListInv`, `RequestInv`, `ViewInv` and `CapInv` are those of the lists, requests, posts and points, `CodeInv`, `TermInv`, `FaqInv` and
`ServiceInv` those of the booking codes, terms, questions and special services. The cap and the views count elements of sets that grow by
one (`OneMoreAtMost`). `CapKept` bounds the awards of the day by those in the log, those cut from it and the one that may be between total and log, so the cap is
one on what the total got and not on what the log shows. Codes, terms and questions are numbered after the largest number there is: that a finite
set has a largest is shown without an induction scheme, as a smallest subset without one would lack it because of any one of its elements
(`GreatestExists`), and `OneMoreIsNew` carries it to the numbering of the code. A call may be refused for its code, for
any number of bookings, only by the two ways `LoneBookingGetsItsCode` names.

The forms' `FormInv` says for each part that it is as ordered (`Follows`) while no call is between its deletion and its
save, and for each call that met no other what it may rely on (`FormOK`): the rows are still its copy before the deletion, and
within its list after it. `FormBeginsOK`, `FormStep` and `FormEnding` keep it for any call that begins, goes on and ends; `ListedRows` says
that a list without repetitions gives every image a place of its own.

**Sums.** `TotalIsTheLog` and `AverageIsThatOfTheRatings` compare a stored number with a sum over all rows. The sum is the fold of
the community modules over a function, and `FiniteInduction` shows what such a fold does when a row is added (`SumOfOneMore`), taken away or changed: it is first-order, the
subsets for which a claim holds being a set of their own, of which a smallest counterexample is taken. `TotalInv` says what a
total lacks: the points of the calls that are about to log them; a call that adds to a total holds the total there is. `RatingInv` says of an
average that it is that of the ratings there are, or some call is about to write one, and whatever such a call writes is that of the ratings there are; an older one that a
whole-row save brings back is written over by that call, or noted in `outOfDate`.

**Types of the services.** `ViewsAreCounted` carries the types of all nine services. Ids and history grow with every call, so the types hold only
because what the calls begun have done, and what those under way may yet do, stays within the calls that may begin. `FormBound` says so of the
forms: an id is one of those made, and a place lies within `MaxRows`.

**AccountProofs, the functions.** What the reading side owes does not depend on steps, and holds of tables of any size:

* Joins (`RevenueIsAlwaysCountedOnce`, `RankingAlwaysCountsOnce`, `ParentsSeeWhoWasNamed`). A joined row stands for one row of one table with its
  partners; `SumUnderOtherNames` renames rows one to one and the sum stays. Assumed of the tables: they are finite, ids are unique and
  not 0 (0 stands for a null), and, where the code needs it, the admin has named nobody twice. `NamedTwiceEarnsTwice` shows what happens otherwise.
* Totals (`TotalsOfRevenueAgree`, `RegionsAlwaysCountOnce`): the sum over all is that of the parts, `SumByParts`.
* Rates (`RatesAreAlwaysShares`): each is the nearest hundredth of a percent (`ShareIsNearest`), so those of parts without common rows are off by half a
  hundredth for each (`SharesAddUp`), and five of them by two and a half at most.
* Pages (`EveryResultIsOnOnePage`, `SlidingPagesAlwaysRepeat`), the badge, prices and ages: arithmetic over any length, number and year. Prices are those of
  sequences of slots, of which one is cut in two at any place (`SalaryIsOfTheHours`).
* Counts (`ListedAlwaysSpeak`, `SwitchesAreAlwaysSetTogether`, `ShownAverageIsAlwaysAbove`): a count equals another exactly if the mapping between what
  is counted is onto, or one to one.

**Only model-checked.** The two liveness properties, as liveness under fairness and ENABLED are out of the prover's reach. Of the functions, what depends on
the order a database sorts in (which bookings, comments and requests come first, and with them the lists of bookings): the sorting of the TLC module has no definition
the prover can expand. On the calendar (the last month, which times cross a period), the searches of posts and profiles, the permissions, and the routes, which are
sets of constants, nothing is proved either: these stay assumptions that TLC evaluates over small tables. All safety and action properties of the runs that hold are theorems. No module with proofs has a RECURSIVE operator.

## 6. Plan

What is left: the border of two periods, the searches and the permissions as theorems about any table.

**Not modelled**, and why:

* What gateways do besides routing (validation, uploads, cookies, interface documents): they keep no state.
* Delivery of pushes and mails and the timing of campaigns: external services.
* Plain tables nobody derives anything from: devices, the language of one user, backgrounds, banners.
* The comments, images and reviews of a rating, the making of a comment on a post, the removal of a search: one insert or delete of a
  row nothing else reads while it changes. The award for a rating is never requested by any sender.
* The cascade of a removed user into points, lists and requests: rows that vanish with the only user who reads them. The cascade into
  bookings, conversations, posts and sessions is modelled.
* The shape, language and wording of answers, and the schema's migrations.
