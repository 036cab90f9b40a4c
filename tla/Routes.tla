-------------------------------- MODULE Routes --------------------------------
(* The messages the gateways and the services send, and what becomes of them  *)
(* at the handlers.  A route of a gateway checks the shape of its request and *)
(* passes it on as one message; the parts are those the route always sends.   *)
(* Nothing but a string ties a message to its handler, and nothing but names  *)
(* ties its parts to what the handler reads.                                  *)
EXTENDS Handlers, Sequences

\* The messages to a service, from a function from commands to parts.
To(service, calls) == {[to |-> service, cmd |-> cmd, parts |-> calls[cmd]] : cmd \in DOMAIN calls}

----------------------------------------------------------------------------
\* admin-gateway.

AdminAuth ==
    To("AUTH",
        [login |-> {"email", "password"}, forgotPassword |-> {"email"},
         verifyOtpForgotPassword |-> {"email", "otp"}, resetPassword |-> {"email", "otp", "newPassword"},
         verifyOtp |-> {"userId", "otp"}, getProfile |-> {"langCode", "reqUser"},
         refreshToken |-> {"refreshToken"}, logout |-> {"body", "user"}, resendOtp |-> {"email", "type"}])

AdminBatch ==
    To("CRON",
        [getNotificationBatchLog |-> {"page", "limit"}, updateNotificationBatchConfig |-> {"duration"},
         getUserBatchLog |-> {"page", "limit"}, updateUserBatchConfig |-> {"duration"}])

AdminBooking ==
    To("BOOKING",
        [getBookings |-> {"page", "limit", "q"}, getBookingById |-> {"bookCode", "lang"},
         createBooking |-> {"data", "reqUser"}, cancelBooking |-> {"id", "reasonCancel", "canceledBy"}])
    \cup To("AUTH",
        [getUserByUserCode |-> {"role", "userCode"}])

AdminTerms ==
    To("CONFIG",
        [getTerms |-> {"query"}, saveTerm |-> {"value"}, updateTerm |-> {"id", "term"},
         getTermMetaData |-> {}, getTermDetail |-> {"value"}, getIntroductionImage |-> {"type"},
         saveIntroductionImage |-> {"images", "reqUser", "type"}, getIntroductionBanner |-> {"type"},
         saveIntroductionBanner |-> {"images", "reqUser"}])

AdminConfig ==
    To("CONFIG",
        [getCurrency |-> {}, saveCurrency |-> {"value"}, getConfigLanguages |-> {"value"},
         getLanguages |-> {}, saveLanguageSettingLanguage |-> {"lang", "reqUser"},
         getSpecialServices |-> {"languageCode"}, createSpecialService |-> {"langCode", "details"},
         deleteSpecialService |-> {"id"}, getCountry |-> {"languageCode"}, upsertCountry |-> {"countries"},
         getCities |-> {"countryId", "isUserCreated", "languageCode"}, getReviews |-> {},
         getNotificationBackground |-> {"type"}, createNotificationBackground |-> {"data"}])

AdminConversation ==
    To("CHAT",
        [getListConversation |-> {"query"}, getConversationMessage |-> {"conversationId"},
         getConversationAdminAndUser |-> {"reqUser", "userId"}])

AdminManager ==
    To("AUTH",
        [createManager |-> {"email", "permissionIds"}, updateManager |-> {"id", "email", "permissionIds"},
         getManagers |-> {"page", "limit", "q", "hasAdminPermission"}, getManagerById |-> {"id", "lang"},
         deleteManagerById |-> {"value"}])

AdminMarketing ==
    To("NOTIFY",
        [getListNotification |-> {"page", "limit", "channel", "status"}, getNotificationDetail |-> {"id"},
         createPushNotification |-> {"title", "targetReceiver", "content", "sendTime", "file",
                                    "pushTypeId", "isAndroidApplied", "isIosApplied"},
         getPushType |-> {"languageCode"}, getAlarmNotification |-> {"target"},
         updateAlarmNotification |-> {"body", "id"},
         createEmailMarketing |-> {"title", "targetReceiver", "content", "sendTime", "file"}])
    \cup To("NOTIFY",
        [getNotificationDetail |-> {}])

AdminNotices ==
    To("NOTIFY",
        [sendEmail |-> {"name", "receivers", "params"},
         createEmailTemplate |-> {"name", "subject", "text", "html"}, getEmailTemplate |-> {},
         getEmailTemplateDetail |-> {"templateName"},
         updateEmailTemplate |-> {"name", "subject", "text", "html"},
         pushAppNotification |-> {"userId", "notification", "params"},
         createGeneralNotification |-> {"body", "user"},
         getGeneralNotification |-> {"page", "limit", "isVisible", "targetReceiver", "languageCode"},
         getGeneralNotificationDetail |-> {"id"}, updateGeneralNotificationDetail |-> {"body", "id"}])

AdminPost ==
    To("POST",
        [getListPost |-> {"body", "query"}, getPostType |-> {"isActive", "languageCode"},
         getPostCategory |-> {"languageCode"}, createPost |-> {"body", "user"},
         getPostDetail |-> {"id", "languageCode"}, updatePost |-> {"body", "id", "user"}])

AdminResource ==
    To("AUTH",
        [getResources |-> {"value"}])

AdminStatistics ==
    To("REPORT",
        [getStatisticsCommon |-> {"lang", "query"}, getStatisticsBabysitter |-> {},
         getStatisticsBabysitterRegion |-> {"cityIds"}, getStatisticsBabysitterList |-> {"type"},
         getStatisticsParent |-> {}])

AdminSupport ==
    To("CONFIG",
        [getFaqs |-> {"page", "limit", "faqType", "languageId", "displayStatus"}, getFaqById |-> {"value"},
         createFaq |-> {"languageId", "faqType", "displayStatus", "title", "content"},
         updateFaq |-> {"id", "languageId", "faqType", "displayStatus", "title", "content"}])
    \cup To("REPORT",
        [getRequests |-> {"page", "limit", "type", "status", "startDate", "endDate"},
         getRequestById |-> {"value"}, updateRequestContact |-> {"id", "status"},
         updateRequestAbsence |-> {"id", "status"}, answerRequestReport |-> {"data", "reqUser"},
         createRequestQuestion |-> {"data", "reqUser"}])

AdminUser ==
    To("AUTH",
        [getUserDeleted |-> {"query"},
         getBabysitters |-> {"page", "limit", "createdAtFrom", "createdAtTo", "allowBooking", "lang"},
         getBabysitterRanking |-> {"lang", "reqUser", "type"},
         saveBabysitterRanking |-> {"babysitterIds", "type"}, createBabysitter |-> {"data", "reqUser"},
         getProfileUser |-> {"lang", "reqUser", "search"}, updateProfile |-> {"data", "reqUser"},
         updateBabysitterAllowBookingStatus |-> {"value"}, updateAllBabysitterAllowBookingStatus |-> {}])

\* The services, to one another.

AccountMessages ==
    To("NOTIFY",
        [sendEmail |-> {"name", "params", "receivers"}])
    \cup To("BOOKING",
        [createBooking |-> {"data", "reqUser"}])

SessionMessages ==
    To("NOTIFY",
        [sendEmail |-> {"name", "params", "receivers"}])
    \cup To("POINT",
        [addPoint |-> {"babysitterId", "type"}])

BookingMessages ==
    To("CHAT",
        [createMessage |-> {"content", "conversationId", "receiver", "sender"}])
    \cup To("CHAT",
        [createMessage |-> {"content", "receiver", "sender"}])
    \cup To("NOTIFY",
        [pushAppNotification |-> {"notification", "params", "userId"}])

JobNotices ==
    To("NOTIFY",
        [pushAppNotification |-> {"notification", "params", "userId"}])

JobRemovals ==
    To("AUTH",
        [hardDeleteUserByIds |-> {"userIds"}])

CommentPoints ==
    To("POINT",
        [addPoint |-> {"babysitterId", "type"}])

PostPoints ==
    To("POINT",
        [addPoint |-> {"babysitterId", "type"}])

\* socket-gateway.

SocketGateway ==
    To("CHAT",
        [createMessage |-> {"conversationId", "receiver", "content", "sender", "files"},
         createConversation |-> {"receiver", "sender"}, seenMessage |-> {"id", "reqUser"}])
    \cup To("NOTIFY",
        [sendNotificationMessage |-> {"receiver", "sender"}])

\* user-gateway.

UserLogin ==
    To("AUTH",
        [loginUser |-> {"email", "password", "app"}, getProfile |-> {"langCode", "reqUser"},
         refreshToken |-> {"refreshToken"}, logout |-> {"body", "user"},
         socialCallback |-> {"provider", "socialId", "email", "name", "userRole", "languageCode"},
         googleAuthRedirect |-> {"id", "email", "provider", "userRole", "languageCode"}])

UserSignup ==
    To("AUTH",
        [registerEmail |-> {"value"}, verifySignupOtp |-> {"email", "otp"}, resendOtp |-> {"email", "type"},
         setPassword |-> {"email", "password", "otp", "userRole", "languageCode"},
         signup |-> {"app", "data", "lang", "reqUser"}, forgotPassword |-> {"email"},
         verifyOtpForgotPassword |-> {"email", "otp"}, resetPassword |-> {"email", "otp", "newPassword"},
         deleteAccount |-> {"reqUser"}])

UserBooking ==
    To("AUTH",
        [getBabysitterForBooking |-> {"query", "reqUser"}])
    \cup To("BOOKING",
        [createBookingParent |-> {"data", "reqUser"}, getUserBookings |-> {"lang", "query", "reqUser"},
         confirmBooking |-> {"bookingId", "reqUser"},
         cancelBooking |-> {"canceledBy", "id", "reasonCancel"},
         getBookingSchedules |-> {"lang", "query", "reqUser"},
         getBookingNotifications |-> {"query", "reqUser"},
         getBookingDraftWithBabysitter |-> {"babysitterId", "lang", "reqUser"},
         getBookingById |-> {"id", "lang", "reqUser"}])

UserComment ==
    To("POST",
        [createComment |-> {"body", "user"}, getMyCommentsOnPosts |-> {"query", "reqUser"}])

UserConfig ==
    To("CONFIG",
        [getTermUser |-> {"value"}, getIntroductionImage |-> {"type"}, getIntroductionBanner |-> {"type"},
         getCountry |-> {"languageCode"}, getCities |-> {"languageCode"},
         getSpecialServices |-> {"languageCode"}, getGenders |-> {"value"}, getListYears |-> {"value"},
         getListChild |-> {"value"}, getNumExperience |-> {"value"}, getCurrency |-> {},
         getConfigLanguages |-> {"value"}, getEnumFilterAge |-> {"value"}, getEnumRating |-> {"value"}])

UserChoices ==
    To("CONFIG",
        [getEnumSortBabysitter |-> {"value"}, getSchedule |-> {"date", "scheduleType"}, getReviews |-> {},
         getConversationCheckList |-> {}, getLicense |-> {"app", "lang"}, getServiceTerms |-> {"lang"}])

UserConversation ==
    To("CHAT",
        [getListConversation |-> {"query", "reqUser"}, createConversation |-> {"body", "user"},
         getConversationById |-> {"conversationId", "query", "reqUser"}, seenMessage |-> {"id", "reqUser"},
         getConversationByUserId |-> {"reqUser", "userId"},
         getConversationAdminAndUser |-> {"reqUser", "userId"},
         toggleMuteConversation |-> {"id", "reqUser"}, togglePinConversation |-> {"id", "reqUser"},
         deleteConversation |-> {"id", "reqUser"}])
    \cup To("BOOKING",
        [getBookingConfirmOfConversation |-> {"partnerId", "query", "reqUser"}])

UserLanguage ==
    To("CONFIG",
        [getLanguages |-> {"app"}, saveLanguageSettingLanguage |-> {"lang", "reqUser"}])

UserNotification ==
    To("NOTIFY",
        [getGeneralNotification |-> {"page", "limit", "user"},
         getGeneralNotificationDetail |-> {"id", "user"}])

UserPosts ==
    To("POST",
        [getPostCategory |-> {"languageCode"}, createPost |-> {"body", "user"},
         getNotificationPostList |-> {"query", "reqUser"},
         getListUserPost |-> {"page", "limit", "search", "userId", "languageCode"},
         getListUserPostByUserId |-> {"query", "userId"}, getHistorySearch |-> {"user"},
         deleteSearchHistory |-> {"id"}, searchPost |-> {"languageCode", "query", "user"}])

UserPost ==
    To("POST",
        [getMyPost |-> {"query", "reqUser"}, getPostById |-> {"id", "reqUser"},
         getCommentByPostId |-> {"page", "limit", "postId"}, getCommentById |-> {"commentId"},
         toggleReact |-> {"data", "reqUser"}, getPostReacted |-> {"query", "reqUser"},
         updateUserPost |-> {"body", "id", "user"}, deletePost |-> {"id"}])

UserRating ==
    To("BOOKING",
        [createRatingBabysitter |-> {"data", "reqUser"}, getRatingNotification |-> {"query", "reqUser"},
         deleteRatingBabysitter |-> {"id", "reqUser"}, getRatingBabysitterDetail |-> {"id", "reqUser"},
         seenRatingNotification |-> {"id", "reqUser"}])

UserSupport ==
    To("CONFIG",
        [getUserFaqs |-> {"languageCode", "reqUser"}])
    \cup To("REPORT",
        [createRequestContact |-> {"phone", "reqUser"}, createRequestReport |-> {"data", "reqUser"},
         createRequestAbsence |-> {"bookingId", "reqUser"}, createRequestQuestion |-> {"data", "reqUser"},
         getRequestQuestions |-> {"userId", "role"}, getRequestById |-> {"value"},
         readRequestQuestion |-> {"id", "reqUser"}, setRequestQuestionToSuccess |-> {"value"}])

UserTermType ==
    To("CONFIG",
        [getTermTypes |-> {}])

UserProfile ==
    To("AUTH",
        [getProfileUser |-> {"lang", "reqUser"}, getReviewOfBabysitters |-> {"query", "reqUser"},
         updateProfile |-> {"data", "reqUser"}, getProfileUserByUserId |-> {"lang", "reqUser", "userId"}])
    \cup To("BOOKING",
        [createComment |-> {"data", "reqUser"}, getRatingUserById |-> {"value"}])

UserImages ==
    To("AUTH",
        [deleteUserImageById |-> {"id", "reqUser"}, setUserImageAsDefault |-> {"id", "reqUser"},
         createUserDevice |-> {"body", "user"}, getBabysitterRanking |-> {"lang", "reqUser", "type"},
         getBabysitterFavorites |-> {"query", "reqUser"},
         toggleBabysitterFavorite |-> {"babysitterId", "reqUser"}])

\* The guards of both gateways and of the sockets.
GuardMessages ==
    To("AUTH", [getUserSession |-> {"userId", "sessionId"}, hasPermission |-> {"userId", "permissionName"}])

AdminSent ==
    AdminAuth \cup AdminBatch \cup AdminBooking \cup AdminTerms \cup AdminConfig
        \cup AdminConversation \cup AdminManager \cup AdminMarketing \cup AdminNotices
        \cup AdminPost \cup AdminResource \cup AdminStatistics \cup AdminSupport
        \cup AdminUser
UserSent ==
    UserLogin \cup UserSignup \cup UserBooking \cup UserComment \cup UserConfig
        \cup UserChoices \cup UserConversation \cup UserLanguage \cup UserNotification
        \cup UserPosts \cup UserPost \cup UserRating \cup UserSupport \cup UserTermType
        \cup UserProfile \cup UserImages
ServicesSent ==
    AccountMessages \cup SessionMessages \cup BookingMessages \cup JobNotices \cup JobRemovals
        \cup CommentPoints \cup PostPoints

Messages == AdminSent \cup UserSent \cup ServicesSent \cup SocketGateway \cup GuardMessages

\* Sent for requests without a token.
PublicMessages ==
    UserConfig \cup UserChoices \cup UserTermType \cup AdminBatch
        \cup {m \in UserLogin \cup UserSignup \cup UserLanguage :
                m.cmd \in {"loginUser", "refreshToken", "socialCallback", "googleAuthRedirect",
                          "registerEmail", "verifySignupOtp", "resendOtp", "setPassword",
                          "forgotPassword", "verifyOtpForgotPassword", "resetPassword", "getLanguages"}}
        \cup {m \in AdminSent :
                m.cmd \in {"login", "forgotPassword", "verifyOtpForgotPassword", "resetPassword",
                          "verifyOtp", "refreshToken", "resendOtp", "getLanguages",
                          "pushAppNotification", "getListPost"}}

----------------------------------------------------------------------------
(* What becomes of a message. *)

ControllersOf(service) == {Controllers[service][i] : i \in DOMAIN Controllers[service]}
Handled(service) == UNION {DOMAIN controller : controller \in ControllersOf(service)}
Needed(m) == UNION {controller[m.cmd] : controller \in {c \in ControllersOf(m.to) : m.cmd \in DOMAIN c}}

\* These return nothing, and an answer of nothing is none.
Silent == {"getUserBatchLog", "updateUserBatchConfig"}

\* A message nobody handles, or that gets no answer, ends in a 503; one that lacks what its
\* handler reads ends as the handler does without it.
sendMessage(m) ==
    IF m.cmd \notin Handled(m.to) \/ m.cmd \in Silent THEN "unavailable"
    ELSE IF ~(Needed(m) \subseteq m.parts) THEN "lacking"
    ELSE "answered"

Commands(outcome) == {m.cmd : m \in {n \in Messages : sendMessage(n) = outcome}}

----------------------------------------------------------------------------
(* What the messages and the handlers owe one another. *)

\* No command is handled by two controllers of a service, one of which would hide the other.
ASSUME HandledOnce ==
    \A service \in DOMAIN Controllers : \A i, j \in DOMAIN Controllers[service] :
        i # j => DOMAIN Controllers[service][i] \cap DOMAIN Controllers[service][j] = {}

\* Every message is handled, and gets an answer, but for one the admin-gateway sends to a
\* notify-svc that does not know it and the two settings of a job that cron-svc leaves out.
ASSUME MessagesAreHandled ==
    Commands("unavailable") =
        {"updateGeneralNotificationDetail", "getUserBatchLog", "updateUserBatchConfig"}

\* Every message carries what its handler reads, but for the conversations the sockets would
\* open, the withdrawal of a marketing notice, sent as a question for its detail without an id,
\* and the user's list of questions, which reads a LanguageCode and is sent a languageCode.
ASSUME MessagesAreWhole ==
    Commands("lacking") = {"createConversation", "getNotificationDetail", "getUserFaqs"}

\* No handler is out of reach but the parent's profile.
ASSUME HandlersAreReached ==
    \A service \in DOMAIN Controllers :
        Handled(service) \ {m.cmd : m \in {n \in Messages : n.to = service}}
            = IF service = "AUTH" THEN {"getParentProfile"} ELSE {}

\* Nothing handled for a request without a token reads who asked: there is no such user.
ASSUME NobodyIsAskedFor ==
    \A m \in PublicMessages : (m.parts \cup Needed(m)) \cap {"reqUser", "user"} = {}
=============================================================================
