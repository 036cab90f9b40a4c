------------------------------ MODULE Handlers ------------------------------
(* The commands the services handle.  A service is asked over the network by *)
(* command; each of its controllers says, with a pattern on every method,     *)
(* which commands it handles, and hands the message to the service class      *)
(* behind it.  What a command does is modelled where its service is; here a   *)
(* controller is the function from its commands to the parts of the message   *)
(* that are read and cannot be done without.  A part is a name of the         *)
(* message; a message that is one thing, an id or rows to be saved as they    *)
(* come, has the part "value".                                                *)

\* auth-svc

ProfileCommands ==
    [getProfile |-> {"reqUser", "langCode"}, getUserDeleted |-> {"query"},
     getUserByUserCode |-> {"role", "userCode"}, getProfileUser |-> {"lang", "reqUser"},
     getReviewOfBabysitters |-> {"reqUser", "query"},
     getProfileUserByUserId |-> {"userId", "lang", "reqUser"}, updateProfile |-> {"reqUser", "data"},
     getParentProfile |-> {"parentId", "lang"}, getBabysitters |-> {"lang"},
     updateBabysitterAllowBookingStatus |-> {"value"}, updateAllBabysitterAllowBookingStatus |-> {},
     getBabysitterForBooking |-> {"query", "reqUser"}]

ManagerCommands ==
    [createManager |-> {"email", "permissionIds"}, updateManager |-> {"id", "email", "permissionIds"},
     getManagers |-> {}, getManagerById |-> {"id", "lang"}, deleteManagerById |-> {"value"},
     createBabysitter |-> {"data", "reqUser"}, deleteAccount |-> {"reqUser"},
     getBabysitterFavorites |-> {"reqUser", "query"},
     toggleBabysitterFavorite |-> {"reqUser", "babysitterId"}, hardDeleteUserByIds |-> {"userIds"}]

BabysitterRankingController ==
    [getBabysitterRanking |-> {"reqUser", "lang", "type"},
     saveBabysitterRanking |-> {"babysitterIds", "type"}]

DeviceController ==
    [createUserDevice |-> {"body", "user"}]

PermissionController ==
    [hasPermission |-> {"userId", "permissionName"}]

ResourceController ==
    [getResources |-> {"value"}]

SessionController ==
    [login |-> {"email", "password"}, loginUser |-> {"email", "password", "app"},
     googleAuthRedirect |-> {"email", "provider", "id", "userRole", "languageCode"},
     socialCallback |-> {"email", "provider", "socialId", "userRole", "languageCode"},
     verifyOtp |-> {"userId", "otp"}, registerEmail |-> {"value"}, verifySignupOtp |-> {"email", "otp"},
     resendOtp |-> {"email", "type"},
     setPassword |-> {"email", "password", "userRole", "languageCode", "otp"},
     signup |-> {"data", "app", "reqUser", "lang"}, getUserSession |-> {"userId", "sessionId"},
     refreshToken |-> {"refreshToken"}, logout |-> {"body", "user"}, forgotPassword |-> {"email"},
     verifyOtpForgotPassword |-> {"email", "otp"}, resetPassword |-> {"email", "otp", "newPassword"}]

UserImageController ==
    [deleteUserImageById |-> {"reqUser", "id"}, setUserImageAsDefault |-> {"reqUser", "id"}]

\* booking-svc

BookingController ==
    [getBookings |-> {"page", "limit"}, getUserBookings |-> {"reqUser", "query", "lang"},
     getBookingSchedules |-> {"reqUser", "query", "lang"}, getBookingById |-> {"lang"},
     getBookingDraftWithBabysitter |-> {"babysitterId", "lang", "reqUser"},
     createBooking |-> {"reqUser", "data"}, createBookingParent |-> {"reqUser", "data"},
     cancelBooking |-> {"id", "canceledBy"}, confirmBooking |-> {"reqUser", "bookingId"},
     getBookingNotifications |-> {"reqUser", "query"},
     getBookingConfirmOfConversation |-> {"partnerId", "reqUser", "query"}]

RatingCommentController ==
    [createComment |-> {"reqUser", "data"}]

RatingUserController ==
    [getRatingUserById |-> {"value"}, createRatingBabysitter |-> {"reqUser", "data"},
     deleteRatingBabysitter |-> {"reqUser", "id"}, getRatingBabysitterDetail |-> {"reqUser", "id"},
     getRatingNotification |-> {"reqUser", "query"}, seenRatingNotification |-> {"reqUser", "id"}]

\* chat-svc

ConversationController ==
    [getListConversation |-> {"query"}, createConversation |-> {"user", "body"},
     getConversationById |-> {"conversationId"}, getConversationByUserId |-> {"userId"},
     toggleMuteConversation |-> {"reqUser", "id"}, togglePinConversation |-> {"reqUser", "id"},
     deleteConversation |-> {"reqUser", "id"}, getConversationAdminAndUser |-> {"reqUser", "userId"}]

MessageController ==
    [createMessage |-> {"receiver", "sender", "content"}, getConversationMessage |-> {"conversationId"},
     seenMessage |-> {"id", "reqUser"}]

\* config-svc

ConversationCheckListController ==
    [getConversationCheckList |-> {}]

CountryController ==
    [getCountry |-> {}, upsertCountry |-> {"countries"}, getCities |-> {"languageCode"}]

FaqController ==
    [getFaqs |-> {}, getFaqById |-> {"value"}, createFaq |-> {"languageId", "faqType"},
     updateFaq |-> {"id"}, getUserFaqs |-> {"reqUser", "LanguageCode"}]

IntroductionBannerController ==
    [getIntroductionBanner |-> {"type"}, saveIntroductionBanner |-> {"images", "reqUser"}]

IntroductionImageController ==
    [getIntroductionImage |-> {"type"}, saveIntroductionImage |-> {"images", "type", "reqUser"}]

LanguageController ==
    [getConfigLanguages |-> {"value"}, getLanguages |-> {},
     saveLanguageSettingLanguage |-> {"reqUser", "lang"}]

MetaDataController ==
    [getGenders |-> {"value"}, getListYears |-> {"value"}, getListChild |-> {"value"},
     getNumExperience |-> {"value"}, getCurrency |-> {}, saveCurrency |-> {"value"},
     getEnumFilterAge |-> {"value"}, getEnumRating |-> {"value"}, getEnumSortBabysitter |-> {"value"},
     getSchedule |-> {"date", "scheduleType"}, getLicense |-> {"app", "lang"}]

NotificationBackgroundController ==
    [getNotificationBackground |-> {"type"}, createNotificationBackground |-> {"data"}]

ReviewController ==
    [getReviews |-> {}]

SpecialServiceController ==
    [getSpecialServices |-> {"languageCode"}, createSpecialService |-> {"langCode", "details"},
     deleteSpecialService |-> {"id"}]

TermPolicyController ==
    [getTerms |-> {"query"}, getTermDetail |-> {"value"}, saveTerm |-> {"value"},
     updateTerm |-> {"id", "term"}, getTermUser |-> {"value"}, getTermMetaData |-> {},
     getServiceTerms |-> {}]

TermTypeController ==
    [getTermTypes |-> {}]

\* cron-svc

BatchController ==
    [getNotificationBatchLog |-> {"page", "limit"}, updateNotificationBatchConfig |-> {"duration"},
     getUserBatchLog |-> {}, updateUserBatchConfig |-> {}]

\* notify-svc

ChatController ==
    [sendNotificationMessage |-> {"receiver", "sender"}]

FcmController ==
    [pushAppNotification |-> {"userId", "notification"}]

GeneralController ==
    [getGeneralNotification |-> {"page", "limit"}, getGeneralNotificationDetail |-> {"id"},
     createGeneralNotification |-> {"body", "user"}]

MailController ==
    [createEmailTemplate |-> {"name", "subject"}, getEmailTemplate |-> {},
     getEmailTemplateDetail |-> {"templateName"}, sendEmail |-> {"name", "receivers"},
     updateEmailTemplate |-> {"name"}]

MarketingController ==
    [createEmailMarketing |-> {"title", "content", "targetReceiver", "sendTime"},
     getAlarmNotification |-> {"target"}, updateAlarmNotification |-> {"id", "body"},
     getPushType |-> {"languageCode"},
     createPushNotification |-> {"title", "content", "targetReceiver", "sendTime", "file",
                              "isAndroidApplied", "isIosApplied", "pushTypeId"},
     getListNotification |-> {"page", "limit"}, getNotificationDetail |-> {"id"}]

\* point-svc

PointController ==
    [addPoint |-> {"babysitterId", "type"}]

\* post-svc

CommentController ==
    [createComment |-> {"body", "user"}]

PostCommentController ==
    [getCommentByPostId |-> {"postId"}, getCommentById |-> {"commentId"},
     getMyCommentsOnPosts |-> {"reqUser", "query"}]

PostReactController ==
    [toggleReact |-> {"reqUser", "data"}]

PostController ==
    [getListPost |-> {"body", "query"}, getNotificationPostList |-> {"reqUser", "query"},
     getListUserPost |-> {"userId", "languageCode"}, getPostType |-> {"languageCode"},
     getPostCategory |-> {"languageCode"}, createPost |-> {"body", "user"},
     getPostDetail |-> {"id", "languageCode"}, updatePost |-> {"id", "body", "user"},
     updateUserPost |-> {"id", "body", "user"}, searchPost |-> {"languageCode", "query", "user"},
     deletePost |-> {"id"}, getHistorySearch |-> {"user"}, deleteSearchHistory |-> {"id"},
     getMyPost |-> {"reqUser", "query"}, getListUserPostByUserId |-> {"query", "userId"},
     getPostById |-> {"reqUser", "id"}, getPostReacted |-> {"reqUser", "query"}]

\* report-svc

RequestAbsenceController ==
    [createRequestAbsence |-> {"reqUser", "bookingId"}, updateRequestAbsence |-> {"id", "status"}]

RequestContactController ==
    [createRequestContact |-> {"reqUser", "phone"}, updateRequestContact |-> {"id", "status"}]

RequestQuestionController ==
    [createRequestQuestion |-> {"reqUser", "data"}, setRequestQuestionToSuccess |-> {"value"},
     getRequestQuestions |-> {"userId"}, readRequestQuestion |-> {"reqUser", "id"}]

RequestReportController ==
    [createRequestReport |-> {"reqUser", "data"}, answerRequestReport |-> {"reqUser", "data"}]

RequestController ==
    [getRequests |-> {"page", "limit"}, getRequestById |-> {"value"}]

StatisticsController ==
    [getStatisticsCommon |-> {"query", "lang"}, getStatisticsBabysitter |-> {},
     getStatisticsBabysitterRegion |-> {"cityIds"}, getStatisticsBabysitterList |-> {"type"},
     getStatisticsParent |-> {}]

\* The controllers of each service.
Controllers ==
    [AUTH |-> <<ProfileCommands, ManagerCommands, BabysitterRankingController, DeviceController,
                PermissionController, ResourceController, SessionController,
                UserImageController>>,
     BOOKING |-> <<BookingController, RatingCommentController, RatingUserController>>,
     CHAT |-> <<ConversationController, MessageController>>,
     CONFIG |-> <<ConversationCheckListController, CountryController, FaqController,
                  IntroductionBannerController, IntroductionImageController, LanguageController,
                  MetaDataController, NotificationBackgroundController, ReviewController,
                  SpecialServiceController, TermPolicyController, TermTypeController>>,
     CRON |-> <<BatchController>>,
     NOTIFY |-> <<ChatController, FcmController, GeneralController, MailController,
                  MarketingController>>,
     POINT |-> <<PointController>>,
     POST |-> <<CommentController, PostCommentController, PostReactController, PostController>>,
     REPORT |-> <<RequestAbsenceController, RequestContactController, RequestQuestionController,
                  RequestReportController, RequestController, StatisticsController>>]
=============================================================================
