------------------------------- MODULE Services -------------------------------
(***************************************************************************)
(* The small services side by side.  They share no row and call each other *)
(* for nothing that is modelled here, so a behaviour is one of a single    *)
(* service, the one in focus: their states add up instead of multiplying.  *)
(***************************************************************************)
EXTENDS Points, Ratings, SupportRequests, Terms, Lists, Posts, BookCodes, Forms, Settings

VARIABLE focus      \* the service, or the part or table of one, that runs

vars == <<pointVars, ratingVars, requestVars, termVars, listVars, codeVars, formVars,
          settingVars, postVars, called, focus>>

Init ==
    /\ PointsInit /\ RatingsInit /\ RequestsInit /\ TermsInit /\ ListsInit
    /\ CodesInit /\ FormsInit /\ SettingsInit /\ PostsInit
    /\ called = 0
    /\ focus \in {"points", "ratings", "requests", "terms", "lists", "posts", "codes", "services", "faqs"}
                 \cup Part

Keeps(service, v) == IF focus \in service THEN TRUE ELSE UNCHANGED v

\* What is not in focus stays.
OthersKeep ==
    /\ UNCHANGED focus
    /\ Keeps({"points"}, pointVars)     /\ Keeps({"ratings"}, ratingVars)
    /\ Keeps({"requests"}, requestVars) /\ Keeps({"terms"}, termVars)
    /\ Keeps({"lists"}, listVars)       /\ Keeps({"codes"}, codeVars)
    /\ Keeps({"posts"}, postVars)
    /\ Keeps(Part, formVars)            /\ Keeps({"services", "faqs"}, settingVars)

Next ==
    \/ focus = "points" /\ PointsNext /\ OthersKeep
    \/ focus = "ratings" /\ RatingsNext /\ OthersKeep
    \/ focus = "requests" /\ RequestsNext /\ OthersKeep
    \/ focus = "terms" /\ TermsNext /\ OthersKeep
    \/ focus = "lists" /\ ListsNext /\ OthersKeep
    \/ focus = "posts" /\ PostsNext /\ OthersKeep
    \/ focus = "codes" /\ CodesNext /\ OthersKeep
    \/ focus \in Part /\ FormsNext(focus) /\ OthersKeep
    \/ focus \in {"services", "faqs"} /\ SettingsNext(focus) /\ OthersKeep

Spec == Init /\ [][Next]_vars

\* Types of all rows and calls.
TypeOK ==
    /\ PointsTypeOK /\ RatingsTypeOK /\ RequestsTypeOK /\ TermsTypeOK /\ ListsTypeOK
    /\ BookCodesTypeOK /\ FormsTypeOK /\ SettingsTypeOK /\ PostsTypeOK
    /\ called \in 0..MaxCalls

\* Besides, every opening of a post is counted unless two overlapped: no view
\* is lost to a call that died or to an edit or removal in between.
ViewsAreCounted == TypeOK /\ CountIsOfViews
=============================================================================
