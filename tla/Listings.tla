------------------------------- MODULE Listings -------------------------------
(***************************************************************************)
(* What is listed to whom: posts and comments (post-svc), notices          *)
(* (notify-svc), requests to support (report-svc) and terms (config-svc).  *)
(* A filter of a query is the set of values it lets through, all of them   *)
(* when it is not given.                                                   *)
(***************************************************************************)
EXTENDS Queries

----------------------------------------------------------------------------
(* Posts. *)

\* The owner is joined: a deleted one has no name to match.
NamedOwner(p, users, search) ==
    \E u \in Undeleted(users) : u.id = p.ownerId /\ u.username \in search.username
\* The name of the owner is an alternative to the other two conditions.
searchPost(posts, users, search) ==
    {p \in Undeleted(posts) : (~p.isAdminPost /\ p.title \in search.title) \/ NamedOwner(p, users, search)}

getListPost(posts, users, filter) ==
    {p \in Undeleted(posts) : /\ p.createdAt \in filter.createdAt /\ p.isVisible \in filter.isVisible
                              /\ p.typeId \in filter.typeId /\ p.title \in filter.title
                              /\ filter.username = {} \/ NamedOwner(p, users, filter)}

getNotificationPostList(posts, role) ==
    {p \in Undeleted(posts) : p.isVisible /\ p.isAdminPost /\ p.targetUserType \in {role, "all"}}

getListUserPost(posts) ==
    LET notices == {p \in Undeleted(posts) : p.isAdminPost} IN
    [total |-> Cardinality(notices),
     latestPostDate |-> Max({0} \cup {p.createdAt : p \in notices}),
     userPost |-> {p \in Undeleted(posts) : ~p.isAdminPost /\ p.isVisible}]

PostsOf(posts, u) == {p \in Undeleted(posts) : p.ownerId = u}
ReactedBy(posts, reacts, u) == {p \in Undeleted(posts) : \E r \in reacts : r.postId = p.id /\ r.userId = u}
\* getListUserPostByUserId and getPostReacted skip page - 1 rows and not pages.
SlidingPage(results, page, limit) ==
    LET last == page - 1 + limit
    IN SubSeq(results, page, IF last < Len(results) THEN last ELSE Len(results))

----------------------------------------------------------------------------
(* Comments: threads of a root and all that answers below it. *)

Roots(comments, postId) == {c \in Undeleted(comments) : c.postId = postId /\ c.commentParentId = 0}
OldestFirst(rows) == Reverse(NewestFirst(rows))
Thread(comments, root) ==
    [root |-> root, children |-> OldestFirst({c \in Undeleted(comments) : c.commentRootId = root.id})]

\* Past the last page the total is none either.
getCommentByPostId(comments, postId, page, limit) ==
    LET roots == Roots(comments, postId)
        shown == PageOf(OldestFirst(roots), page, limit)
    IN [results |-> [i \in DOMAIN shown |-> Thread(comments, shown[i])],
        total |-> IF shown = <<>> THEN 0 ELSE Cardinality(roots)]

\* getCommentById, of any comment: only a root has comments below it.
getCommentById(comments, id) == {Thread(comments, c) : c \in {d \in Undeleted(comments) : d.id = id}}

\* With the post and its owner, if both are still there.
getMyCommentsOnPosts(comments, posts, users, me) ==
    LET owned == InnerJoin(Undeleted(posts), Undeleted(users), LAMBDA p, u : p.ownerId = u.id)
    IN {row[1] : row \in InnerJoin({c \in Undeleted(comments) : c.userId = me}, owned,
                                   LAMBDA c, pair : c.postId = pair[1].id)}

----------------------------------------------------------------------------
(* General notices.  Reading one records the user under userId; the list   *)
(* looks for user.id, which a token has not, and TypeORM leaves a          *)
(* condition on undefined out.                                             *)

ViewedBy(views, u, id) == views \cup {<<u, id>>}
Viewed(views, id) == \E view \in views : view[2] = id
getGeneralNotification(notices, views, filter) ==
    {[notice |-> n, isViewed |-> Viewed(views, n.id)] :
        n \in {m \in Undeleted(notices) : /\ m.isVisible \in filter.isVisible
                                     /\ m.targetReceiver \in filter.targetReceiver}}

\* Mail and push campaigns, by channel and status.
getListNotification(campaigns, filter, page, limit) ==
    LET found == {n \in Undeleted(campaigns) : n.channel \in filter.channel /\ n.status \in filter.status}
    IN getPagination(NewestFirst(found), page, limit)

----------------------------------------------------------------------------
(* Requests to support, and terms. *)

\* What is settled comes last.
Before(a, b) ==
    LET settled(r) == r.status = "SUCCESS"
    IN IF settled(a) = settled(b) THEN a.createdAt > b.createdAt ELSE settled(b)
getRequests(requests, filter) ==
    SetToSortSeq({r \in Undeleted(requests) : /\ r.type \in filter.type /\ r.status \in filter.status
                                         /\ Within(r.createdAt, filter.created)}, Before)
\* By the last question of each.
getRequestQuestions(requests, questions, me) ==
    LET last(r) == Max({0} \cup {q.createdAt : q \in {p \in Undeleted(questions) : p.requestId = r.id}})
        mine == {r \in Undeleted(requests) : r.type = "QUESTION" /\ r.userId = me}
    IN SetToSortSeq({[r EXCEPT !.createdAt = last(r)] : r \in mine}, Before)
readRequestQuestion(questions, requestId, me) ==
    {[q EXCEPT !.isRead = @ \/ (q.requestId = requestId /\ q.userId # me)] : q \in questions}

\* getTerms: the old versions of a term, or those that are not.
MatchesStatus(term, status) == (status = "OLD") = (term.displayStatus = "CANNOT_DISPLAY")
getTerms(terms, status) == {t \in Undeleted(terms) : MatchesStatus(t, status)}
getTermUser(terms, lang) == {t \in Undeleted(terms) : t.displayStatus = "DISPLAY" /\ t.language = lang}

----------------------------------------------------------------------------
(* Checked by evaluation, for all small tables of each kind. *)

Writers == {[id |-> 1, username |-> "mai", deleted |-> FALSE], [id |-> 2, username |-> "jun", deleted |-> TRUE]}
PostTable(n) ==
    {{[id |-> i, createdAt |-> i, ownerId |-> f[i].ownerId, isAdminPost |-> f[i].isAdminPost,
       isVisible |-> f[i].isVisible, targetUserType |-> f[i].targetUserType, title |-> f[i].title,
       typeId |-> 1, deleted |-> FALSE] : i \in 1..n} :
        f \in [1..n -> [ownerId : 1..2, isAdminPost : BOOLEAN, isVisible : BOOLEAN,
                        targetUserType : {"parent", "all"}, title : {"mai", "sea"}]]}

\* Searching by a word that is in no name finds posts of users only, hidden ones
\* among them; one that is a name finds all that user wrote, as admin too.
ASSUME SearchedPosts ==
    \A posts \in PostTable(2) :
        /\ searchPost(posts, Writers, [title |-> {"sea"}, username |-> {}])
             = {p \in posts : ~p.isAdminPost /\ p.title = "sea"}
        /\ PostsOf(posts, 1) \subseteq searchPost(posts, Writers, [title |-> {}, username |-> {"mai"}])
        /\ PostsOf(posts, 2) \cap searchPost(posts, Writers, [title |-> {}, username |-> {"jun"}]) = {}

\* The number beside the notices is never below what the user can open, and
\* above it as soon as one is hidden or for others.
ASSUME BadgeCoversTheNotices ==
    \A posts \in PostTable(2), role \in {"parent", "babysitter"} :
        LET shown == getNotificationPostList(posts, role)
            total == getListUserPost(posts).total IN
        /\ Cardinality(shown) <= total
        /\ Cardinality(shown) < total <=>
             \E p \in posts : p.isAdminPost /\ (~p.isVisible \/ p.targetUserType \notin {role, "all"})

\* A page that slides by a row shows every result, and each of them as often as
\* the page is long, but for the first ones.
ASSUME SlidingPagesRepeat ==
    \A n \in 0..5, limit \in 1..3 : \A i \in 1..n :
        LET all == [j \in 1..n |-> j]
        IN Cardinality({page \in 1..n : i \in ToSet(SlidingPage(all, page, limit))})
            = IF i < limit THEN i ELSE limit

\* Four comments: parent[i] is what comment i answers, 0 nothing.
CommentTable ==
    {LET root[i \in 1..4] == IF parent[i] = 0 THEN i ELSE root[parent[i]] IN
     {[id |-> i, createdAt |-> i, postId |-> 1, userId |-> 1, deleted |-> FALSE,
       commentParentId |-> parent[i], commentRootId |-> IF parent[i] = 0 THEN 0 ELSE root[i]] :
        i \in 1..4} : parent \in {f \in [1..4 -> 0..3] : \A i \in 1..4 : f[i] < i}}

\* The pages of a post show each of its comments once, in the thread it belongs
\* to, oldest first; past the last page the total is lost.
ASSUME EveryCommentIsShownOnce ==
    \A comments \in CommentTable, limit \in 1..2 :
        LET page(p) == getCommentByPostId(comments, 1, p, limit)
            threads == FlattenSeq([p \in 1..4 |-> page(p).results])
            shown == FlattenSeq([i \in DOMAIN threads |-> <<threads[i].root>> \o threads[i].children]) IN
        /\ ToSet(shown) = comments /\ Len(shown) = 4
        /\ \A i \in DOMAIN threads : IsSorted(threads[i].children, LAMBDA c, d : c.createdAt <= d.createdAt)
        /\ page(1).total = Cardinality(Roots(comments, 1)) /\ page(5).total = 0

\* Once anybody has opened a notice it is listed as viewed, to everybody.
ASSUME OneViewIsEverybodys ==
    \A views \in SUBSET ({1, 2} \X {1, 2}) :
        LET notices == {[id |-> i, isVisible |-> TRUE, targetReceiver |-> "all", deleted |-> FALSE] : i \in 1..2}
            listed == getGeneralNotification(notices, ViewedBy(views, 2, 1),
                          [isVisible |-> {TRUE}, targetReceiver |-> {"all"}])
        IN \A entry \in listed :
               entry.isViewed <=> \E u \in {1, 2} : <<u, entry.notice.id>> \in ViewedBy(views, 2, 1)

\* A request that waits is listed before every settled one, whatever their ages;
\* to its user a question with a new message moves up among those that wait.
ASSUME WaitingRequestsComeFirst ==
    \A status \in [1..3 -> {"PENDING", "SUCCESS"}], asked \in [1..3 -> 1..3] :
        LET requests == {[id |-> i, createdAt |-> i, type |-> "QUESTION", status |-> status[i],
                          userId |-> 1, deleted |-> FALSE] : i \in 1..3}
            questions == {[requestId |-> asked[i], createdAt |-> 10 + i, deleted |-> FALSE] : i \in 1..3}
            all == getRequests(requests, [type |-> {"QUESTION"}, status |-> {"PENDING", "SUCCESS"},
                                          created |-> [from |-> 1, to |-> 3]])
            mine == getRequestQuestions(requests, questions, 1)
            settledLast(s) == \A i, j \in 1..3 : s[i].status = "SUCCESS" /\ s[j].status = "PENDING" => j < i IN
        /\ settledLast(all) /\ settledLast(mine) /\ ToSet(all) = requests
        /\ status[asked[3]] = "PENDING" => mine[1].id = asked[3]
=============================================================================
