-------------------------------- MODULE Posts --------------------------------
(***************************************************************************)
(* A post of a user (post-svc): written, edited, deleted, opened by others *)
(* and removed with its owner.  Opening one reads the row, writes the      *)
(* number of views it read plus one and then records who viewed it: three  *)
(* round trips that other calls may come between.                          *)
(***************************************************************************)
EXTENDS ServiceCalls

VARIABLES
    post,           \* the row, its number of views and the rows of post_view
    postCalls,
    opened,         \* history: how many calls wrote the number of views
    raced           \* history: whether one wrote it while another had read it

postVars == <<post, postCalls, opened, raced>>

PostState == {"none", "live", "deleted", "erased"}
PostCall == [pc : {"idle", "read", "count", "view"}, user : Users \cup {None}, saw : 0..MaxCalls]
PostIdle == [pc |-> "idle", user |-> None, saw |-> 0]

PostsInit ==
    /\ post = [state |-> "none", countView |-> 0, viewers |-> {}, edited |-> FALSE]
    /\ postCalls = [k \in Calls |-> PostIdle]
    /\ opened = 0 /\ raced = FALSE

PostGoes(k, call) == postCalls' = [postCalls EXCEPT ![k] = call]
\* The statements find a row by its id, deleted or not.
Stored == post.state \in {"live", "deleted"}

createPost ==
    /\ post.state = "none" /\ Counted
    /\ post' = [post EXCEPT !.state = "live"]
    /\ UNCHANGED <<postCalls, opened, raced>>

\* updatePost and updateUserPost write first and read then: the edit of a
\* deleted post is written and the call fails.
updatePost ==
    /\ Stored /\ Counted
    /\ post' = [post EXCEPT !.edited = TRUE]
    /\ UNCHANGED <<postCalls, opened, raced>>

deletePost ==
    /\ post.state = "live" /\ Counted
    /\ post' = [post EXCEPT !.state = "deleted"]
    /\ UNCHANGED <<postCalls, opened, raced>>

getPostById(k, u) ==
    /\ postCalls[k] = PostIdle /\ Counted
    /\ PostGoes(k, [PostIdle EXCEPT !.pc = "read", !.user = u])
    /\ UNCHANGED <<post, opened, raced>>

\* A deleted post is not found.
ReadPost(k) ==
    /\ postCalls[k].pc = "read"
    /\ PostGoes(k, IF post.state = "live" THEN [postCalls[k] EXCEPT !.pc = "count", !.saw = post.countView]
                   ELSE PostIdle)
    /\ UNCHANGED <<post, opened, raced, called>>

SameAsSeen(c) == c.saw                                                  \* a mutant
NextCount(c) == c.saw + 1

WriteCount(k) ==
    /\ postCalls[k].pc = "count"
    /\ PostGoes(k, [postCalls[k] EXCEPT !.pc = "view"])
    /\ IF Stored
       THEN /\ post' = [post EXCEPT !.countView = NextCount(postCalls[k])]
            /\ opened' = opened + 1
            /\ raced' = (raced \/ \E j \in Calls \ {k} : postCalls[j].pc = "count")
       ELSE UNCHANGED <<post, opened, raced>>
    /\ UNCHANGED called

\* One row per viewer, inserted or written over; without the post it fails.
UpsertView(k) ==
    /\ postCalls[k].pc = "view"
    /\ PostGoes(k, PostIdle)
    /\ post' = IF Stored THEN [post EXCEPT !.viewers = @ \cup {postCalls[k].user}] ELSE post
    /\ UNCHANGED <<opened, raced, called>>

\* The removal of a viewer takes the row of post_view along, that of the owner
\* all of it.
RemoveViewer(u) ==
    /\ u \in post.viewers /\ Counted
    /\ post' = [post EXCEPT !.viewers = @ \ {u}]
    /\ UNCHANGED <<postCalls, opened, raced>>
RemoveOwner ==
    /\ Stored /\ Counted
    /\ post' = [post EXCEPT !.state = "erased", !.countView = 0, !.viewers = {}]
    /\ UNCHANGED <<postCalls, opened, raced>>

PostCrash ==
    /\ \E k \in Calls : postCalls[k] # PostIdle
    /\ postCalls' = [k \in Calls |-> PostIdle]
    /\ UNCHANGED <<post, opened, raced, called>>

PostsNext ==
    \/ createPost \/ updatePost \/ deletePost \/ RemoveOwner \/ PostCrash
    \/ \E u \in Users : RemoveViewer(u)
    \/ \E k \in Calls : \/ \E u \in Users : getPostById(k, u)
                        \/ ReadPost(k) \/ WriteCount(k) \/ UpsertView(k)

PostsTypeOK ==
    /\ post \in [state : PostState, countView : 0..MaxCalls, viewers : SUBSET Users, edited : BOOLEAN]
    /\ postCalls \in [Calls -> PostCall]
    /\ opened \in 0..MaxCalls /\ raced \in BOOLEAN

\* The number of views is that of the openings, and no less than the number of
\* different viewers, as long as no two openings overlapped; otherwise some are
\* lost, but it never exceeds them and is no longer zero.
CountIsOfViews ==
    Stored =>
        /\ post.countView <= opened
        /\ opened > 0 => post.countView > 0
        /\ ~raced => post.countView = opened /\ Cardinality(post.viewers) <= post.countView
=============================================================================
