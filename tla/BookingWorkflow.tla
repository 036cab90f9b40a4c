--------------------------- MODULE BookingWorkflow ---------------------------
(***************************************************************************)
(* What the booking service promises its two users: the life of a booking  *)
(* as a parent and a babysitter see it, with every operation taking effect *)
(* at once.  BookingLifecycle, which models the code, implements this when *)
(* no two operations on one booking overlap; its racing runs show what is  *)
(* lost when they do.                                                      *)
(***************************************************************************)
CONSTANT Bookings

VARIABLES
    stage,      \* stage[b]: where booking b stands
    viewed      \* the bookings whose babysitter has opened the detail page

vars == <<stage, viewed>>

Cancelled == {"sitter_cancelled", "parent_cancelled"}
Refused   == {"sitter_rejected", "parent_withdrawn", "expired"}

Stages == {"none", "draft", "pending", "confirmed", "completed", "erased"}
             \cup Cancelled \cup Refused

TypeOK ==
    /\ stage \in [Bookings -> Stages]
    /\ viewed \subseteq Bookings

Init ==
    /\ stage = [b \in Bookings |-> "none"]
    /\ viewed = {}

----------------------------------------------------------------------------
Move(b, from, to) ==
    /\ stage[b] \in from
    /\ \E s \in to : stage' = [stage EXCEPT ![b] = s]
    /\ UNCHANGED viewed

Create(b)  == Move(b, {"none"}, {"draft", "pending", "completed"})

Confirm(b) == Move(b, {"pending"}, {"confirmed"})

\* Giving up a request nobody confirmed and cancelling a confirmed booking
\* are different things, and the record says which one happened.
Refuse(b)  == Move(b, {"pending"}, {"sitter_rejected", "parent_withdrawn"})
Cancel(b)  == Move(b, {"confirmed"}, Cancelled)

View(b) ==
    /\ stage[b] \notin {"none", "erased"}
    /\ viewed' = viewed \cup {b}
    /\ UNCHANGED stage

\* The scheduled jobs and the removal of an account take many bookings at
\* once.
MoveAll(B, from, to) ==
    /\ \A b \in B : stage[b] \in from
    /\ stage' = [b \in Bookings |-> IF b \in B THEN to ELSE stage[b]]

Expire(B)   == MoveAll(B, {"pending"}, "expired") /\ UNCHANGED viewed
Complete(B) == MoveAll(B, {"confirmed"}, "completed") /\ UNCHANGED viewed
Erase(B)    == MoveAll(B, Stages \ {"none"}, "erased") /\ viewed' = viewed \ B

Next ==
    \/ \E b \in Bookings :
         Create(b) \/ Confirm(b) \/ Refuse(b) \/ Cancel(b) \/ View(b)
    \/ \E B \in SUBSET Bookings : Expire(B) \/ Complete(B) \/ Erase(B)

Spec == Init /\ [][Next]_vars
=============================================================================
