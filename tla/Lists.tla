-------------------------------- MODULE Lists --------------------------------
(***************************************************************************)
(* Who likes a post (post-svc), which babysitters a parent marked and the  *)
(* ranking an admin saved (auth-svc).  None of the tables has a unique     *)
(* column: only the order of the calls keeps a name from appearing twice.  *)
(***************************************************************************)
EXTENDS ServiceCalls

VARIABLES
    rows,           \* rows[l][u]: how often user u is in list l
    listCalls,
    twice           \* history: users and lists with overlapping calls

listVars == <<rows, listCalls, twice>>

\* One post, one babysitter and one type of ranking stand for all.
ListName == {"react", "favorite", "ranking"}

ListCall == [pc : {"idle", "look", "add", "remove", "clear", "fill"}, list : ListName,
             users : SUBSET Users]
ListIdle == [pc |-> "idle", list |-> "react", users |-> {}]

ListsInit ==
    /\ rows = [l \in ListName |-> [u \in Users |-> 0]]
    /\ listCalls = [k \in Calls |-> ListIdle]
    /\ twice = {}

ListGoes(k, pc) ==
    listCalls' = [listCalls EXCEPT ![k] = IF pc = "idle" THEN ListIdle ELSE [@ EXCEPT !.pc = pc]]

\* What k has in common with other calls that are about to write.
Meets(k) ==
    LET c == listCalls[k] IN
    {<<c.list, u>> : u \in c.users
        \cap UNION {listCalls[j].users : j \in {i \in Calls \ {k} :
                       listCalls[i].list = c.list /\ listCalls[i].pc \in {"add", "fill"}}}}

\* toggleReact and toggleBabysitterFavorite: the post or babysitter is there.
Toggle(k, l, u) ==
    /\ l # "ranking" /\ listCalls[k] = ListIdle /\ Counted
    /\ listCalls' = [listCalls EXCEPT ![k] = [pc |-> "look", list |-> l, users |-> {u}]]
    /\ UNCHANGED <<rows, twice>>

LookUpNothing(c) == FALSE                                               \* a mutant
LookedUp(c) == \E u \in c.users : rows[c.list][u] > 0

Look(k) ==
    /\ listCalls[k].pc = "look"
    /\ ListGoes(k, IF LookedUp(listCalls[k]) THEN "remove" ELSE "add")
    /\ twice' = IF LookedUp(listCalls[k]) THEN twice ELSE twice \cup Meets(k)
    /\ UNCHANGED <<rows, called>>

Added(c) == [rows EXCEPT ![c.list] = [u \in Users |-> IF u \in c.users THEN @[u] + 1 ELSE @[u]]]

AddRow(k) ==
    /\ listCalls[k].pc \in {"add", "fill"}
    /\ rows' = Added(listCalls[k])
    /\ ListGoes(k, "idle")
    /\ UNCHANGED <<twice, called>>

\* toggleReact deletes all rows of the user and the post, the other the row it
\* found.
RemoveRow(k) ==
    LET c == listCalls[k] IN
    /\ c.pc = "remove"
    /\ \E u \in c.users :
         rows' = [rows EXCEPT ![c.list][u] = IF c.list = "react" \/ @ = 0 THEN 0 ELSE @ - 1]
    /\ ListGoes(k, "idle")
    /\ UNCHANGED <<twice, called>>

\* saveBabysitterRanking: the babysitters were counted, so none is there twice.
saveBabysitterRanking(k, S) ==
    /\ listCalls[k] = ListIdle /\ Counted
    /\ listCalls' = [listCalls EXCEPT ![k] = [pc |-> "clear", list |-> "ranking", users |-> S]]
    /\ UNCHANGED <<rows, twice>>

ClearRanking(k) ==
    /\ listCalls[k].pc = "clear"
    /\ rows' = [rows EXCEPT !["ranking"] = [u \in Users |-> 0]]
    /\ ListGoes(k, "fill")
    /\ twice' = twice \cup Meets(k)
    /\ UNCHANGED called

ListCrash ==
    /\ \E k \in Calls : listCalls[k] # ListIdle
    /\ listCalls' = [k \in Calls |-> ListIdle]
    /\ UNCHANGED <<rows, twice, called>>

ListsNext ==
    \/ \E k \in Calls : \/ \E l \in ListName, u \in Users : Toggle(k, l, u)
                        \/ \E S \in SUBSET Users : saveBabysitterRanking(k, S)
                        \/ Look(k) \/ AddRow(k) \/ RemoveRow(k) \/ ClearRanking(k)
    \/ ListCrash

ListsTypeOK ==
    /\ rows \in [ListName -> [Users -> 0..MaxCalls]]
    /\ listCalls \in [Calls -> ListCall]
    /\ twice \subseteq ListName \X Users

\* Nobody likes a post or marks a babysitter twice or is ranked twice, unless
\* two calls for the same row overlapped.
NobodyIsListedTwice ==
    \A l \in ListName, u \in Users : rows[l][u] > 1 => <<l, u>> \in twice
=============================================================================
