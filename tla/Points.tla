-------------------------------- MODULE Points --------------------------------
(***************************************************************************)
(* point-svc.  auth-svc (login) and post-svc (post, comment) ask for points*)
(* without waiting; a request counts the awards of the day, then writes the*)
(* total, then the log.  Points are counted in tenths.                     *)
(***************************************************************************)
EXTENDS ServiceCalls

CONSTANT MAX_COMMENTS_FOR_POINTS    \* awards per day and type

ASSUME PointsAssumption == MAX_COMMENTS_FOR_POINTS \in Nat

VARIABLES
    totalPoint,     \* totalPoint[u]: the row of points, None before the first
    pointLogs,      \* pointLogs[u]: the log of that row
    pointCalls,
    lost,           \* history: users with overlapping or cut awards
    crowded,        \* history: users and types with overlapping checks today
    given,          \* history: given[u][type]: awards the total got today
    cuts            \* history: cuts[u][type]: deaths today before the log of one

pointVars == <<totalPoint, pointLogs, pointCalls, lost, crowded, given, cuts>>

POINT_ADDED == [login |-> 1, comment |-> 2, post |-> 5]
ETypePoint == DOMAIN POINT_ADDED

\* today: made since midnight.
PointLog == [type : ETypePoint, today : BOOLEAN]

PointCall == [pc : {"idle", "count", "read", "write", "log"}, user : Users \cup {None},
              type : ETypePoint, copy : Nat \cup {None}]
PointIdle == [pc |-> "idle", user |-> None, type |-> "login", copy |-> None]

NoAwards == [type \in ETypePoint |-> 0]

PointsInit ==
    /\ totalPoint = [u \in Users |-> None]
    /\ pointLogs = [u \in Users |-> <<>>]
    /\ pointCalls = [k \in Calls |-> PointIdle]
    /\ lost = {} /\ crowded = {}
    /\ given = [u \in Users |-> NoAwards] /\ cuts = [u \in Users |-> NoAwards]

PointGoes(k, pc) ==
    pointCalls' = [pointCalls EXCEPT ![k] = IF pc = "idle" THEN PointIdle ELSE [@ EXCEPT !.pc = pc]]

\* The other calls for the user of k that are at one of pcs.
OtherAwards(k, pcs) ==
    {j \in Calls \ {k} : pointCalls[j].user = pointCalls[k].user /\ pointCalls[j].pc \in pcs}

addPoint(k, u, type) ==
    /\ pointCalls[k] = PointIdle /\ Counted
    /\ pointCalls' = [pointCalls EXCEPT ![k] = [pc |-> "count", user |-> u, type |-> type,
                                                copy |-> None]]
    /\ UNCHANGED <<totalPoint, pointLogs, lost, crowded, given, cuts>>

Today(u, type) ==
    {i \in DOMAIN pointLogs[u] : pointLogs[u][i].today /\ pointLogs[u][i].type = type}
DailyCap(type) == IF type = "login" THEN 1 ELSE MAX_COMMENTS_FOR_POINTS
CapPassed(u, type) == Cardinality(Today(u, type)) > DailyCap(type)      \* a mutant
CapReached(u, type) == Cardinality(Today(u, type)) >= DailyCap(type)

CountAwards(k) ==
    LET c == pointCalls[k]
        others == {j \in OtherAwards(k, {"read", "write", "log"}) : pointCalls[j].type = c.type} IN
    /\ c.pc = "count"
    /\ IF CapReached(c.user, c.type) THEN PointGoes(k, "idle") /\ UNCHANGED crowded
       ELSE /\ PointGoes(k, "read")
            /\ crowded' = IF others # {} THEN crowded \cup {<<c.user, c.type>>} ELSE crowded
    /\ UNCHANGED <<totalPoint, pointLogs, lost, given, cuts, called>>

\* upsertPoint.
ReadTotal(k) ==
    /\ pointCalls[k].pc = "read"
    /\ pointCalls' = [pointCalls EXCEPT ![k].pc = "write", ![k].copy = totalPoint[pointCalls[k].user]]
    /\ UNCHANGED <<totalPoint, pointLogs, lost, crowded, given, cuts, called>>

NewTotalOnly(c) == POINT_ADDED[c.type]                                  \* a mutant
NewTotal(c) == (IF c.copy = None THEN 0 ELSE c.copy) + POINT_ADDED[c.type]

\* A second first total is refused: the user is a unique column.
WriteTotal(k) ==
    LET c == pointCalls[k] IN
    /\ c.pc = "write"
    /\ IF c.copy = None /\ totalPoint[c.user] # None
       THEN PointGoes(k, "idle") /\ UNCHANGED <<totalPoint, lost, given>>
       ELSE /\ totalPoint' = [totalPoint EXCEPT ![c.user] = NewTotal(c)]
            /\ given' = [given EXCEPT ![c.user][c.type] = @ + 1]
            /\ PointGoes(k, "log")
            /\ lost' = IF OtherAwards(k, {"write"}) # {} THEN lost \cup {c.user} ELSE lost
    /\ UNCHANGED <<pointLogs, crowded, cuts, called>>

LogOf(c) == [type |-> c.type, today |-> TRUE]

WriteLog(k) ==
    LET c == pointCalls[k] IN
    /\ c.pc = "log"
    /\ pointLogs' = [pointLogs EXCEPT ![c.user] = Append(@, LogOf(c))]
    /\ PointGoes(k, "idle")
    /\ UNCHANGED <<totalPoint, lost, crowded, given, cuts, called>>

\* A call for the user and type is past its check.
Awarding(k, u, type) ==
    pointCalls[k].pc \in {"read", "write", "log"} /\ pointCalls[k].user = u /\ pointCalls[k].type = type

\* getTodayDateRange moves on.
Midnight ==
    /\ \E u \in Users : given[u] # NoAwards \/ \E i \in DOMAIN pointLogs[u] : pointLogs[u][i].today
    /\ given' = [u \in Users |-> NoAwards] /\ cuts' = [u \in Users |-> NoAwards]
    /\ crowded' = {c \in crowded : \E k \in Calls : Awarding(k, c[1], c[2])}
    /\ pointLogs' = [u \in Users |-> [i \in DOMAIN pointLogs[u] |->
                        [pointLogs[u][i] EXCEPT !.today = FALSE]]]
    /\ UNCHANGED <<totalPoint, pointCalls, lost, called>>

\* The process dies; what was not logged never is.
PointCrash ==
    /\ \E k \in Calls : pointCalls[k] # PointIdle
    /\ lost' = lost \cup {pointCalls[k].user : k \in {j \in Calls : pointCalls[j].pc = "log"}}
    /\ cuts' = [u \in Users |-> [type \in ETypePoint |->
                  IF \E k \in Calls : Awarding(k, u, type) /\ pointCalls[k].pc = "log"
                  THEN cuts[u][type] + 1 ELSE cuts[u][type]]]
    /\ pointCalls' = [k \in Calls |-> PointIdle]
    /\ UNCHANGED <<totalPoint, pointLogs, crowded, given, called>>

PointsNext ==
    \/ \E k \in Calls : \/ \E u \in Users, type \in ETypePoint : addPoint(k, u, type)
                        \/ CountAwards(k) \/ ReadTotal(k) \/ WriteTotal(k) \/ WriteLog(k)
    \/ Midnight \/ PointCrash

PointsTypeOK ==
    /\ totalPoint \in [Users -> Nat \cup {None}]
    /\ pointLogs \in [Users -> Seq(PointLog)]
    /\ pointCalls \in [Calls -> PointCall]
    /\ lost \subseteq Users /\ crowded \subseteq Users \X ETypePoint
    /\ given \in [Users -> [ETypePoint -> Nat]] /\ cuts \in [Users -> [ETypePoint -> Nat]]
    /\ \A u \in Users : totalPoint[u] = None => pointLogs[u] = <<>>     \* logs are of a total

\* The points of a user: in the row, in the log, and about to be logged.
Total(u) == IF totalPoint[u] = None THEN 0 ELSE totalPoint[u]
Logged(u) == SumFunction([i \in DOMAIN pointLogs[u] |-> POINT_ADDED[pointLogs[u][i].type]])
Logging(u) == {k \in Calls : pointCalls[k].user = u /\ pointCalls[k].pc = "log"}
ToLog(u) == SumFunction([k \in Logging(u) |-> POINT_ADDED[pointCalls[k].type]])

\* A total is the sum of its log and of what is about to be logged, unless two
\* awards of the user overlapped or one was cut.
TotalIsTheLog == \A u \in Users \ lost : Total(u) = Logged(u) + ToLog(u)

\* The total of a user gets no more awards of a type in a day than the cap, and
\* one for each time the process died between the total and the log of one (the
\* check counts the log), unless two were checked before either was logged.
AwardsStayUnderTheCap ==
    \A u \in Users, type \in ETypePoint :
        <<u, type>> \in crowded \/ given[u][type] <= DailyCap(type) + cuts[u][type]
=============================================================================
