---------------------------- MODULE ServiceProofs -----------------------------
(***************************************************************************)
(* Proofs of what the small services state, for any number of users,       *)
(* requests, terms and calls.  A service keeps what it states whatever the *)
(* others do, so there is one invariant per service.                       *)
(***************************************************************************)
EXTENDS Services, FiniteNumbers

USE CallsAssumption

\* A set has at most one element more than another it may add one to.
LEMMA OneMoreAtMost ==
    ASSUME NEW S, NEW T, NEW x, IsFiniteSet(S), T \subseteq S \cup {x}
    PROVE  /\ IsFiniteSet(T) /\ Cardinality(T) \in Nat
           /\ Cardinality(T) <= Cardinality(S) + 1
<1>1. /\ IsFiniteSet(S \cup {x})
      /\ Cardinality(S \cup {x}) = Cardinality(S) \/ Cardinality(S \cup {x}) = Cardinality(S) + 1
  BY FS_AddElement
<1>2. Cardinality(S) \in Nat
  BY FS_CardinalityType
<1>3. IsFiniteSet(T) /\ Cardinality(T) <= Cardinality(S \cup {x})
  BY <1>1, FS_Subset
<1>4. Cardinality(T) \in Nat /\ Cardinality(S \cup {x}) \in Nat
  BY <1>1, <1>3, FS_CardinalityType
<1> QED
  BY <1>1, <1>2, <1>3, <1>4

----------------------------------------------------------------------------
(* Lists: likes, favorites and rankings. *)

Writes(c) == c.pc \in {"add", "fill"}

\* Whoever is about to add a user found none, and is alone, unless calls met.
ListInv ==
    /\ rows \in [ListName -> [Users -> Nat]]
    /\ listCalls \in [Calls -> ListCall]
    /\ \A k \in Calls : listCalls[k].pc \in {"clear", "fill"} => listCalls[k].list = "ranking"
    /\ \A k \in Calls : Writes(listCalls[k]) =>
         \A u \in listCalls[k].users :
           <<listCalls[k].list, u>> \in twice \/ rows[listCalls[k].list][u] = 0
    /\ \A j, k \in Calls : j # k /\ Writes(listCalls[j]) /\ Writes(listCalls[k])
                           /\ listCalls[j].list = listCalls[k].list =>
         \A u \in listCalls[j].users \cap listCalls[k].users : <<listCalls[k].list, u>> \in twice
    /\ NobodyIsListedTwice

LEMMA ListsMove ==
    ASSUME [Next]_vars
    PROVE  ListsNext \/ UNCHANGED listVars
BY DEF Next, vars, OthersKeep, Keeps, listVars, Part

LEMMA InitLists == Init => ListInv
BY DEF Init, ListsInit, ListInv, ListIdle, ListCall, ListName, Writes, NobodyIsListedTwice

\* Rows that only go, and calls that are not about to write or were before.
LEMMA ListsStay ==
    ASSUME ListInv, twice \subseteq twice', rows' \in [ListName -> [Users -> Nat]],
           listCalls' \in [Calls -> ListCall],
           \A l \in ListName, u \in Users : rows'[l][u] <= rows[l][u],
           \A k \in Calls :
             \/ listCalls'[k] = listCalls[k]
             \/ ~Writes(listCalls'[k]) /\ (listCalls'[k].pc = "clear" => listCalls'[k].list = "ranking")
    PROVE  ListInv'
<1>1. (\A k \in Calls : Writes(listCalls[k]) =>
         \A u \in listCalls[k].users :
           <<listCalls[k].list, u>> \in twice \/ rows[listCalls[k].list][u] = 0)'
  <2> SUFFICES ASSUME NEW k \in Calls, Writes(listCalls'[k]), NEW u \in listCalls'[k].users,
                      <<listCalls'[k].list, u>> \notin twice'
               PROVE  rows'[listCalls'[k].list][u] = 0
    OBVIOUS
  <2>1. listCalls'[k] = listCalls[k] /\ listCalls[k] \in ListCall
    BY DEF Writes, ListInv
  <2>2. rows[listCalls[k].list][u] = 0 /\ listCalls[k].list \in ListName /\ u \in Users
    BY <2>1 DEF ListInv, ListCall
  <2>3. rows'[listCalls[k].list][u] \in Nat
    BY <2>2
  <2> QED
    BY <2>1, <2>2, <2>3
<1>2. NobodyIsListedTwice'
  <2> SUFFICES ASSUME NEW l \in ListName, NEW u \in Users, rows'[l][u] > 1
               PROVE  <<l, u>> \in twice'
    BY DEF NobodyIsListedTwice
  <2>1. rows[l][u] \in Nat /\ rows'[l][u] \in Nat /\ rows'[l][u] <= rows[l][u]
    BY DEF ListInv
  <2> QED
    BY <2>1 DEF ListInv, NobodyIsListedTwice
<1> QED
  BY <1>1, <1>2 DEF ListInv, Writes

LEMMA ListMoved ==
    ASSUME ListInv, NEW k \in Calls, NEW pc, ListGoes(k, pc)
    PROVE  /\ \A j \in Calls \ {k} : listCalls'[j] = listCalls[j]
           /\ pc = "idle" => listCalls'[k] = ListIdle
           /\ pc # "idle" => /\ listCalls'[k].pc = pc
                             /\ listCalls'[k].list = listCalls[k].list
                             /\ listCalls'[k].users = listCalls[k].users
           /\ pc \in {"add", "remove", "fill", "idle"} => listCalls' \in [Calls -> ListCall]
<1>1. listCalls \in [Calls -> ListCall] /\ listCalls[k] \in ListCall
  BY DEF ListInv
<1>2. pc # "idle" => listCalls'[k] = [listCalls[k] EXCEPT !.pc = pc]
  BY <1>1 DEF ListGoes
<1>3. pc = "idle" => listCalls'[k] = ListIdle
  BY <1>1 DEF ListGoes
<1>4. \A j \in Calls \ {k} : listCalls'[j] = listCalls[j]
  BY <1>1 DEF ListGoes
<1>5. pc # "idle" => /\ listCalls'[k].pc = pc
                     /\ listCalls'[k].list = listCalls[k].list
                     /\ listCalls'[k].users = listCalls[k].users
  BY <1>1, <1>2 DEF ListCall
<1>6. ASSUME pc \in {"add", "remove", "fill", "idle"}
      PROVE  listCalls' \in [Calls -> ListCall]
  <2>1. listCalls'[k] \in ListCall
    BY <1>1, <1>2, <1>3, <1>6 DEF ListCall, ListIdle, ListName
  <2>2. \E c : listCalls' = [listCalls EXCEPT ![k] = c]
    BY DEF ListGoes
  <2> QED
    BY <1>1, <2>1, <2>2
<1> QED
  BY <1>3, <1>4, <1>5, <1>6

\* A call that comes to add users it found nothing of.
LEMMA ComesToAdd ==
    ASSUME ListInv, NEW k \in Calls, NEW pc \in {"add", "fill"}, ListGoes(k, pc),
           ~Writes(listCalls[k]),
           pc = "fill" => listCalls[k].list = "ranking",
           rows' \in [ListName -> [Users -> Nat]],
           \A l \in ListName, u \in Users : rows'[l][u] <= rows[l][u],
           \A u \in listCalls[k].users : rows'[listCalls[k].list][u] = 0,
           twice' = twice \cup Meets(k)
    PROVE  ListInv'
<1>1. /\ \A j \in Calls \ {k} : listCalls'[j] = listCalls[j]
      /\ listCalls'[k].pc = pc /\ listCalls'[k].list = listCalls[k].list
      /\ listCalls'[k].users = listCalls[k].users /\ listCalls' \in [Calls -> ListCall]
  BY ListMoved
<1>2. \A j \in Calls : listCalls[j] \in ListCall
  BY DEF ListInv
<1>3. (\A j \in Calls : listCalls[j].pc \in {"clear", "fill"} => listCalls[j].list = "ranking")'
  BY <1>1 DEF ListInv
<1>4. ASSUME NEW j \in Calls, Writes(listCalls'[j]), NEW u \in listCalls'[j].users,
             <<listCalls'[j].list, u>> \notin twice'
      PROVE  rows'[listCalls'[j].list][u] = 0
  <2>1. CASE j = k
    BY <1>1, <1>4, <2>1
  <2>2. CASE j # k
    <3>1. listCalls'[j] = listCalls[j] /\ listCalls[j].list \in ListName /\ u \in Users
      BY <1>1, <1>2, <1>4, <2>2 DEF ListCall
    <3>2. rows[listCalls[j].list][u] = 0
      BY <1>4, <3>1 DEF ListInv
    <3>3. rows'[listCalls[j].list][u] \in Nat /\ rows'[listCalls[j].list][u] <= 0
      BY <3>1, <3>2
    <3> QED
      BY <3>1, <3>3
  <2> QED
    BY <2>1, <2>2
<1>5. ASSUME NEW j \in Calls, j # k, Writes(listCalls[j]), listCalls[j].list = listCalls[k].list,
             NEW u \in listCalls[j].users \cap listCalls[k].users
      PROVE  <<listCalls[k].list, u>> \in twice'
  BY <1>5 DEF Meets, Writes
<1>6. (\A i, j \in Calls : i # j /\ Writes(listCalls[i]) /\ Writes(listCalls[j])
                           /\ listCalls[i].list = listCalls[j].list =>
         \A u \in listCalls[i].users \cap listCalls[j].users : <<listCalls[j].list, u>> \in twice)'
  <2> SUFFICES ASSUME NEW i \in Calls, NEW j \in Calls, i # j, Writes(listCalls'[i]),
                      Writes(listCalls'[j]), listCalls'[i].list = listCalls'[j].list,
                      NEW u \in listCalls'[i].users \cap listCalls'[j].users
               PROVE  <<listCalls'[j].list, u>> \in twice'
    OBVIOUS
  <2>1. CASE i = k
    <3>1. listCalls'[j] = listCalls[j]
      BY <1>1, <2>1
    <3> QED
      BY <1>1, <1>5, <2>1, <3>1
  <2>2. CASE j = k
    <3>1. listCalls'[i] = listCalls[i]
      BY <1>1, <2>2
    <3> QED
      BY <1>1, <1>5, <2>2, <3>1
  <2>3. CASE i # k /\ j # k
    BY <1>1, <2>3 DEF ListInv
  <2> QED
    BY <2>1, <2>2, <2>3
<1>7. NobodyIsListedTwice'
  <2> SUFFICES ASSUME NEW l \in ListName, NEW u \in Users, rows'[l][u] > 1
               PROVE  <<l, u>> \in twice'
    BY DEF NobodyIsListedTwice
  <2>1. rows[l][u] \in Nat /\ rows'[l][u] \in Nat /\ rows'[l][u] <= rows[l][u]
    BY DEF ListInv
  <2> QED
    BY <2>1 DEF ListInv, NobodyIsListedTwice
<1> QED
  BY <1>1, <1>3, <1>4, <1>6, <1>7 DEF ListInv

LEMMA AddKeeps ==
    ASSUME ListInv, NEW k \in Calls, AddRow(k)
    PROVE  ListInv'
<1> DEFINE c == listCalls[k]
<1>1. /\ \A j \in Calls \ {k} : listCalls'[j] = listCalls[j]
      /\ ~Writes(listCalls'[k]) /\ listCalls'[k].pc = "idle" /\ listCalls' \in [Calls -> ListCall]
  BY ListMoved DEF AddRow, ListIdle, Writes
<1>2. c \in ListCall /\ c.list \in ListName /\ rows \in [ListName -> [Users -> Nat]] /\ Writes(c)
  BY DEF ListInv, ListCall, AddRow, Writes
<1>3. rows' = [rows EXCEPT ![c.list] = [u \in Users |-> IF u \in c.users THEN rows[c.list][u] + 1 ELSE rows[c.list][u]]]
  BY <1>2 DEF AddRow, Added
<1>4. UNCHANGED twice
  BY DEF AddRow
<1> HIDE DEF c
<1>5. rows' \in [ListName -> [Users -> Nat]]
  BY <1>2, <1>3
<1>6. \A l \in ListName, u \in Users : rows'[l][u] = rows[l][u] \/ (l = c.list /\ u \in c.users /\ rows'[l][u] = rows[l][u] + 1)
  BY <1>2, <1>3
<1>7. NobodyIsListedTwice'
  <2> SUFFICES ASSUME NEW l \in ListName, NEW u \in Users, rows'[l][u] > 1, <<l, u>> \notin twice
               PROVE  FALSE
    BY <1>4 DEF NobodyIsListedTwice
  <2>1. ~(rows[l][u] > 1)
    BY DEF ListInv, NobodyIsListedTwice
  <2>2. l = c.list /\ u \in c.users => rows[l][u] = 0
    BY <1>2 DEF ListInv, c
  <2> QED
    BY <1>2, <1>6, <2>1, <2>2
<1>8. ASSUME NEW j \in Calls, Writes(listCalls'[j]), NEW u \in listCalls'[j].users,
             <<listCalls'[j].list, u>> \notin twice
      PROVE  rows'[listCalls'[j].list][u] = 0
  <2>1. j # k /\ listCalls'[j] = listCalls[j] /\ listCalls[j] \in ListCall
    BY <1>1, <1>8 DEF ListInv
  <2>2. rows[listCalls[j].list][u] = 0 /\ listCalls[j].list \in ListName /\ u \in Users
    BY <1>8, <2>1 DEF ListInv, ListCall
  <2>3. ~(listCalls[j].list = c.list /\ u \in c.users)
    BY <1>2, <1>8, <2>1 DEF ListInv, c
  <2> QED
    BY <1>6, <2>1, <2>2, <2>3
<1> QED
  BY <1>1, <1>4, <1>5, <1>7, <1>8 DEF ListInv

LEMMA NextLists ==
    ASSUME ListInv, [Next]_vars
    PROVE  ListInv'
<1>1. /\ rows \in [ListName -> [Users -> Nat]] /\ listCalls \in [Calls -> ListCall]
      /\ \A k \in Calls : listCalls[k] \in ListCall
  BY DEF ListInv
<1>2. CASE \E k \in Calls : (\E l \in ListName, u \in Users : Toggle(k, l, u))
                            \/ (\E S \in SUBSET Users : saveBabysitterRanking(k, S))
  <2>1. PICK k \in Calls, c \in ListCall : listCalls' = [listCalls EXCEPT ![k] = c]
                       /\ ~Writes(c) /\ (c.pc = "clear" => c.list = "ranking") /\ UNCHANGED <<rows, twice>>
    BY <1>2 DEF Writes, Toggle, saveBabysitterRanking, ListCall, ListName
  <2> QED
    BY <1>1, <2>1, ListsStay
<1>3. ASSUME NEW k \in Calls, Look(k)
      PROVE  ListInv'
  <2>1. listCalls[k].pc = "look" /\ UNCHANGED rows
    BY <1>3 DEF Look
  <2>2. CASE LookedUp(listCalls[k])
    <3>1. ListGoes(k, "remove") /\ UNCHANGED twice
      BY <1>3, <2>2 DEF Look
    <3> QED
      BY <1>1, <2>1, <3>1, ListMoved, ListsStay DEF Writes
  <2>3. CASE ~LookedUp(listCalls[k])
    <3>1. ListGoes(k, "add") /\ twice' = twice \cup Meets(k)
      BY <1>3, <2>3 DEF Look
    <3>2. \A u \in listCalls[k].users : rows'[listCalls[k].list][u] = 0
      <4> TAKE u \in listCalls[k].users
      <4>1. rows[listCalls[k].list][u] \in Nat /\ ~(rows[listCalls[k].list][u] > 0)
        BY <1>1, <2>3 DEF ListCall, LookedUp
      <4> QED
        BY <2>1, <4>1
    <3> QED
      BY <1>1, <2>1, <3>1, <3>2, ComesToAdd DEF Writes
  <2> QED
    BY <2>2, <2>3
<1>4. ASSUME NEW k \in Calls, RemoveRow(k)
      PROVE  ListInv'
  <2> DEFINE c == listCalls[k]
  <2>1. PICK u \in c.users : rows' = [rows EXCEPT ![c.list][u] = IF c.list = "react" \/ @ = 0 THEN 0 ELSE @ - 1]
    BY <1>4 DEF RemoveRow
  <2>2. c.list \in ListName /\ u \in Users
    BY <1>1 DEF ListCall
  <2> DEFINE n == IF c.list = "react" \/ rows[c.list][u] = 0 THEN 0 ELSE rows[c.list][u] - 1
  <2>3. rows' = [rows EXCEPT ![c.list] = [rows[c.list] EXCEPT ![u] = n]]
    BY <1>1, <2>1, <2>2
  <2>4. n \in Nat /\ n <= rows[c.list][u]
    BY <1>1, <2>2
  <2>5. ListGoes(k, "idle") /\ UNCHANGED twice
    BY <1>4 DEF RemoveRow
  <2> HIDE DEF c, n
  <2>6. rows' \in [ListName -> [Users -> Nat]]
    BY <1>1, <2>2, <2>3, <2>4
  <2>7. \A l \in ListName, v \in Users : rows'[l][v] <= rows[l][v]
    BY <1>1, <2>2, <2>3, <2>4
  <2> QED
    BY <2>5, <2>6, <2>7, ListMoved, ListsStay DEF ListIdle, Writes
<1>5. ASSUME NEW k \in Calls, ClearRanking(k)
      PROVE  ListInv'
  <2>1. /\ ListGoes(k, "fill") /\ twice' = twice \cup Meets(k) /\ listCalls[k].pc = "clear"
        /\ rows' = [rows EXCEPT !["ranking"] = [u \in Users |-> 0]]
    BY <1>5 DEF ClearRanking
  <2>2. rows' \in [ListName -> [Users -> Nat]]
    BY <1>1, <2>1
  <2>3. \A l \in ListName, v \in Users : rows'[l][v] <= rows[l][v]
    BY <1>1, <2>1
  <2>4. listCalls[k].list = "ranking"
    BY <2>1 DEF ListInv
  <2>5. \A u \in listCalls[k].users : rows'[listCalls[k].list][u] = 0
    BY <1>1, <2>1, <2>4 DEF ListCall, ListName
  <2> QED
    BY <2>1, <2>2, <2>3, <2>4, <2>5, ComesToAdd DEF Writes
<1>6. CASE ListCrash
  <2>1. listCalls' \in [Calls -> ListCall] /\ UNCHANGED <<rows, twice>>
        /\ \A k \in Calls : listCalls'[k].pc = "idle"
    BY <1>6 DEF ListCrash, ListIdle, ListCall, ListName
  <2> QED
    BY <1>1, <2>1, ListsStay DEF Writes
<1>7. CASE UNCHANGED listVars
  BY <1>1, <1>7, ListsStay DEF listVars
<1> QED
  BY <1>2, <1>3, <1>4, <1>5, <1>6, <1>7, AddKeeps, ListsMove DEF ListsNext

\* Nobody likes a post, is marked or is ranked twice, unless two calls for the
\* row overlapped (toggleReact, toggleBabysitterFavorite, saveBabysitterRanking).
THEOREM NobodyIsEverListedTwice == Spec => []NobodyIsListedTwice
<1>1. ListInv /\ [Next]_vars => ListInv'
  BY NextLists
<1>2. ListInv => NobodyIsListedTwice
  BY DEF ListInv
<1> QED
  BY <1>1, <1>2, InitLists, PTL DEF Spec

----------------------------------------------------------------------------
(* Requests to support. *)

Row == [type : ERequestType \cup {None}, status : ERequestStatus, questions : Nat]

Settled(r) == requests[r].type = "question" /\ requests[r].status = "success"
Holds(k, r) == requestCalls[k].request = r /\ requestCalls[k].pc \in {"update", "question"}
Closes(k) == requestCalls[k].pc = "update" /\ requestCalls[k].status = "success"

\* A call has a request and, to update it, a status; support does not settle by
\* answering.
RequestCallOK(c) ==
    /\ c.pc # "idle" => c.request \in Requests
    /\ c.pc = "update" => /\ c.status \in ERequestStatus
                          /\ c.by = "staff" => c.status # "success"

\* Calls that hold the row of a settled question will settle it again, and that
\* is all, unless it was settled under their hands.
RequestInv ==
    /\ requests \in [Requests -> Row]
    /\ requestCalls \in [Calls -> RequestCall]
    /\ \A k \in Calls : RequestCallOK(requestCalls[k])
    /\ \A r \in Requests \ reopened, k \in Calls : Settled(r) /\ Holds(k, r) => Closes(k)

SettledStay == \A r \in Requests \ reopened : Settled(r) => requests'[r] = requests[r]

LEMMA RequestsMove ==
    ASSUME [Next]_vars
    PROVE  RequestsNext \/ UNCHANGED requestVars
BY DEF Next, vars, OthersKeep, Keeps, requestVars, Part

LEMMA InitRequests == Init => RequestInv
BY DEF Init, RequestsInit, RequestInv, RequestIdle, RequestCall, ERequestStatus, NoRequest, Row,
       RequestCallOK, Settled

\* A call that changes no row, and holds none that is settled but to close it.
LEMMA CallKeepsRequests ==
    ASSUME RequestInv, NEW k \in Calls, NEW c \in RequestCall, RequestCallOK(c),
           requestCalls' = [requestCalls EXCEPT ![k] = c], UNCHANGED <<requests, reopened>>,
           c.pc = "update" /\ c.status # "success" => ~Settled(c.request),
           c.pc = "question" => ~Settled(c.request)
    PROVE  RequestInv' /\ SettledStay
<1>1. \A j \in Calls : requestCalls'[j] = IF j = k THEN c ELSE requestCalls[j]
  BY DEF RequestInv
<1>2. \A r \in Requests \ reopened, j \in Calls : (Settled(r) /\ Holds(j, r))' => Closes(j)'
  <2> SUFFICES ASSUME NEW r \in Requests \ reopened, NEW j \in Calls, Settled(r), Holds(j, r)'
               PROVE  Closes(j)'
    BY DEF Settled
  <2>1. CASE j = k
    BY <1>1, <2>1 DEF Holds, Closes
  <2>2. CASE j # k
    BY <1>1, <2>2 DEF RequestInv, Holds, Closes
  <2> QED
    BY <2>1, <2>2
<1> QED
  BY <1>1, <1>2 DEF RequestInv, SettledStay

LEMMA ReadKeeps ==
    ASSUME RequestInv, NEW k \in Calls, ReadRequest(k)
    PROVE  RequestInv' /\ SettledStay
<1> DEFINE c == requestCalls[k]
<1>1. c \in RequestCall /\ c.request \in Requests /\ RequestCallOK(c)
  BY DEF RequestInv, RequestCallOK, ReadRequest
<1>2. UNCHANGED <<requests, reopened>> /\ requestCalls \in [Calls -> RequestCall]
  BY DEF ReadRequest, RequestInv
<1>3. CASE requestCalls' = [requestCalls EXCEPT ![k].pc = "update", ![k].status = "success"] /\ c.by = "close"
  <2> DEFINE d == [c EXCEPT !.pc = "update", !.status = "success"]
  <2>1. /\ d \in RequestCall /\ d.pc = "update" /\ d.status = "success" /\ d.by = "close"
        /\ d.request = c.request
    BY <1>1, <1>3 DEF RequestCall, ERequestStatus
  <2>2. requestCalls' = [requestCalls EXCEPT ![k] = d]
    BY <1>2, <1>3
  <2> HIDE DEF c, d
  <2> QED
    BY <1>1, <1>2, <2>1, <2>2, CallKeepsRequests DEF RequestCallOK, ERequestStatus
<1>4. CASE /\ requestCalls' = [requestCalls EXCEPT ![k].pc = "update", ![k].status = "in_progress"]
           /\ c.by = "staff" /\ MayAsk(requests[c.request].status)
  <2> DEFINE d == [c EXCEPT !.pc = "update", !.status = "in_progress"]
  <2>1. /\ d \in RequestCall /\ d.pc = "update" /\ d.status = "in_progress"
        /\ d.request = c.request
    BY <1>1, <1>4 DEF RequestCall, ERequestStatus
  <2>2. requestCalls' = [requestCalls EXCEPT ![k] = d]
    BY <1>2, <1>4
  <2>3. ~Settled(d.request)
    BY <1>4, <2>1 DEF Settled, MayAsk
  <2> HIDE DEF c, d
  <2> QED
    BY <1>1, <1>2, <2>1, <2>2, <2>3, CallKeepsRequests DEF RequestCallOK, ERequestStatus
<1>5. CASE RequestGoes(k, "question") /\ MayAsk(requests[c.request].status)
  <2> DEFINE d == [c EXCEPT !.pc = "question"]
  <2>1. d \in RequestCall /\ d.pc = "question" /\ d.request = c.request
    BY <1>1 DEF RequestCall
  <2>2. requestCalls' = [requestCalls EXCEPT ![k] = d]
    BY <1>2, <1>5 DEF RequestGoes
  <2>3. ~Settled(d.request)
    BY <1>5, <2>1 DEF Settled, MayAsk
  <2> HIDE DEF c, d
  <2> QED
    BY <1>1, <1>2, <2>1, <2>2, <2>3, CallKeepsRequests DEF RequestCallOK
<1>6. CASE RequestGoes(k, "idle")
  <2>1. requestCalls' = [requestCalls EXCEPT ![k] = RequestIdle]
    BY <1>6 DEF RequestGoes
  <2>2. RequestIdle \in RequestCall /\ RequestIdle.pc = "idle"
    BY DEF RequestIdle, RequestCall
  <2> QED
    BY <1>2, <2>1, <2>2, CallKeepsRequests DEF RequestCallOK
<1> QED
  BY <1>3, <1>4, <1>5, <1>6 DEF ReadRequest

LEMMA BeginKeepsRequests ==
    ASSUME RequestInv, NEW k \in Calls, NEW r \in Requests, NEW pc \in {"read", "update"},
           NEW by \in {"user", "staff", "close"}, NEW status \in ERequestStatus \cup {None},
           pc = "update" => status \in ERequestStatus /\ by = "close" /\ ~Settled(r),
           RequestBegins(k, pc, r, by, status), UNCHANGED <<requests, reopened>>
    PROVE  RequestInv' /\ SettledStay
<1> DEFINE c == [pc |-> pc, request |-> r, by |-> by, status |-> status]
<1>1. c \in RequestCall /\ RequestCallOK(c) /\ c.pc = pc /\ c.request = r
  BY DEF RequestCall, RequestCallOK
<1>2. requestCalls' = [requestCalls EXCEPT ![k] = c]
  BY DEF RequestBegins
<1> HIDE DEF c
<1> QED
  BY <1>1, <1>2, CallKeepsRequests

LEMMA UpdateKeeps ==
    ASSUME RequestInv, NEW k \in Calls, UpdateRequest(k)
    PROVE  RequestInv' /\ SettledStay
<1> DEFINE c == requestCalls[k]
           row == [requests[c.request] EXCEPT !.status = c.status]
           d == IF c.by = "staff" THEN [c EXCEPT !.pc = "question"] ELSE RequestIdle
<1>1. /\ c \in RequestCall /\ c.request \in Requests /\ RequestCallOK(c) /\ c.pc = "update"
      /\ c.status \in ERequestStatus /\ (c.by = "staff" => c.status # "success")
  BY DEF RequestInv, RequestCallOK, UpdateRequest
<1>2. /\ requests \in [Requests -> Row] /\ requestCalls \in [Calls -> RequestCall]
      /\ requests[c.request] \in Row
  BY <1>1 DEF RequestInv
<1>3. row \in Row /\ row.status = c.status /\ row.type = requests[c.request].type
      /\ (requests[c.request].status = c.status => row = requests[c.request])
  BY <1>1, <1>2 DEF Row
<1>4. requests' = [requests EXCEPT ![c.request] = row]
  BY <1>2 DEF UpdateRequest
<1>5. requestCalls' = [requestCalls EXCEPT ![k] = d]
  BY DEF UpdateRequest, RequestGoes
<1>6. /\ d \in RequestCall /\ RequestCallOK(d) /\ d.pc \in {"idle", "question"}
      /\ d.pc = "question" => c.by = "staff" /\ d.request = c.request
  BY <1>1 DEF RequestCall, RequestIdle, RequestCallOK
<1>7. reopened' = IF c.status = "success" /\ Holding(c.request, k)
                  THEN reopened \cup {c.request} ELSE reopened
  BY DEF UpdateRequest
<1> HIDE DEF c, row, d
<1>8. SettledStay
  <2> SUFFICES ASSUME NEW r \in Requests \ reopened, Settled(r)
               PROVE  requests'[r] = requests[r]
    BY DEF SettledStay
  <2>1. CASE r = c.request
    <3>1. c.status = "success"
      BY <1>1, <2>1 DEF RequestInv, Holds, Closes, c
    <3> QED
      BY <1>2, <1>3, <1>4, <2>1, <3>1 DEF Settled
  <2>2. CASE r # c.request
    BY <1>2, <1>4, <2>2
  <2> QED
    BY <2>1, <2>2
<1>9. ASSUME NEW r \in Requests \ reopened', NEW j \in Calls, Settled(r)', Holds(j, r)'
      PROVE  Closes(j)'
  <2>1. r \notin reopened /\ requestCalls'[j] = IF j = k THEN d ELSE requestCalls[j]
    BY <1>2, <1>5, <1>7, <1>9
  <2>2. CASE r = c.request
    <3>1. c.status = "success" /\ ~Holding(c.request, k)
      BY <1>1, <1>2, <1>3, <1>4, <1>7, <1>9, <2>2 DEF Settled
    <3>2. j = k /\ d.pc = "question"
      BY <1>6, <1>9, <2>1, <2>2, <3>1 DEF Holding, Holds
    <3> QED
      BY <1>1, <1>6, <3>1, <3>2
  <2>3. CASE r # c.request
    <3>1. Settled(r)
      BY <1>2, <1>4, <1>9, <2>3 DEF Settled
    <3>2. j # k /\ Holds(j, r)
      BY <1>6, <1>9, <2>1, <2>3 DEF Holds
    <3> QED
      BY <2>1, <3>1, <3>2 DEF RequestInv, Closes
  <2> QED
    BY <2>2, <2>3
<1>10. requests' \in [Requests -> Row] /\ requestCalls' \in [Calls -> RequestCall]
  BY <1>2, <1>3, <1>4, <1>5, <1>6
<1>11. \A j \in Calls : RequestCallOK(requestCalls[j])'
  BY <1>2, <1>5, <1>6 DEF RequestInv, RequestCallOK
<1> QED
  BY <1>8, <1>9, <1>10, <1>11 DEF RequestInv

\* A row that is not settled changes and is not settled then, and its call goes.
LEMMA RowKeeps ==
    ASSUME RequestInv, NEW k \in Calls, NEW r \in Requests, NEW row \in Row,
           ~Settled(r) \/ r \in reopened, ~(row.type = "question" /\ row.status = "success") \/ r \in reopened,
           requests' = [requests EXCEPT ![r] = row], UNCHANGED reopened,
           NEW c \in RequestCall, RequestCallOK(c), c.pc # "idle" => c.request = r,
           requestCalls' \in {requestCalls, [requestCalls EXCEPT ![k] = c]}
    PROVE  RequestInv' /\ SettledStay
<1>1. requests \in [Requests -> Row] /\ requestCalls \in [Calls -> RequestCall]
  BY DEF RequestInv
<1>2. SettledStay
  BY <1>1 DEF SettledStay
<1>3. \A j \in Calls : requestCalls'[j] = requestCalls[j] \/ requestCalls'[j] = c
  BY <1>1
<1>4. ASSUME NEW q \in Requests \ reopened, NEW j \in Calls, Settled(q)', Holds(j, q)'
      PROVE  Closes(j)'
  <2>1. q # r /\ Settled(q)
    BY <1>1, <1>4 DEF Settled
  <2>2. requestCalls'[j] = requestCalls[j] /\ Holds(j, q)
    BY <1>3, <1>4, <2>1 DEF Holds
  <2> QED
    BY <2>1, <2>2 DEF RequestInv, Closes
<1>5. requests' \in [Requests -> Row] /\ requestCalls' \in [Calls -> RequestCall]
  BY <1>1
<1>6. \A j \in Calls : RequestCallOK(requestCalls[j])'
  BY <1>3 DEF RequestInv, RequestCallOK
<1> QED
  BY <1>2, <1>4, <1>5, <1>6 DEF RequestInv

LEMMA CreateKeeps ==
    ASSUME RequestInv, NEW k \in Calls, NEW r \in Requests, NEW type \in ERequestType,
           CreateRequest(k, r, type)
    PROVE  RequestInv' /\ SettledStay
<1> DEFINE row == [requests[r] EXCEPT !.type = type]
           c == [pc |-> "question", request |-> r, by |-> "user", status |-> None]
<1>1. requests[r] = NoRequest /\ requests[r] \in Row
  BY DEF CreateRequest, RequestInv
<1>2. row \in Row /\ row.status = "pending"
  BY <1>1 DEF Row, NoRequest
<1>3. c \in RequestCall /\ RequestCallOK(c) /\ c.request = r
  BY DEF RequestCall, RequestCallOK
<1>4. requests' = [requests EXCEPT ![r] = row] /\ UNCHANGED reopened
  BY DEF CreateRequest
<1>5. requestCalls' \in {requestCalls, [requestCalls EXCEPT ![k] = c]}
  BY DEF CreateRequest, RequestBegins
<1>6. ~Settled(r)
  BY <1>1 DEF Settled, NoRequest
<1> HIDE DEF row, c
<1> QED
  BY <1>2, <1>3, <1>4, <1>5, <1>6, RowKeeps

LEMMA QuestionKeeps ==
    ASSUME RequestInv, NEW k \in Calls, CreateQuestion(k)
    PROVE  RequestInv' /\ SettledStay
<1> DEFINE r == requestCalls[k].request
           row == [requests[r] EXCEPT !.questions = @ + 1]
<1>1. r \in Requests /\ requests[r] \in Row /\ requests \in [Requests -> Row]
  BY DEF CreateQuestion, RequestInv, RequestCallOK
<1>2. row \in Row /\ row.type = requests[r].type /\ row.status = requests[r].status
  BY <1>1 DEF Row
<1>3. ~Settled(r) \/ r \in reopened
  BY <1>1 DEF CreateQuestion, RequestInv, Holds, Closes
<1>4. requests' = [requests EXCEPT ![r] = row] /\ UNCHANGED reopened
  BY <1>1 DEF CreateQuestion
<1>5. /\ requestCalls' = [requestCalls EXCEPT ![k] = RequestIdle]
      /\ RequestIdle \in RequestCall /\ RequestCallOK(RequestIdle) /\ RequestIdle.pc = "idle"
  BY DEF CreateQuestion, RequestGoes, RequestIdle, RequestCall, RequestCallOK
<1> HIDE DEF row, r
<1> QED
  BY <1>1, <1>2, <1>3, <1>4, <1>5, RowKeeps DEF Settled

LEMMA NextRequests ==
    ASSUME RequestInv, [Next]_vars
    PROVE  RequestInv' /\ SettledStay
<1>1. ASSUME NEW k \in Calls, NEW r \in Requests, NEW by \in {"user", "staff", "close"}, Thread(k, r, by)
      PROVE  RequestInv' /\ SettledStay
  BY <1>1, BeginKeepsRequests DEF Thread
<1>2. ASSUME NEW k \in Calls, NEW r \in Requests, NEW status \in ERequestStatus, Settle(k, r, status)
      PROVE  RequestInv' /\ SettledStay
  BY <1>2, BeginKeepsRequests DEF Settle, Settled
<1>3. CASE ReportCrash
  BY <1>3 DEF ReportCrash, RequestInv, SettledStay, RequestIdle, RequestCall, RequestCallOK, Holds, Settled
<1>4. CASE UNCHANGED requestVars
  BY <1>4 DEF requestVars, RequestInv, SettledStay, Holds, Settled, Closes, RequestCallOK
<1> QED
  BY <1>1, <1>2, <1>3, <1>4, CreateKeeps, ReadKeeps, UpdateKeeps, QuestionKeeps, RequestsMove
     DEF RequestsNext

\* A settled question stays settled and gets no more posts, unless it was
\* settled while an answer was being written (createRequestQuestion,
\* setRequestQuestionToSuccess).
THEOREM SettledQuestionsAlwaysStay == Spec => SettledQuestionsStay
<1> DEFINE Stay == \A r \in Requests \ reopened :
                     requests[r].type = "question" /\ requests[r].status = "success"
                     => requests'[r] = requests[r]
<1>1. RequestInv /\ [Next]_vars => RequestInv' /\ [Stay]_requestVars
  BY NextRequests DEF SettledStay, Settled
<1>2. RequestInv /\ [Next]_vars => RequestInv'
  BY <1>1
<1> QED
  BY <1>1, <1>2, InitRequests, PTL DEF Spec, SettledQuestionsStay

----------------------------------------------------------------------------
(* Views of a post. *)

PostRow == [state : PostState, countView : Nat, viewers : SUBSET (Users \cup {None}),
            edited : BOOLEAN]
OpenCall == [pc : {"idle", "read", "count", "view"}, user : Users \cup {None}, saw : Nat]

\* Those who viewed the post and those counted who are about to be recorded.
Viewing == post.viewers \cup {postCalls[k].user : k \in {j \in Calls : postCalls[j].pc = "view"}}

\* A call that is about to write the number it read plus one read the number of
\* openings, unless calls met; who is recorded was counted before.
ViewInv ==
    /\ post \in PostRow /\ opened \in Nat /\ raced \in BOOLEAN
    /\ postCalls \in [Calls -> OpenCall]
    /\ post.state = "none" => /\ opened = 0 /\ post.countView = 0 /\ post.viewers = {}
                              /\ \A k \in Calls : postCalls[k].pc \in {"idle", "read"}
    /\ \A k \in Calls : postCalls[k].pc = "count" => postCalls[k].saw <= opened
    /\ Stored => /\ post.countView <= opened
                 /\ opened > 0 => post.countView > 0
    /\ Stored /\ ~raced => /\ post.countView = opened
                           /\ \A k \in Calls : postCalls[k].pc = "count" => postCalls[k].saw = opened
                           /\ IsFiniteSet(Viewing) /\ Cardinality(Viewing) <= post.countView

LEMMA PostsMove ==
    ASSUME [Next]_vars
    PROVE  PostsNext \/ UNCHANGED postVars
BY DEF Next, vars, OthersKeep, Keeps, postVars, Part

LEMMA InitViews == Init => ViewInv
<1> SUFFICES ASSUME Init PROVE ViewInv
  OBVIOUS
<1>1. /\ post = [state |-> "none", countView |-> 0, viewers |-> {}, edited |-> FALSE]
      /\ postCalls = [k \in Calls |-> PostIdle] /\ opened = 0 /\ raced = FALSE
  BY DEF Init, PostsInit
<1>2. PostIdle \in OpenCall /\ PostIdle.pc = "idle"
  BY DEF PostIdle, OpenCall
<1>3. /\ postCalls \in [Calls -> OpenCall] /\ \A k \in Calls : postCalls[k].pc = "idle"
      /\ post \in PostRow /\ post.state = "none" /\ ~Stored
  BY <1>1, <1>2 DEF PostRow, PostState, Stored
<1> QED
  BY <1>1, <1>3 DEF ViewInv

\* Fewer viewers need no more views.
LEMMA FewerViewing ==
    ASSUME ViewInv, Stored, ~raced, Viewing' \subseteq Viewing
    PROVE  IsFiniteSet(Viewing') /\ Cardinality(Viewing') <= post.countView
<1>1. IsFiniteSet(Viewing) /\ Cardinality(Viewing) <= post.countView /\ post.countView \in Nat
  BY DEF ViewInv, PostRow
<1>2. IsFiniteSet(Viewing') /\ Cardinality(Viewing') <= Cardinality(Viewing)
  BY <1>1, FS_Subset
<1>3. Cardinality(Viewing) \in Nat /\ Cardinality(Viewing') \in Nat
  BY <1>1, <1>2, FS_CardinalityType
<1> QED
  BY <1>1, <1>2, <1>3

\* The post is written, edited, deleted or erased while the calls stay.
LEMMA RowStepKeeps ==
    ASSUME ViewInv, createPost \/ updatePost \/ deletePost \/ RemoveOwner \/ \E u \in Users : RemoveViewer(u)
    PROVE  ViewInv'
<1>1. post \in PostRow /\ UNCHANGED <<postCalls, opened, raced>>
  BY DEF ViewInv, createPost, updatePost, deletePost, RemoveOwner, RemoveViewer
<1>2. CASE createPost
  <2>1. /\ post.state = "none" /\ post' = [post EXCEPT !.state = "live"]
        /\ post.countView = 0 /\ post.viewers = {} /\ opened = 0
        /\ \A k \in Calls : postCalls[k].pc \in {"idle", "read"}
    BY <1>2 DEF createPost, ViewInv
  <2>2. post' \in PostRow /\ post'.state = "live" /\ post'.countView = 0 /\ post'.viewers = {}
    BY <1>1, <2>1 DEF PostRow, PostState
  <2>3. Viewing' = {}
    BY <1>1, <2>1, <2>2 DEF Viewing
  <2>4. IsFiniteSet({}) /\ Cardinality({}) = 0
    BY FS_EmptySet
  <2> QED
    BY <1>1, <2>1, <2>2, <2>3, <2>4 DEF ViewInv, Stored
<1>3. CASE updatePost \/ deletePost \/ \E u \in Users : RemoveViewer(u)
  <2>1. /\ post' \in PostRow /\ post'.countView = post.countView /\ post'.viewers \subseteq post.viewers
        /\ post'.state # "none" /\ post.state # "none"
        /\ post'.state \in {"live", "deleted"} => post.state \in {"live", "deleted"}
    <3>1. CASE updatePost
      BY <1>1, <3>1 DEF updatePost, Stored, PostRow, PostState
    <3>2. CASE deletePost
      BY <1>1, <3>2 DEF deletePost, PostRow, PostState
    <3>3. CASE \E u \in Users : RemoveViewer(u)
      <4>1. PICK u \in post.viewers : post' = [post EXCEPT !.viewers = @ \ {u}]
        BY <3>3 DEF RemoveViewer
      <4>2. post.state # "none"
        BY <4>1 DEF ViewInv
      <4> QED
        BY <1>1, <4>1, <4>2 DEF PostRow
    <3> QED
      BY <1>3, <3>1, <3>2, <3>3
  <2>2. Viewing' \subseteq Viewing
    BY <1>1, <2>1 DEF Viewing
  <2> QED
    BY <1>1, <2>1, <2>2, FewerViewing DEF ViewInv, Stored
<1>4. CASE RemoveOwner
  <2>1. post' \in PostRow /\ post'.state = "erased"
    BY <1>1, <1>4 DEF RemoveOwner, PostRow, PostState
  <2> QED
    BY <1>1, <2>1 DEF ViewInv, Stored
<1> QED
  BY <1>2, <1>3, <1>4

\* A call stops, begins or reads.
LEMMA CallStepKeepsViews ==
    ASSUME ViewInv, UNCHANGED <<post, opened, raced>>, postCalls' \in [Calls -> OpenCall],
           \A k \in Calls : \/ postCalls'[k] = postCalls[k]
                            \/ postCalls'[k].pc \in {"idle", "read"}
                            \/ postCalls'[k].pc = "count" /\ postCalls'[k].saw = post.countView /\ Stored
    PROVE  ViewInv'
<1>1. Viewing' \subseteq Viewing
  BY DEF Viewing
<1> QED
  BY <1>1, FewerViewing DEF ViewInv, Stored, OpenCall, PostRow

LEMMA WriteCountKeeps ==
    ASSUME ViewInv, NEW k \in Calls, WriteCount(k)
    PROVE  ViewInv'
<1> DEFINE c == postCalls[k]
           d == [c EXCEPT !.pc = "view"]
<1>1. /\ c \in OpenCall /\ c.pc = "count" /\ post \in PostRow /\ postCalls \in [Calls -> OpenCall]
      /\ opened \in Nat /\ raced \in BOOLEAN /\ c.saw <= opened /\ c.saw \in Nat /\ post.state # "none"
  BY DEF WriteCount, ViewInv, OpenCall
<1>2. postCalls' = [postCalls EXCEPT ![k] = d] /\ d \in OpenCall /\ d.pc = "view" /\ d.user = c.user
  BY <1>1 DEF WriteCount, PostGoes, OpenCall
<1> HIDE DEF c, d
<1>3. postCalls' \in [Calls -> OpenCall] /\ \A j \in Calls : postCalls'[j] = IF j = k THEN d ELSE postCalls[j]
  BY <1>1, <1>2
<1>4. CASE ~Stored
  <2>1. UNCHANGED <<post, opened, raced>>
    BY <1>4 DEF WriteCount
  <2> QED
    BY <1>1, <1>2, <1>3, <1>4, <2>1 DEF ViewInv, Stored
<1>5. CASE Stored
  <2>1. /\ post' = [post EXCEPT !.countView = c.saw + 1] /\ opened' = opened + 1
        /\ raced' = (raced \/ \E j \in Calls \ {k} : postCalls[j].pc = "count")
    BY <1>5 DEF WriteCount, NextCount, c
  <2>2. /\ post' \in PostRow /\ post'.countView = c.saw + 1 /\ post'.state = post.state
        /\ post'.viewers = post.viewers
    BY <1>1, <2>1 DEF PostRow
  <2>3. opened' \in Nat /\ raced' \in BOOLEAN
    BY <1>1, <2>1
  <2>4. ASSUME ~raced'
        PROVE  /\ post'.countView = opened' /\ \A j \in Calls : postCalls'[j].pc # "count"
               /\ IsFiniteSet(Viewing') /\ Cardinality(Viewing') <= post'.countView
    <3>1. ~raced /\ \A j \in Calls \ {k} : postCalls[j].pc # "count"
      BY <2>1, <2>4
    <3>2. c.saw = opened /\ post.countView = opened /\ IsFiniteSet(Viewing) /\ Cardinality(Viewing) <= opened
      BY <1>1, <1>5, <3>1 DEF ViewInv, c
    <3>3. Viewing' \subseteq Viewing \cup {c.user}
      <4> SUFFICES ASSUME NEW u \in Viewing', u # c.user PROVE u \in Viewing
        OBVIOUS
      <4>1. u \in post'.viewers \/ \E j \in Calls : postCalls'[j].pc = "view" /\ postCalls'[j].user = u
        BY DEF Viewing
      <4>2. u \in post.viewers \/ \E j \in Calls : postCalls[j].pc = "view" /\ postCalls[j].user = u
        BY <1>2, <1>3, <2>2, <4>1
      <4> QED
        BY <4>2 DEF Viewing
    <3>4. /\ IsFiniteSet(Viewing \cup {c.user}) /\ Cardinality(Viewing) \in Nat
          /\ Cardinality(Viewing \cup {c.user}) <= Cardinality(Viewing) + 1
      <4>1. /\ IsFiniteSet(Viewing \cup {c.user})
            /\ \/ Cardinality(Viewing \cup {c.user}) = Cardinality(Viewing)
               \/ Cardinality(Viewing \cup {c.user}) = Cardinality(Viewing) + 1
        BY <3>2, FS_AddElement
      <4>2. Cardinality(Viewing) \in Nat
        BY <3>2, FS_CardinalityType
      <4> QED
        BY <4>1, <4>2
    <3>5. /\ IsFiniteSet(Viewing') /\ Cardinality(Viewing') \in Nat
          /\ Cardinality(Viewing') <= Cardinality(Viewing \cup {c.user})
      BY <3>3, <3>4, FS_Subset, FS_CardinalityType
    <3>6. Cardinality(Viewing \cup {c.user}) \in Nat
      BY <3>4, FS_CardinalityType
    <3>7. \A j \in Calls : postCalls'[j].pc # "count"
      BY <1>2, <1>3, <3>1
    <3>8. post'.countView = opened' /\ opened' = opened + 1
      BY <2>1, <2>2, <3>2
    <3>9. Cardinality(Viewing') <= opened + 1
      <4> DEFINE a == Cardinality(Viewing')
                 b == Cardinality(Viewing \cup {c.user})
                 e == Cardinality(Viewing)
      <4>1. a \in Nat /\ b \in Nat /\ e \in Nat /\ a <= b /\ b <= e + 1 /\ e <= opened
        BY <3>2, <3>4, <3>5, <3>6
      <4> HIDE DEF a, b, e
      <4>2. a <= opened + 1
        BY <1>1, <4>1
      <4> QED
        BY <4>2 DEF a
    <3> QED
      BY <3>5, <3>7, <3>8, <3>9
  <2>5. \A j \in Calls : postCalls'[j].pc = "count" => postCalls'[j].saw <= opened'
    <3> SUFFICES ASSUME NEW j \in Calls, postCalls'[j].pc = "count" PROVE postCalls'[j].saw <= opened'
      OBVIOUS
    <3>1. postCalls'[j] = postCalls[j] /\ postCalls[j].saw \in Nat /\ postCalls[j].saw <= opened
      BY <1>1, <1>2, <1>3 DEF ViewInv, OpenCall
    <3> QED
      BY <1>1, <2>1, <3>1
  <2>6. post'.countView <= opened' /\ post'.countView > 0
    BY <1>1, <2>1, <2>2
  <2> QED
    BY <1>1, <1>3, <2>2, <2>3, <2>4, <2>5, <2>6 DEF ViewInv, Stored
<1> QED
  BY <1>4, <1>5

LEMMA UpsertKeeps ==
    ASSUME ViewInv, NEW k \in Calls, UpsertView(k)
    PROVE  ViewInv'
<1>1. /\ post \in PostRow /\ postCalls \in [Calls -> OpenCall] /\ postCalls[k] \in OpenCall
      /\ postCalls[k].pc = "view" /\ UNCHANGED <<opened, raced>> /\ post.state # "none"
  BY DEF UpsertView, ViewInv
<1>2. /\ postCalls' \in [Calls -> OpenCall]
      /\ \A j \in Calls : postCalls'[j] = IF j = k THEN PostIdle ELSE postCalls[j]
  BY <1>1 DEF UpsertView, PostGoes, PostIdle, OpenCall
<1>3. /\ post'.countView = post.countView /\ post'.state = post.state
      /\ post'.viewers \subseteq post.viewers \cup {postCalls[k].user}
  BY <1>1 DEF UpsertView, PostRow
<1>4. post' \in PostRow
  <2>1. postCalls[k].user \in Users \cup {None}
    BY <1>1 DEF OpenCall
  <2> QED
    BY <1>1, <2>1 DEF UpsertView, PostRow
<1>5. Viewing' \subseteq Viewing
  BY <1>1, <1>2, <1>3 DEF Viewing, PostIdle
<1>6. \A j \in Calls : postCalls'[j].pc = "count" => postCalls'[j] = postCalls[j]
  BY <1>2 DEF PostIdle
<1>7. (Stored' <=> Stored) /\ post'.state # "none"
  BY <1>1, <1>3 DEF Stored
<1>8. ASSUME Stored', ~raced'
      PROVE  IsFiniteSet(Viewing') /\ Cardinality(Viewing') <= post'.countView
  BY <1>1, <1>3, <1>5, <1>7, <1>8, FewerViewing
<1> HIDE DEF Viewing
<1> QED
  BY <1>1, <1>2, <1>3, <1>4, <1>6, <1>7, <1>8 DEF ViewInv

LEMMA NextViews ==
    ASSUME ViewInv, [Next]_vars
    PROVE  ViewInv'
<1>1. postCalls \in [Calls -> OpenCall]
  BY DEF ViewInv
<1>2. ASSUME NEW k \in Calls, (\E u \in Users : getPostById(k, u)) \/ ReadPost(k)
      PROVE  ViewInv'
  <2>1. UNCHANGED <<post, opened, raced>>
    BY <1>2 DEF getPostById, ReadPost
  <2>2. PICK c \in OpenCall : /\ postCalls' = [postCalls EXCEPT ![k] = c]
                             /\ \/ c.pc \in {"idle", "read"}
                                \/ c.pc = "count" /\ c.saw = post.countView /\ Stored
    <3>1. CASE \E u \in Users : getPostById(k, u)
      <4>1. PICK u \in Users : postCalls' = [postCalls EXCEPT ![k] = [PostIdle EXCEPT !.pc = "read", !.user = u]]
        BY <3>1 DEF getPostById, PostGoes
      <4>2. [PostIdle EXCEPT !.pc = "read", !.user = u] \in OpenCall
            /\ [PostIdle EXCEPT !.pc = "read", !.user = u].pc = "read"
        BY DEF PostIdle, OpenCall
      <4> QED
        BY <4>1, <4>2
    <3>2. CASE ReadPost(k) /\ post.state = "live"
      <4> DEFINE c == [postCalls[k] EXCEPT !.pc = "count", !.saw = post.countView]
      <4>1. postCalls[k] \in OpenCall /\ post.countView \in Nat
        BY DEF ViewInv, PostRow
      <4>2. c \in OpenCall /\ c.pc = "count" /\ c.saw = post.countView
        BY <4>1 DEF OpenCall
      <4>3. postCalls' = [postCalls EXCEPT ![k] = c]
        BY <3>2 DEF ReadPost, PostGoes
      <4> HIDE DEF c
      <4> QED
        BY <3>2, <4>2, <4>3 DEF Stored
    <3>3. CASE ReadPost(k) /\ post.state # "live"
      <4>1. PostIdle \in OpenCall /\ PostIdle.pc = "idle"
        BY DEF PostIdle, OpenCall
      <4> QED
        BY <3>3, <4>1 DEF ReadPost, PostGoes
    <3> QED
      BY <1>2, <3>1, <3>2, <3>3
  <2> QED
    BY <1>1, <2>1, <2>2, CallStepKeepsViews
<1>3. CASE PostCrash
  BY <1>3, CallStepKeepsViews DEF PostCrash, PostIdle, OpenCall
<1>4. CASE UNCHANGED postVars
  BY <1>1, <1>4, CallStepKeepsViews DEF postVars
<1> QED
  BY <1>2, <1>3, <1>4, RowStepKeeps, WriteCountKeeps, UpsertKeeps, PostsMove DEF PostsNext

\* The number of views is that of the openings, and no less than the number of
\* viewers, unless two openings overlapped (getPostById).
THEOREM ViewsAlwaysMatchOpenings == Spec => []CountIsOfViews
<1>1. ViewInv /\ [Next]_vars => ViewInv'
  BY NextViews
<1>2. ViewInv => CountIsOfViews
  <2> SUFFICES ASSUME ViewInv, Stored, ~raced
               PROVE  Cardinality(post.viewers) <= post.countView
    BY DEF ViewInv, CountIsOfViews
  <2>1. /\ IsFiniteSet(Viewing) /\ Cardinality(Viewing) <= post.countView
        /\ post.viewers \subseteq Viewing /\ post.countView \in Nat
    BY DEF ViewInv, Viewing, PostRow
  <2>2. IsFiniteSet(post.viewers) /\ Cardinality(post.viewers) <= Cardinality(Viewing)
    BY <2>1, FS_Subset
  <2>3. Cardinality(Viewing) \in Nat /\ Cardinality(post.viewers) \in Nat
    BY <2>1, <2>2, FS_CardinalityType
  <2> QED
    BY <2>1, <2>2, <2>3
<1> QED
  BY <1>1, <1>2, InitViews, PTL DEF Spec

----------------------------------------------------------------------------
(* The daily cap of points. *)

\* An award is in the total and not yet in the log.
AtLog(u, type) == \E k \in Calls : Awarding(k, u, type) /\ pointCalls[k].pc = "log"

\* An award under way was checked against the cap, and is alone; the awards of
\* the day are in the log, about to be, or cut.
CapKept(u, type) ==
    /\ Cardinality(Today(u, type)) <= DailyCap(type)
    /\ \A k \in Calls : Awarding(k, u, type) => Cardinality(Today(u, type)) < DailyCap(type)
    /\ \A j, k \in Calls : Awarding(j, u, type) /\ Awarding(k, u, type) => j = k
    /\ given[u][type] <= Cardinality(Today(u, type)) + cuts[u][type] + (IF AtLog(u, type) THEN 1 ELSE 0)

CapInv ==
    /\ totalPoint \in [Users -> Nat \cup {None}]
    /\ pointLogs \in [Users -> Seq(PointLog)]
    /\ pointCalls \in [Calls -> PointCall]
    /\ given \in [Users -> [ETypePoint -> Nat]] /\ cuts \in [Users -> [ETypePoint -> Nat]]
    /\ \A k \in Calls : pointCalls[k].pc # "idle" => pointCalls[k].user \in Users
    /\ \A u \in Users, type \in ETypePoint : <<u, type>> \in crowded \/ CapKept(u, type)

LEMMA PointsMove ==
    ASSUME [Next]_vars
    PROVE  PointsNext \/ UNCHANGED pointVars
BY DEF Next, vars, OthersKeep, Keeps, pointVars, Part

LEMMA IdlePointCall == PointIdle \in PointCall /\ PointIdle.pc = "idle"
BY DEF PointIdle, PointCall, ETypePoint, POINT_ADDED

\* The awards of a day can be counted.
LEMMA TodayIsFinite ==
    ASSUME CapInv, NEW u \in Users, NEW type
    PROVE  IsFiniteSet(Today(u, type)) /\ Cardinality(Today(u, type)) \in Nat
<1>1. pointLogs[u] \in Seq(PointLog)
  BY DEF CapInv
<1>2. Len(pointLogs[u]) \in Nat /\ DOMAIN pointLogs[u] = 1..Len(pointLogs[u])
  BY <1>1
<1>3. IsFiniteSet(1..Len(pointLogs[u]))
  BY <1>2, FS_Interval
<1>4. Today(u, type) \subseteq 1..Len(pointLogs[u])
  BY <1>2 DEF Today
<1> QED
  BY <1>3, <1>4, FS_Subset, FS_CardinalityType

LEMMA CapIsNatural == \A type \in ETypePoint : DailyCap(type) \in Nat /\ DailyCap(type) >= 0
BY PointsAssumption DEF DailyCap

LEMMA InitCap == Init => CapInv
<1> SUFFICES ASSUME Init PROVE CapInv
  OBVIOUS
<1>1. /\ totalPoint = [u \in Users |-> None] /\ pointLogs = [u \in Users |-> <<>>]
      /\ pointCalls = [k \in Calls |-> PointIdle]
      /\ given = [u \in Users |-> NoAwards] /\ cuts = [u \in Users |-> NoAwards]
  BY DEF Init, PointsInit
<1>2. /\ totalPoint \in [Users -> Nat \cup {None}] /\ pointLogs \in [Users -> Seq(PointLog)]
      /\ pointCalls \in [Calls -> PointCall] /\ \A k \in Calls : pointCalls[k].pc = "idle"
  BY <1>1, IdlePointCall
<1>3. /\ given \in [Users -> [ETypePoint -> Nat]] /\ cuts \in [Users -> [ETypePoint -> Nat]]
      /\ \A u \in Users, type \in ETypePoint : given[u][type] = 0 /\ cuts[u][type] = 0
  BY <1>1 DEF NoAwards
<1>4. \A u \in Users, type \in ETypePoint : Today(u, type) = {}
  BY <1>1 DEF Today
<1>5. \A u \in Users, type \in ETypePoint :
        Cardinality(Today(u, type)) = 0 /\ DailyCap(type) \in Nat /\ ~AtLog(u, type)
  BY <1>2, <1>4, FS_EmptySet, CapIsNatural DEF AtLog
<1>6. \A u \in Users, type \in ETypePoint : CapKept(u, type)
  BY <1>2, <1>3, <1>5 DEF CapKept, Awarding
<1> QED
  BY <1>2, <1>3, <1>6 DEF CapInv

\* No log changes and no new award passes its check.
LEMMA CapStays ==
    ASSUME CapInv, crowded \subseteq crowded', UNCHANGED <<pointLogs, given, cuts>>,
           totalPoint' \in [Users -> Nat \cup {None}], pointCalls' \in [Calls -> PointCall],
           \A k \in Calls : \/ pointCalls[k].pc # "log" /\ pointCalls'[k].pc = "idle"
                            \/ /\ pointCalls[k].pc \in {"idle", "count"}
                               /\ pointCalls'[k].pc = "count" /\ pointCalls'[k].user \in Users
                            \/ /\ pointCalls[k].pc \in {"read", "write"}
                               /\ pointCalls'[k].user = pointCalls[k].user
                               /\ pointCalls'[k].type = pointCalls[k].type
                            \/ pointCalls'[k] = pointCalls[k]
    PROVE  CapInv'
<1>1. \A k \in Calls, u \in Users, type \in ETypePoint : Awarding(k, u, type)' => Awarding(k, u, type)
  BY DEF Awarding
<1>2. \A u \in Users, type \in ETypePoint : Today(u, type)' = Today(u, type)
  BY DEF Today
<1>3. \A k \in Calls : pointCalls'[k].pc # "idle" => pointCalls'[k].user \in Users
  BY DEF CapInv
<1>4. \A type \in ETypePoint : DailyCap(type)' = DailyCap(type)
  BY DEF DailyCap
<1>5. \A u \in Users, type \in ETypePoint : AtLog(u, type) => AtLog(u, type)'
  <2> SUFFICES ASSUME NEW u \in Users, NEW type \in ETypePoint, NEW k \in Calls,
                      Awarding(k, u, type), pointCalls[k].pc = "log"
               PROVE  AtLog(u, type)'
    BY DEF AtLog
  <2>1. pointCalls'[k] = pointCalls[k]
    OBVIOUS
  <2> QED
    BY <2>1 DEF AtLog, Awarding
<1>6. ASSUME NEW u \in Users, NEW type \in ETypePoint, <<u, type>> \notin crowded'
      PROVE  CapKept(u, type)'
  <2>1. CapKept(u, type)
    BY <1>6 DEF CapInv
  <2>2. Cardinality(Today(u, type)) \in Nat /\ given[u][type] \in Nat /\ cuts[u][type] \in Nat
    BY TodayIsFinite DEF CapInv
  <2>3. given'[u][type] <= Cardinality(Today(u, type)') + cuts'[u][type] + (IF AtLog(u, type)' THEN 1 ELSE 0)
    BY <1>2, <1>5, <2>1, <2>2 DEF CapKept
  <2>4. /\ Cardinality(Today(u, type)') <= DailyCap(type)'
        /\ \A k \in Calls : Awarding(k, u, type)' => Cardinality(Today(u, type)') < DailyCap(type)'
        /\ \A j, k \in Calls : Awarding(j, u, type)' /\ Awarding(k, u, type)' => j = k
    BY <1>1, <1>2, <1>4, <2>1 DEF CapKept
  <2> QED
    BY <2>3, <2>4 DEF CapKept
<1> QED
  BY <1>3, <1>6 DEF CapInv

LEMMA CountKeepsCap ==
    ASSUME CapInv, NEW k \in Calls, CountAwards(k)
    PROVE  CapInv'
<1> DEFINE c == pointCalls[k]
           d == [c EXCEPT !.pc = "read"]
<1>1. /\ c \in PointCall /\ c.pc = "count" /\ c.user \in Users /\ pointCalls \in [Calls -> PointCall]
      /\ c.type \in ETypePoint
      /\ UNCHANGED <<totalPoint, pointLogs, given, cuts>> /\ totalPoint \in [Users -> Nat \cup {None}]
      /\ pointLogs \in [Users -> Seq(PointLog)]
  BY DEF CountAwards, CapInv, PointCall
<1>2. CASE CapReached(c.user, c.type)
  <2>1. pointCalls' = [pointCalls EXCEPT ![k] = PointIdle] /\ UNCHANGED crowded
    BY <1>2 DEF CountAwards, PointGoes
  <2>2. pointCalls[k].pc = "count"
    BY <1>1
  <2> HIDE DEF c
  <2> QED
    BY <1>1, <2>1, <2>2, CapStays, IdlePointCall
<1>3. CASE ~CapReached(c.user, c.type)
  <2>1. /\ pointCalls' = [pointCalls EXCEPT ![k] = d]
        /\ crowded' = IF {j \in OtherAwards(k, {"read", "write", "log"}) : pointCalls[j].type = c.type} # {}
                      THEN crowded \cup {<<c.user, c.type>>} ELSE crowded
    BY <1>3 DEF CountAwards, PointGoes
  <2>2. d \in PointCall /\ d.pc = "read" /\ d.user = c.user /\ d.type = c.type
    BY <1>1 DEF PointCall
  <2> HIDE DEF d
  <2>3. /\ pointCalls' \in [Calls -> PointCall]
        /\ \A j \in Calls : pointCalls'[j] = IF j = k THEN d ELSE pointCalls[j]
    BY <1>1, <2>1, <2>2
  <2>4. ASSUME NEW u \in Users, NEW type \in ETypePoint, <<u, type>> \notin crowded'
        PROVE  CapKept(u, type)'
    <3>1. Today(u, type)' = Today(u, type) /\ <<u, type>> \notin crowded /\ DailyCap(type)' = DailyCap(type)
      BY <1>1, <2>1, <2>4 DEF Today, DailyCap
    <3>2. CapKept(u, type)
      BY <3>1 DEF CapInv
    <3>3. \A j \in Calls \ {k} : Awarding(j, u, type)' <=> Awarding(j, u, type)
      BY <2>3 DEF Awarding
    <3>4. AtLog(u, type)' <=> AtLog(u, type)
      BY <1>1, <2>2, <2>3, <3>3 DEF AtLog, Awarding
    <3>5. given'[u][type] <= Cardinality(Today(u, type)') + cuts'[u][type] + (IF AtLog(u, type)' THEN 1 ELSE 0)
      BY <1>1, <3>1, <3>2, <3>4 DEF CapKept
    <3>6. CASE u = c.user /\ type = c.type
      <4>1. \A j \in Calls \ {k} : ~Awarding(j, u, type)
        BY <2>1, <2>4, <3>6 DEF Awarding, OtherAwards
      <4>2. Cardinality(Today(u, type)) < DailyCap(type)
        BY <1>3, <3>6, TodayIsFinite, CapIsNatural DEF CapReached
      <4> QED
        BY <3>1, <3>2, <3>3, <3>5, <4>1, <4>2 DEF CapKept
    <3>7. CASE ~(u = c.user /\ type = c.type)
      <4>1. ~Awarding(k, u, type)'
        BY <2>2, <2>3, <3>7 DEF Awarding
      <4> QED
        BY <3>1, <3>2, <3>3, <3>5, <4>1 DEF CapKept
    <3> QED
      BY <3>6, <3>7
  <2>5. \A j \in Calls : pointCalls'[j].pc # "idle" => pointCalls'[j].user \in Users
    BY <1>1, <2>2, <2>3 DEF CapInv
  <2>6. given' \in [Users -> [ETypePoint -> Nat]] /\ cuts' \in [Users -> [ETypePoint -> Nat]]
    BY <1>1 DEF CapInv
  <2> QED
    BY <1>1, <2>3, <2>4, <2>5, <2>6 DEF CapInv
<1> QED
  BY <1>2, <1>3

\* Reading and writing the total.
LEMMA TotalsKeepCap ==
    ASSUME CapInv, NEW k \in Calls, ReadTotal(k) \/ WriteTotal(k)
    PROVE  CapInv'
<1> DEFINE c == pointCalls[k]
<1>1. /\ c \in PointCall /\ c.pc \in {"read", "write"} /\ c.user \in Users
      /\ pointCalls \in [Calls -> PointCall]
      /\ UNCHANGED <<pointLogs, crowded, cuts>> /\ totalPoint \in [Users -> Nat \cup {None}]
  BY DEF ReadTotal, WriteTotal, CapInv
<1>2. CASE ReadTotal(k)
  <2> DEFINE d == [c EXCEPT !.pc = "write", !.copy = totalPoint[c.user]]
  <2>1. d \in PointCall /\ d.user = c.user /\ d.type = c.type
    BY <1>1 DEF PointCall
  <2>2. pointCalls' = [pointCalls EXCEPT ![k] = d] /\ UNCHANGED <<totalPoint, given>>
    BY <1>1, <1>2 DEF ReadTotal
  <2> HIDE DEF d
  <2> QED
    BY <1>1, <2>1, <2>2, CapStays
<1>3. CASE WriteTotal(k) /\ c.copy = None /\ totalPoint[c.user] # None
  <2>1. pointCalls' = [pointCalls EXCEPT ![k] = PointIdle] /\ UNCHANGED <<totalPoint, given>>
    BY <1>3 DEF WriteTotal, PointGoes
  <2>2. pointCalls[k].pc # "log"
    BY <1>1
  <2> HIDE DEF c
  <2> QED
    BY <1>1, <2>1, <2>2, CapStays, IdlePointCall
<1>4. CASE WriteTotal(k) /\ ~(c.copy = None /\ totalPoint[c.user] # None)
  <2>0. PICK who, type : who = c.user /\ type = c.type
    OBVIOUS
  <2> DEFINE d == [c EXCEPT !.pc = "log"]
  <2>1. d \in PointCall /\ d.user = who /\ d.type = type /\ d.pc = "log" /\ type \in ETypePoint /\ c.pc = "write"
    BY <1>1, <1>4, <2>0 DEF PointCall, WriteTotal
  <2>2. /\ pointCalls' = [pointCalls EXCEPT ![k] = d]
        /\ totalPoint' = [totalPoint EXCEPT ![who] = NewTotal(c)]
        /\ given' = [given EXCEPT ![who][type] = @ + 1]
    BY <1>4, <2>0 DEF WriteTotal, PointGoes
  <2>3. NewTotal(c) \in Nat
    <3>1. c.copy \in Nat \cup {None} /\ c.type \in {"login", "comment", "post"}
      BY <1>1 DEF PointCall, ETypePoint, POINT_ADDED
    <3>2. POINT_ADDED[c.type] \in Nat
      BY <3>1 DEF POINT_ADDED
    <3> QED
      BY <3>1, <3>2 DEF NewTotal
  <2> HIDE DEF d
  <2>4. totalPoint' \in [Users -> Nat \cup {None}]
    BY <1>1, <2>0, <2>2, <2>3
  <2>5. /\ pointCalls' \in [Calls -> PointCall] /\ pointCalls'[k] = d
        /\ \A j \in Calls \ {k} : pointCalls'[j] = pointCalls[j]
    BY <1>1, <2>1, <2>2
  <2>6. given \in [Users -> [ETypePoint -> Nat]] /\ cuts \in [Users -> [ETypePoint -> Nat]] /\ who \in Users
    BY <1>1, <2>0 DEF CapInv
  <2>7. given'[who][type] = given[who][type] + 1
    BY <2>1, <2>2, <2>6
  <2>8. \A u \in Users, t \in ETypePoint : ~(u = who /\ t = type) => given'[u][t] = given[u][t]
    BY <2>2, <2>6
  <2>9. given' \in [Users -> [ETypePoint -> Nat]] /\ cuts' \in [Users -> [ETypePoint -> Nat]]
    BY <1>1, <2>1, <2>2, <2>6
  <2>10. ASSUME NEW u \in Users, NEW t \in ETypePoint, <<u, t>> \notin crowded'
         PROVE  CapKept(u, t)'
    <3>1. Today(u, t)' = Today(u, t) /\ CapKept(u, t) /\ DailyCap(t)' = DailyCap(t)
      BY <1>1, <2>10 DEF Today, CapInv, DailyCap
    <3>2. \A j \in Calls : Awarding(j, u, t)' <=> Awarding(j, u, t)
      BY <2>0, <2>1, <2>5 DEF Awarding
    <3>3. Cardinality(Today(u, t)) \in Nat /\ given[u][t] \in Nat /\ cuts[u][t] \in Nat
      BY <2>6, TodayIsFinite
    <3>4. given'[u][t] <= Cardinality(Today(u, t)') + cuts'[u][t] + (IF AtLog(u, t)' THEN 1 ELSE 0)
      <4>1. CASE u = who /\ t = type
        <5>1. Awarding(k, u, t) /\ Awarding(k, u, t)' /\ AtLog(u, t)'
          BY <2>0, <2>1, <2>5, <4>1 DEF Awarding, AtLog
        <5>2. ~AtLog(u, t)
          BY <2>1, <3>1, <5>1 DEF AtLog, CapKept
        <5> QED
          BY <1>1, <2>7, <3>1, <3>3, <4>1, <5>1, <5>2 DEF CapKept
      <4>2. CASE ~(u = who /\ t = type)
        <5>1. AtLog(u, t)' <=> AtLog(u, t)
          BY <2>0, <2>1, <2>5, <3>2, <4>2 DEF AtLog, Awarding
        <5> QED
          BY <1>1, <2>8, <3>1, <3>3, <4>2, <5>1 DEF CapKept
      <4> QED
        BY <4>1, <4>2
    <3> QED
      BY <3>1, <3>2, <3>4 DEF CapKept
  <2>11. \A j \in Calls : pointCalls'[j].pc # "idle" => pointCalls'[j].user \in Users
    BY <1>1, <2>0, <2>1, <2>5 DEF CapInv
  <2>12. pointLogs' \in [Users -> Seq(PointLog)]
    BY <1>1 DEF CapInv
  <2> QED
    BY <2>4, <2>5, <2>9, <2>10, <2>11, <2>12 DEF CapInv
<1> QED
  BY <1>2, <1>3, <1>4

LEMMA LogKeepsCap ==
    ASSUME CapInv, NEW k \in Calls, WriteLog(k)
    PROVE  CapInv'
<1> DEFINE c == pointCalls[k]
           new == Append(pointLogs[c.user], LogOf(c))
           n == Len(pointLogs[c.user]) + 1
<1>1. /\ c \in PointCall /\ c.pc = "log" /\ c.user \in Users /\ pointCalls \in [Calls -> PointCall]
      /\ c.type \in ETypePoint /\ UNCHANGED <<totalPoint, crowded, given, cuts>>
      /\ totalPoint \in [Users -> Nat \cup {None}] /\ pointLogs \in [Users -> Seq(PointLog)]
  BY DEF WriteLog, CapInv, PointCall
<1>2. /\ pointCalls' = [pointCalls EXCEPT ![k] = PointIdle]
      /\ pointLogs' = [pointLogs EXCEPT ![c.user] = new]
  BY DEF WriteLog, PointGoes
<1>3. pointLogs[c.user] \in Seq(PointLog) /\ LogOf(c) \in PointLog /\ LogOf(c).type = c.type
  BY <1>1 DEF LogOf, PointLog
<1>4. /\ new \in Seq(PointLog) /\ DOMAIN new = DOMAIN pointLogs[c.user] \cup {n}
      /\ new[n] = LogOf(c) /\ \A i \in DOMAIN pointLogs[c.user] : new[i] = pointLogs[c.user][i]
      /\ n \notin DOMAIN pointLogs[c.user]
  <2>1. DOMAIN pointLogs[c.user] = 1..Len(pointLogs[c.user]) /\ Len(pointLogs[c.user]) \in Nat
    BY <1>3
  <2> QED
    BY <1>3, <2>1
<1> HIDE DEF new, n, c
<1>5. /\ pointLogs' \in [Users -> Seq(PointLog)] /\ pointLogs'[c.user] = new
      /\ \A u \in Users \ {c.user} : pointLogs'[u] = pointLogs[u]
  BY <1>1, <1>2, <1>4
<1>6. /\ pointCalls' \in [Calls -> PointCall] /\ pointCalls'[k].pc = "idle"
      /\ \A j \in Calls \ {k} : pointCalls'[j] = pointCalls[j]
  BY <1>1, <1>2, IdlePointCall
<1>7. ASSUME NEW u \in Users, NEW type \in ETypePoint, <<u, type>> \notin crowded'
      PROVE  CapKept(u, type)'
  <2>1. CapKept(u, type) /\ DailyCap(type)' = DailyCap(type)
    BY <1>1, <1>7 DEF CapInv, DailyCap
  <2>2. \A j \in Calls : Awarding(j, u, type)' <=> j # k /\ Awarding(j, u, type)
    BY <1>6 DEF Awarding
  <2>3. IsFiniteSet(Today(u, type)) /\ Cardinality(Today(u, type)) \in Nat /\ DailyCap(type) \in Nat
        /\ given[u][type] \in Nat /\ cuts[u][type] \in Nat /\ given' = given /\ cuts' = cuts
    BY <1>1, TodayIsFinite, CapIsNatural DEF CapInv
  <2>4. CASE u = c.user /\ type = c.type
    <3>1. Awarding(k, u, type) /\ AtLog(u, type)
      BY <1>1, <2>4 DEF Awarding, AtLog, c
    <3>2. \A j \in Calls : ~Awarding(j, u, type)'
      BY <2>1, <2>2, <3>1 DEF CapKept
    <3>3. Today(u, type)' = Today(u, type) \cup {n} /\ n \notin Today(u, type)
      <4>1. Today(u, type)' = {i \in DOMAIN new : new[i].today /\ new[i].type = type}
        BY <1>5, <2>4 DEF Today
      <4>2. LogOf(c).today /\ LogOf(c).type = type
        BY <1>3, <2>4 DEF LogOf
      <4> QED
        BY <1>4, <2>4, <4>1, <4>2 DEF Today
    <3>4. Cardinality(Today(u, type)') = Cardinality(Today(u, type)) + 1
      BY <2>3, <3>3, FS_AddElement
    <3>5. Cardinality(Today(u, type)) < DailyCap(type)
      BY <2>1, <3>1 DEF CapKept
    <3>6. Cardinality(Today(u, type)') <= DailyCap(type)
      BY <2>3, <3>4, <3>5
    <3>7. given[u][type] <= Cardinality(Today(u, type)) + cuts[u][type] + 1
      BY <2>1, <3>1 DEF CapKept
    <3>8. given'[u][type] <= Cardinality(Today(u, type)') + cuts'[u][type]
      BY <2>3, <3>4, <3>7
    <3>9. ~AtLog(u, type)'
      BY <3>2 DEF AtLog
    <3> QED
      BY <2>1, <2>3, <3>2, <3>4, <3>6, <3>8, <3>9 DEF CapKept
  <2>5. CASE ~(u = c.user /\ type = c.type)
    <3>1. Today(u, type)' = Today(u, type)
      <4>1. CASE u = c.user
        BY <1>3, <1>4, <1>5, <2>5, <4>1 DEF Today
      <4>2. CASE u # c.user
        BY <1>5, <4>2 DEF Today
      <4> QED
        BY <4>1, <4>2
    <3>2. ~Awarding(k, u, type)
      BY <2>5 DEF Awarding, c
    <3>3. AtLog(u, type)' <=> AtLog(u, type)
      BY <1>6, <2>2, <3>2 DEF AtLog
    <3> QED
      BY <2>1, <2>2, <2>3, <3>1, <3>3 DEF CapKept
  <2> QED
    BY <2>4, <2>5
<1>8. \A j \in Calls : pointCalls'[j].pc # "idle" => pointCalls'[j].user \in Users
  BY <1>6 DEF CapInv
<1>9. given' \in [Users -> [ETypePoint -> Nat]] /\ cuts' \in [Users -> [ETypePoint -> Nat]]
  BY <1>1 DEF CapInv
<1> QED
  BY <1>1, <1>5, <1>6, <1>7, <1>8, <1>9 DEF CapInv

LEMMA MidnightKeepsCap == ASSUME CapInv, Midnight PROVE CapInv'
<1>1. /\ UNCHANGED <<totalPoint, pointCalls>> /\ pointLogs \in [Users -> Seq(PointLog)]
      /\ pointLogs' = [u \in Users |-> [i \in DOMAIN pointLogs[u] |->
                          [pointLogs[u][i] EXCEPT !.today = FALSE]]]
      /\ given' = [u \in Users |-> NoAwards] /\ cuts' = [u \in Users |-> NoAwards]
      /\ crowded' = {c \in crowded : \E k \in Calls : Awarding(k, c[1], c[2])}
  BY DEF Midnight, CapInv
<1>2. ASSUME NEW u \in Users
      PROVE  pointLogs'[u] \in Seq(PointLog) /\ \A i \in DOMAIN pointLogs'[u] : ~pointLogs'[u][i].today
  <2>1. pointLogs[u] \in Seq(PointLog) /\ DOMAIN pointLogs[u] = 1..Len(pointLogs[u])
        /\ Len(pointLogs[u]) \in Nat
    BY <1>1
  <2>2. pointLogs'[u] = [i \in 1..Len(pointLogs[u]) |-> [pointLogs[u][i] EXCEPT !.today = FALSE]]
    BY <1>1, <2>1
  <2>3. \A i \in 1..Len(pointLogs[u]) :
          /\ [pointLogs[u][i] EXCEPT !.today = FALSE] \in PointLog
          /\ ~[pointLogs[u][i] EXCEPT !.today = FALSE].today
    <3> SUFFICES ASSUME NEW i \in 1..Len(pointLogs[u])
                 PROVE  /\ [pointLogs[u][i] EXCEPT !.today = FALSE] \in PointLog
                        /\ ~[pointLogs[u][i] EXCEPT !.today = FALSE].today
      OBVIOUS
    <3> DEFINE log == pointLogs[u][i]
    <3>1. log \in PointLog
      BY <2>1
    <3> HIDE DEF log
    <3>2. [log EXCEPT !.today = FALSE] \in PointLog /\ ~[log EXCEPT !.today = FALSE].today
      BY <3>1 DEF PointLog
    <3> QED
      BY <3>2 DEF log
  <2> QED
    BY <2>1, <2>2, <2>3
<1>3. pointLogs' \in [Users -> Seq(PointLog)]
  BY <1>1, <1>2
<1>4. \A u \in Users, type \in ETypePoint : Today(u, type)' = {}
  BY <1>2 DEF Today
<1>5. \A u \in Users, type \in ETypePoint : Cardinality(Today(u, type)') = 0
  BY <1>4, FS_EmptySet
<1>6. /\ given' \in [Users -> [ETypePoint -> Nat]] /\ cuts' \in [Users -> [ETypePoint -> Nat]]
      /\ \A u \in Users, type \in ETypePoint : given'[u][type] = 0 /\ cuts'[u][type] = 0
  BY <1>1 DEF NoAwards
<1>7. ASSUME NEW u \in Users, NEW type \in ETypePoint, <<u, type>> \notin crowded'
      PROVE  CapKept(u, type)'
  <2>1. \A j \in Calls : Awarding(j, u, type)' <=> Awarding(j, u, type)
    BY <1>1 DEF Awarding
  <2>2. /\ \A j \in Calls : Awarding(j, u, type) => Cardinality(Today(u, type)) < DailyCap(type)
        /\ \A i, j \in Calls : Awarding(i, u, type) /\ Awarding(j, u, type) => i = j
    <3>1. CASE <<u, type>> \in crowded
      BY <1>1, <1>7, <3>1
    <3>2. CASE <<u, type>> \notin crowded
      BY <3>2 DEF CapInv, CapKept
    <3> QED
      BY <3>1, <3>2
  <2>3. Cardinality(Today(u, type)) \in Nat /\ DailyCap(type) \in Nat /\ Cardinality(Today(u, type)') = 0
    BY <1>5, TodayIsFinite, CapIsNatural
  <2>4. given'[u][type] = 0 /\ cuts'[u][type] = 0 /\ DailyCap(type)' = DailyCap(type)
    BY <1>6 DEF DailyCap
  <2>5. given'[u][type] <= Cardinality(Today(u, type)') + cuts'[u][type] + (IF AtLog(u, type)' THEN 1 ELSE 0)
    BY <2>3, <2>4
  <2> QED
    BY <2>1, <2>2, <2>3, <2>4, <2>5 DEF CapKept
<1>8. \A k \in Calls : pointCalls'[k].pc # "idle" => pointCalls'[k].user \in Users
  BY <1>1 DEF CapInv
<1>9. totalPoint' \in [Users -> Nat \cup {None}] /\ pointCalls' \in [Calls -> PointCall]
  BY <1>1 DEF CapInv
<1> QED
  BY <1>3, <1>6, <1>7, <1>8, <1>9 DEF CapInv

\* A death cuts the award that was about to be logged.
LEMMA CrashKeepsCap == ASSUME CapInv, PointCrash PROVE CapInv'
<1>1. /\ UNCHANGED <<totalPoint, pointLogs, crowded, given>> /\ pointCalls' = [k \in Calls |-> PointIdle]
      /\ cuts' = [u \in Users |-> [type \in ETypePoint |->
                    IF \E k \in Calls : Awarding(k, u, type) /\ pointCalls[k].pc = "log"
                    THEN cuts[u][type] + 1 ELSE cuts[u][type]]]
      /\ given \in [Users -> [ETypePoint -> Nat]] /\ cuts \in [Users -> [ETypePoint -> Nat]]
  BY DEF PointCrash, CapInv
<1>2. pointCalls' \in [Calls -> PointCall] /\ \A k \in Calls : pointCalls'[k].pc = "idle"
  BY <1>1, IdlePointCall
<1>3. \A u \in Users, type \in ETypePoint :
        cuts'[u][type] = IF AtLog(u, type) THEN cuts[u][type] + 1 ELSE cuts[u][type]
  BY <1>1 DEF AtLog
<1>4. cuts' \in [Users -> [ETypePoint -> Nat]]
  BY <1>1
<1>5. ASSUME NEW u \in Users, NEW type \in ETypePoint, <<u, type>> \notin crowded'
      PROVE  CapKept(u, type)'
  <2>1. CapKept(u, type) /\ Today(u, type)' = Today(u, type) /\ DailyCap(type)' = DailyCap(type)
    BY <1>1, <1>5 DEF CapInv, Today, DailyCap
  <2>2. \A j \in Calls : ~Awarding(j, u, type)'
    BY <1>2 DEF Awarding
  <2>3. Cardinality(Today(u, type)) \in Nat /\ given[u][type] \in Nat /\ cuts[u][type] \in Nat
    BY <1>1, TodayIsFinite
  <2>4. given'[u][type] <= Cardinality(Today(u, type)') + cuts'[u][type] + (IF AtLog(u, type)' THEN 1 ELSE 0)
    BY <1>1, <1>3, <2>1, <2>3 DEF CapKept
  <2> QED
    BY <2>1, <2>2, <2>4 DEF CapKept
<1>6. totalPoint' \in [Users -> Nat \cup {None}] /\ pointLogs' \in [Users -> Seq(PointLog)] /\ given' = given
  BY <1>1 DEF CapInv
<1> QED
  BY <1>1, <1>2, <1>4, <1>5, <1>6 DEF CapInv

LEMMA NextCap == ASSUME CapInv, [Next]_vars PROVE CapInv'
<1>1. totalPoint \in [Users -> Nat \cup {None}] /\ pointCalls \in [Calls -> PointCall]
  BY DEF CapInv
<1>2. ASSUME NEW k \in Calls, NEW u \in Users, NEW type \in ETypePoint, addPoint(k, u, type)
      PROVE  CapInv'
  <2> DEFINE d == [pc |-> "count", user |-> u, type |-> type, copy |-> None]
  <2>1. d \in PointCall /\ d.pc = "count" /\ d.user = u /\ pointCalls[k].pc = "idle"
    BY <1>2, IdlePointCall DEF PointCall, addPoint
  <2>2. pointCalls' = [pointCalls EXCEPT ![k] = d] /\ UNCHANGED <<totalPoint, pointLogs, crowded, given, cuts>>
    BY <1>2 DEF addPoint
  <2> HIDE DEF d
  <2> QED
    BY <1>1, <2>1, <2>2, CapStays
<1>3. CASE UNCHANGED pointVars
  BY <1>1, <1>3, CapStays DEF pointVars
<1> QED
  BY <1>2, <1>3, CountKeepsCap, TotalsKeepCap, LogKeepsCap, MidnightKeepsCap, CrashKeepsCap, PointsMove DEF PointsNext

\* However many calls are under way, the total of a user gets no more awards of a
\* type in a day than the cap, and one for each death between the total and the
\* log of one, unless two were checked before either was logged (addPoint).
THEOREM AwardsAlwaysStayUnderTheCap == Spec => []AwardsStayUnderTheCap
<1>1. CapInv /\ [Next]_vars => CapInv'
  BY NextCap
<1>2. ASSUME NEW u \in Users, NEW type \in ETypePoint, CapInv, <<u, type>> \notin crowded
      PROVE  given[u][type] <= DailyCap(type) + cuts[u][type]
  <2>1. CapKept(u, type) /\ given[u][type] \in Nat /\ cuts[u][type] \in Nat
    BY <1>2 DEF CapInv
  <2>2. Cardinality(Today(u, type)) \in Nat /\ DailyCap(type) \in Nat
    BY <1>2, TodayIsFinite, CapIsNatural
  <2>3. AtLog(u, type) => Cardinality(Today(u, type)) < DailyCap(type)
    BY <2>1 DEF CapKept, AtLog
  <2> QED
    BY <2>1, <2>2, <2>3 DEF CapKept
<1>3. CapInv => \A u \in Users, type \in ETypePoint :
                    <<u, type>> \in crowded \/ given[u][type] <= DailyCap(type) + cuts[u][type]
  BY <1>2, Zenon
<1>4. CapInv => AwardsStayUnderTheCap
  BY <1>3, Zenon DEF AwardsStayUnderTheCap
<1> QED
  BY <1>1, <1>4, InitCap, PTL DEF Spec

----------------------------------------------------------------------------
(* Totals and logs of points. *)

\* The log of a total is written only after it, and what a call read of the
\* total is still there when it writes, unless the user is among the lost.
TotalInv ==
    /\ CapInv
    /\ lost \subseteq Users /\ crowded \subseteq Users \X ETypePoint
    /\ \A u \in Users : IsFiniteSet(Logging(u))
    /\ \A k \in Calls : pointCalls[k].pc = "log" => totalPoint[pointCalls[k].user] # None
    /\ \A u \in Users : totalPoint[u] = None => pointLogs[u] = <<>>
    /\ \A k \in Calls : pointCalls[k].pc = "write" /\ pointCalls[k].user \notin lost
                        => pointCalls[k].copy = totalPoint[pointCalls[k].user]
    /\ TotalIsTheLog

\* Points are whole tenths.
LEMMA PointsAreNumbers == \A type \in ETypePoint : POINT_ADDED[type] \in Nat
BY DEF ETypePoint, POINT_ADDED

\* What is about to be logged can be added up.
LEMMA ToLogIsNumber ==
    ASSUME TotalInv, NEW u \in Users
    PROVE  /\ ToLog(u) \in Nat /\ Logged(u) \in Nat /\ IsFiniteSet(Logging(u))
           /\ IsFiniteSet(DOMAIN pointLogs[u])
           /\ \A k \in Calls : POINT_ADDED[pointCalls[k].type] \in Nat
           /\ \A i \in DOMAIN pointLogs[u] : POINT_ADDED[pointLogs[u][i].type] \in Nat
<1> DEFINE f == [k \in Logging(u) |-> POINT_ADDED[pointCalls[k].type]]
           g == [i \in DOMAIN pointLogs[u] |-> POINT_ADDED[pointLogs[u][i].type]]
<1>1. IsFiniteSet(Logging(u)) /\ pointCalls \in [Calls -> PointCall] /\ pointLogs[u] \in Seq(PointLog)
  BY DEF TotalInv, CapInv
<1>2. \A k \in Calls : POINT_ADDED[pointCalls[k].type] \in Nat
  BY <1>1, PointsAreNumbers DEF PointCall
<1>3. \A i \in DOMAIN pointLogs[u] : POINT_ADDED[pointLogs[u][i].type] \in Nat
  <2>1. \A i \in DOMAIN pointLogs[u] : pointLogs[u][i] \in PointLog
    BY <1>1
  <2>2. \A l \in PointLog : l.type \in ETypePoint
    BY DEF PointLog
  <2> QED
    BY <2>1, <2>2, PointsAreNumbers
<1>4. IsFiniteSet(DOMAIN pointLogs[u])
  <2>1. DOMAIN pointLogs[u] = 1..Len(pointLogs[u]) /\ Len(pointLogs[u]) \in Nat
    BY <1>1
  <2> QED
    BY <2>1, FS_Interval
<1>5. \A k \in Logging(u) : k \in Calls
  BY DEF Logging
<1>6. DOMAIN f = Logging(u) /\ \A x \in DOMAIN f : f[x] \in Nat
  BY <1>2, <1>5
<1>7. DOMAIN g = DOMAIN pointLogs[u] /\ \A x \in DOMAIN g : g[x] \in Nat
  BY <1>3
<1>8. ToLog(u) = SumFunction(f) /\ Logged(u) = SumFunction(g)
  BY DEF ToLog, Logged
<1> HIDE DEF f, g
<1>9. SumFunction(f) \in Nat /\ SumFunction(g) \in Nat
  BY <1>1, <1>4, <1>6, <1>7, SumOfNumbers
<1> QED
  BY <1>1, <1>2, <1>3, <1>4, <1>8, <1>9

LEMMA InitTotal == Init => TotalInv
<1> SUFFICES ASSUME Init PROVE TotalInv
  OBVIOUS
<1>1. /\ totalPoint = [u \in Users |-> None] /\ pointLogs = [u \in Users |-> <<>>]
      /\ pointCalls = [k \in Calls |-> PointIdle] /\ lost = {} /\ crowded = {}
  BY DEF Init, PointsInit
<1>2. \A k \in Calls : pointCalls[k].pc = "idle"
  BY <1>1, IdlePointCall
<1>3. \A u \in Users : Logging(u) = {}
  BY <1>2 DEF Logging
<1>4. ASSUME NEW u \in Users PROVE Total(u) = 0 /\ Logged(u) = 0 /\ ToLog(u) = 0
  <2> DEFINE f == [k \in Logging(u) |-> POINT_ADDED[pointCalls[k].type]]
             g == [i \in DOMAIN pointLogs[u] |-> POINT_ADDED[pointLogs[u][i].type]]
  <2>1. DOMAIN f = {} /\ DOMAIN g = {} /\ ToLog(u) = SumFunction(f) /\ Logged(u) = SumFunction(g)
    BY <1>1, <1>3 DEF ToLog, Logged
  <2>2. Total(u) = 0
    BY <1>1 DEF Total
  <2> HIDE DEF f, g
  <2> QED
    BY <2>1, <2>2, SumOverNothing
<1>5. TotalIsTheLog
  BY <1>4 DEF TotalIsTheLog
<1>6. \A u \in Users : IsFiniteSet(Logging(u))
  BY <1>3, FS_EmptySet
<1> QED
  BY <1>1, <1>2, <1>5, <1>6, InitCap DEF TotalInv

\* No total and no log changes, and no call comes to its log or leaves it.
LEMMA TotalStays ==
    ASSUME TotalInv, CapInv', UNCHANGED <<totalPoint, pointLogs, lost>>,
           crowded' \subseteq Users \X ETypePoint,
           \A k \in Calls : \/ pointCalls'[k] = pointCalls[k]
                            \/ /\ pointCalls[k].pc # "log" /\ pointCalls'[k].pc # "log"
                               /\ pointCalls'[k].pc = "write" =>
                                    pointCalls'[k].copy = totalPoint[pointCalls'[k].user]
    PROVE  TotalInv'
<1>1. ASSUME NEW u \in Users
      PROVE  Logging(u)' = Logging(u) /\ Logged(u)' = Logged(u) /\ ToLog(u)' = ToLog(u)
             /\ Total(u)' = Total(u)
  <2>1. Logging(u)' = Logging(u)
    BY DEF Logging
  <2>2. \A k \in Logging(u) : pointCalls'[k] = pointCalls[k]
    BY DEF Logging
  <2>3. [k \in Logging(u)' |-> POINT_ADDED[pointCalls'[k].type]] = [k \in Logging(u) |-> POINT_ADDED[pointCalls[k].type]]
    BY <2>1, <2>2
  <2> QED
    BY <2>1, <2>3 DEF ToLog, Logged, Total
<1>2. TotalIsTheLog'
  BY <1>1 DEF TotalInv, TotalIsTheLog
<1>3. \A u \in Users : IsFiniteSet(Logging(u)')
  BY <1>1 DEF TotalInv
<1> QED
  BY <1>2, <1>3 DEF TotalInv

LEMMA WriteKeepsTotal ==
    ASSUME TotalInv, CapInv', NEW k \in Calls, WriteTotal(k)
    PROVE  TotalInv'
<1> DEFINE c == pointCalls[k]
<1>0. PICK who : who = c.user
  OBVIOUS
<1>1. /\ c \in PointCall /\ c.pc = "write" /\ c.user = who /\ who \in Users /\ pointCalls \in [Calls -> PointCall]
      /\ totalPoint \in [Users -> Nat \cup {None}] /\ UNCHANGED <<pointLogs, crowded>>
      /\ c.copy \in Nat \cup {None} /\ c.type \in ETypePoint
  BY <1>0 DEF WriteTotal, TotalInv, CapInv, PointCall
<1>2. CASE c.copy = None /\ totalPoint[who] # None
  <2>1. pointCalls' = [pointCalls EXCEPT ![k] = PointIdle] /\ UNCHANGED <<totalPoint, lost>>
    BY <1>1, <1>2 DEF WriteTotal, PointGoes
  <2>2. pointCalls'[k].pc = "idle" /\ \A j \in Calls \ {k} : pointCalls'[j] = pointCalls[j]
    BY <1>1, <2>1, IdlePointCall
  <2>3. c.pc # "log"
    BY <1>1
  <2>4. crowded' \subseteq Users \X ETypePoint
    BY <1>1 DEF TotalInv
  <2> QED
    BY <1>1, <2>1, <2>2, <2>3, <2>4, TotalStays
<1>3. CASE ~(c.copy = None /\ totalPoint[who] # None)
  <2> DEFINE d == [c EXCEPT !.pc = "log"]
  <2>1. d.pc = "log" /\ d.user = who /\ d.type = c.type
    BY <1>1 DEF PointCall
  <2>2. /\ pointCalls' = [pointCalls EXCEPT ![k] = d]
        /\ totalPoint' = [totalPoint EXCEPT ![who] = NewTotal(c)]
        /\ lost' = IF OtherAwards(k, {"write"}) # {} THEN lost \cup {who} ELSE lost
    BY <1>1, <1>3 DEF WriteTotal, PointGoes
  <2> HIDE DEF d
  <2>3. pointCalls'[k] = d /\ \A j \in Calls \ {k} : pointCalls'[j] = pointCalls[j]
    BY <1>1, <2>2
  <2>4. totalPoint'[who] = NewTotal(c) /\ \A u \in Users \ {who} : totalPoint'[u] = totalPoint[u]
    BY <1>1, <2>2
  <2>5. POINT_ADDED[c.type] \in Nat
    BY <1>1, PointsAreNumbers
  <2>6. NewTotal(c) \in Nat /\ NewTotal(c) # None
    BY <1>1, <2>5, NullAssumption DEF NewTotal
  <2>7. /\ Logging(who)' = Logging(who) \cup {k} /\ k \notin Logging(who)
        /\ \A u \in Users \ {who} : Logging(u)' = Logging(u)
    BY <1>1, <2>1, <2>3 DEF Logging
  <2>8. \A u \in Users : IsFiniteSet(Logging(u)')
    <3>1. IsFiniteSet(Logging(who) \cup {k})
      BY <1>1, FS_AddElement DEF TotalInv
    <3> QED
      BY <2>7, <3>1 DEF TotalInv
  <2>9. ASSUME NEW u \in Users \ lost', u # who
        PROVE  Total(u)' = Logged(u)' + ToLog(u)'
    <3>1. \A j \in Logging(u) : pointCalls'[j] = pointCalls[j]
      BY <1>1, <2>3, <2>9 DEF Logging
    <3>2. [j \in Logging(u)' |-> POINT_ADDED[pointCalls'[j].type]] = [j \in Logging(u) |-> POINT_ADDED[pointCalls[j].type]]
      BY <2>7, <2>9, <3>1
    <3>3. ToLog(u)' = ToLog(u) /\ Logged(u)' = Logged(u) /\ Total(u)' = Total(u)
      BY <1>1, <2>4, <2>9, <3>2 DEF ToLog, Logged, Total
    <3>4. u \in Users \ lost
      BY <2>2, <2>9
    <3> QED
      BY <3>3, <3>4 DEF TotalInv, TotalIsTheLog
  <2>10. ASSUME who \notin lost'
         PROVE  Total(who)' = Logged(who)' + ToLog(who)'
    <3> DEFINE f == [j \in Logging(who) |-> POINT_ADDED[pointCalls[j].type]]
               h == [j \in Logging(who)' |-> POINT_ADDED[pointCalls'[j].type]]
    <3>1. who \notin lost /\ c.copy = totalPoint[who]
      BY <1>1, <2>2, <2>10 DEF TotalInv
    <3>2. Total(who)' = Total(who) + POINT_ADDED[c.type] /\ Total(who) \in Nat
      BY <1>1, <2>4, <2>6, <3>1 DEF Total, NewTotal
    <3>3. Logged(who)' = Logged(who)
      BY <1>1 DEF Logged
    <3>4. /\ DOMAIN f = Logging(who) /\ DOMAIN h = DOMAIN f \cup {k} /\ k \notin DOMAIN f
          /\ h[k] = POINT_ADDED[c.type]
      BY <2>1, <2>3, <2>7
    <3>5. \A x \in DOMAIN f : h[x] = f[x] /\ f[x] \in Nat
      <4> SUFFICES ASSUME NEW x \in Logging(who) PROVE h[x] = f[x] /\ f[x] \in Nat
        OBVIOUS
      <4>1. x \in Calls /\ x # k
        BY <2>7 DEF Logging
      <4>2. POINT_ADDED[pointCalls[x].type] \in Nat
        BY <1>1, <4>1, ToLogIsNumber
      <4> QED
        BY <2>3, <2>7, <4>1, <4>2
    <3>6. ToLog(who) = SumFunction(f) /\ ToLog(who)' = SumFunction(h)
      BY DEF ToLog
    <3>7. IsFiniteSet(Logging(who)) /\ Logged(who) \in Nat /\ ToLog(who) \in Nat
      BY <1>1, ToLogIsNumber
    <3> HIDE DEF f, h
    <3>8. \A x \in DOMAIN h : h[x] \in Nat
      BY <2>5, <3>4, <3>5
    <3>9. SumFunction(h) = h[k] + SumFunction(f)
      BY <3>4, <3>5, <3>7, <3>8, SumOfOneMore
    <3>10. Total(who) = Logged(who) + ToLog(who)
      BY <1>1, <3>1 DEF TotalInv, TotalIsTheLog
    <3> QED
      BY <2>5, <3>2, <3>3, <3>4, <3>6, <3>7, <3>9, <3>10
  <2>11. TotalIsTheLog'
    BY <2>9, <2>10 DEF TotalIsTheLog
  <2>12. (\A j \in Calls : pointCalls[j].pc = "write" /\ pointCalls[j].user \notin lost
                         => pointCalls[j].copy = totalPoint[pointCalls[j].user])'
    <3> SUFFICES ASSUME NEW j \in Calls, pointCalls'[j].pc = "write", pointCalls'[j].user \notin lost'
                 PROVE  pointCalls'[j].copy = totalPoint'[pointCalls'[j].user]
      OBVIOUS
    <3>1. j # k /\ pointCalls'[j] = pointCalls[j]
      BY <2>1, <2>3
    <3>2. pointCalls[j].user # who
      BY <1>1, <2>2, <3>1 DEF OtherAwards
    <3>3. pointCalls[j].user \in Users /\ pointCalls[j].user \notin lost
      BY <2>2, <3>1 DEF TotalInv, CapInv
    <3> QED
      BY <2>4, <3>1, <3>2, <3>3 DEF TotalInv
  <2>13. (\A j \in Calls : pointCalls[j].pc = "log" => totalPoint[pointCalls[j].user] # None)'
    <3> SUFFICES ASSUME NEW j \in Calls, pointCalls'[j].pc = "log"
                 PROVE  totalPoint'[pointCalls'[j].user] # None
      OBVIOUS
    <3>1. CASE j = k
      BY <2>1, <2>3, <2>4, <2>6, <3>1
    <3>2. CASE j # k
      <4>1. pointCalls'[j] = pointCalls[j] /\ pointCalls[j].user \in Users
        BY <2>3, <3>2 DEF TotalInv, CapInv
      <4> QED
        BY <2>4, <2>6, <4>1 DEF TotalInv
    <3> QED
      BY <3>1, <3>2
  <2>14. lost' \subseteq Users /\ crowded' \subseteq Users \X ETypePoint
    BY <1>1, <2>2 DEF TotalInv
  <2>15. \A u \in Users : totalPoint'[u] = None => pointLogs'[u] = <<>>
    BY <1>1, <2>4, <2>6 DEF TotalInv
  <2> QED
    BY <2>8, <2>11, <2>12, <2>13, <2>14, <2>15 DEF TotalInv
<1> QED
  BY <1>2, <1>3

LEMMA LogKeepsTotal ==
    ASSUME TotalInv, CapInv', NEW k \in Calls, WriteLog(k)
    PROVE  TotalInv'
<1> DEFINE c == pointCalls[k]
<1>0. PICK who : who = c.user
  OBVIOUS
<1> DEFINE n == Len(pointLogs[who]) + 1
<1>1. /\ c.pc = "log" /\ c.user = who /\ who \in Users /\ pointCalls \in [Calls -> PointCall]
      /\ c.type \in ETypePoint /\ UNCHANGED <<totalPoint, lost, crowded>>
      /\ pointLogs \in [Users -> Seq(PointLog)]
  BY <1>0 DEF WriteLog, TotalInv, CapInv, PointCall
<1>2. /\ pointCalls' = [pointCalls EXCEPT ![k] = PointIdle]
      /\ pointLogs' = [pointLogs EXCEPT ![who] = Append(pointLogs[who], LogOf(c))]
  BY <1>1 DEF WriteLog, PointGoes
<1>3. LogOf(c).type = c.type /\ pointLogs[who] \in Seq(PointLog)
  BY <1>1 DEF LogOf
<1>4. PICK new : new = Append(pointLogs[who], LogOf(c))
  OBVIOUS
<1>5. /\ DOMAIN new = DOMAIN pointLogs[who] \cup {n} /\ n \notin DOMAIN pointLogs[who]
      /\ new[n].type = c.type /\ \A i \in DOMAIN pointLogs[who] : new[i] = pointLogs[who][i]
  <2>1. DOMAIN pointLogs[who] = 1..Len(pointLogs[who]) /\ Len(pointLogs[who]) \in Nat
    BY <1>3
  <2> QED
    BY <1>3, <1>4, <2>1
<1> HIDE DEF n
<1>6. /\ pointLogs'[who] = new /\ \A u \in Users \ {who} : pointLogs'[u] = pointLogs[u]
      /\ pointCalls'[k].pc = "idle" /\ \A j \in Calls \ {k} : pointCalls'[j] = pointCalls[j]
  BY <1>1, <1>2, <1>4, IdlePointCall
<1>7. /\ Logging(who) = Logging(who)' \cup {k} /\ k \notin Logging(who)' /\ k \in Logging(who)
      /\ \A u \in Users \ {who} : Logging(u)' = Logging(u)
  BY <1>1, <1>6 DEF Logging
<1>8. \A u \in Users : IsFiniteSet(Logging(u)')
  <2>1. Logging(who)' \subseteq Logging(who) /\ IsFiniteSet(Logging(who))
    BY <1>1, <1>7 DEF TotalInv
  <2>2. IsFiniteSet(Logging(who)')
    BY <2>1, FS_Subset
  <2> QED
    BY <1>7, <2>2 DEF TotalInv
<1>9. ASSUME NEW u \in Users \ lost', u # who
      PROVE  Total(u)' = Logged(u)' + ToLog(u)'
  <2>1. \A j \in Logging(u) : pointCalls'[j] = pointCalls[j]
    BY <1>1, <1>6, <1>9 DEF Logging
  <2>2. [j \in Logging(u)' |-> POINT_ADDED[pointCalls'[j].type]] = [j \in Logging(u) |-> POINT_ADDED[pointCalls[j].type]]
    BY <1>7, <1>9, <2>1
  <2>3. ToLog(u)' = ToLog(u)
    BY <2>2 DEF ToLog
  <2>4. pointLogs'[u] = pointLogs[u] /\ totalPoint' = totalPoint
    BY <1>1, <1>6, <1>9
  <2>5. Logged(u)' = Logged(u)
    BY <2>4 DEF Logged
  <2>6. Total(u)' = Total(u)
    BY <2>4 DEF Total
  <2>7. Total(u) = Logged(u) + ToLog(u)
    BY <1>1, <1>9 DEF TotalInv, TotalIsTheLog
  <2> QED
    BY <2>3, <2>5, <2>6, <2>7
<1>10. ASSUME who \notin lost'
       PROVE  Total(who)' = Logged(who)' + ToLog(who)'
  <2> DEFINE f == [j \in Logging(who)' |-> POINT_ADDED[pointCalls'[j].type]]
             h == [j \in Logging(who) |-> POINT_ADDED[pointCalls[j].type]]
             p == [i \in DOMAIN pointLogs[who] |-> POINT_ADDED[pointLogs[who][i].type]]
             q == [i \in DOMAIN new |-> POINT_ADDED[new[i].type]]
  <2>1. Total(who)' = Total(who)
    BY <1>1 DEF Total
  <2>2. /\ ToLog(who) = SumFunction(h) /\ ToLog(who)' = SumFunction(f)
        /\ Logged(who) = SumFunction(p) /\ Logged(who)' = SumFunction(q)
    BY <1>6 DEF ToLog, Logged
  <2>3. /\ POINT_ADDED[c.type] \in Nat /\ \A j \in Calls : POINT_ADDED[pointCalls[j].type] \in Nat
        /\ \A i \in DOMAIN pointLogs[who] : POINT_ADDED[pointLogs[who][i].type] \in Nat
        /\ IsFiniteSet(DOMAIN pointLogs[who])
    BY <1>1, ToLogIsNumber
  <2>4. /\ DOMAIN h = DOMAIN f \cup {k} /\ k \notin DOMAIN f /\ h[k] = POINT_ADDED[c.type]
        /\ IsFiniteSet(DOMAIN f) /\ \A x \in DOMAIN f : h[x] = f[x]
    <3>1. \A x \in Logging(who)' : x \in Logging(who) /\ pointCalls'[x] = pointCalls[x]
      BY <1>6, <1>7 DEF Logging
    <3> QED
      BY <1>1, <1>7, <1>8, <3>1
  <2>5. \A x \in DOMAIN h : h[x] \in Nat
    BY <2>3 DEF Logging
  <2>6. /\ DOMAIN p = DOMAIN pointLogs[who] /\ DOMAIN q = DOMAIN p \cup {n} /\ n \notin DOMAIN p
        /\ q[n] = POINT_ADDED[c.type] /\ \A x \in DOMAIN p : q[x] = p[x] /\ p[x] \in Nat
    BY <1>5, <2>3
  <2> HIDE DEF f, h, p, q
  <2>7. SumFunction(h) = h[k] + SumFunction(f) /\ SumFunction(f) \in Nat
    BY <2>4, <2>5, SumOfOneMore
  <2>8. SumFunction(q) = q[n] + SumFunction(p) /\ SumFunction(p) \in Nat
    <3>1. \A x \in DOMAIN q : q[x] \in Nat
      BY <2>3, <2>6
    <3> QED
      BY <2>3, <2>6, <3>1, SumOfOneMore
  <2>9. Total(who) = Logged(who) + ToLog(who)
    BY <1>1, <1>10 DEF TotalInv, TotalIsTheLog
  <2> QED
    BY <2>1, <2>2, <2>3, <2>4, <2>6, <2>7, <2>8, <2>9
<1>11. TotalIsTheLog'
  BY <1>9, <1>10 DEF TotalIsTheLog
<1>12. /\ \A j \in Calls : pointCalls'[j].pc = "log" => totalPoint'[pointCalls'[j].user] # None
       /\ \A j \in Calls : pointCalls'[j].pc = "write" /\ pointCalls'[j].user \notin lost'
                           => pointCalls'[j].copy = totalPoint'[pointCalls'[j].user]
  BY <1>1, <1>6 DEF TotalInv
<1>13. \A u \in Users : totalPoint'[u] = None => pointLogs'[u] = <<>>
  BY <1>1, <1>6 DEF TotalInv
<1> QED
  BY <1>1, <1>8, <1>11, <1>12, <1>13 DEF TotalInv

LEMMA MidnightKeepsTotal ==
    ASSUME TotalInv, CapInv', Midnight
    PROVE  TotalInv'
<1>1. /\ UNCHANGED <<totalPoint, pointCalls, lost>> /\ pointLogs \in [Users -> Seq(PointLog)]
      /\ crowded' \subseteq crowded
      /\ pointLogs' = [u \in Users |-> [i \in DOMAIN pointLogs[u] |->
                          [pointLogs[u][i] EXCEPT !.today = FALSE]]]
  BY DEF Midnight, TotalInv, CapInv
<1>2. ASSUME NEW u \in Users
      PROVE  /\ DOMAIN pointLogs'[u] = DOMAIN pointLogs[u]
             /\ \A i \in DOMAIN pointLogs[u] : pointLogs'[u][i].type = pointLogs[u][i].type
  <2>1. \A i \in DOMAIN pointLogs[u] : pointLogs[u][i] \in PointLog
    BY <1>1
  <2>2. \A l \in PointLog : [l EXCEPT !.today = FALSE].type = l.type
    BY DEF PointLog
  <2> QED
    BY <1>1, <2>1, <2>2
<1>3. ASSUME NEW u \in Users
      PROVE  Total(u)' = Total(u) /\ Logged(u)' = Logged(u) /\ ToLog(u)' = ToLog(u) /\ Logging(u)' = Logging(u)
  <2>1. [i \in DOMAIN pointLogs'[u] |-> POINT_ADDED[pointLogs'[u][i].type]]
        = [i \in DOMAIN pointLogs[u] |-> POINT_ADDED[pointLogs[u][i].type]]
    BY <1>2
  <2> QED
    BY <1>1, <2>1 DEF Total, Logged, ToLog, Logging
<1>4. TotalIsTheLog' /\ \A u \in Users : IsFiniteSet(Logging(u)')
  BY <1>1, <1>3 DEF TotalInv, TotalIsTheLog
<1>5. \A u \in Users : totalPoint'[u] = None => pointLogs'[u] = <<>>
  <2> SUFFICES ASSUME NEW u \in Users, totalPoint'[u] = None PROVE pointLogs'[u] = <<>>
    OBVIOUS
  <2>1. pointLogs[u] = <<>>
    BY <1>1 DEF TotalInv
  <2>2. pointLogs'[u] = [i \in {} |-> [pointLogs[u][i] EXCEPT !.today = FALSE]]
    BY <1>1, <2>1
  <2> QED
    BY <2>2
<1> QED
  BY <1>1, <1>4, <1>5 DEF TotalInv

LEMMA CrashKeepsTotal ==
    ASSUME TotalInv, CapInv', PointCrash
    PROVE  TotalInv'
<1>1. /\ UNCHANGED <<totalPoint, pointLogs, crowded>> /\ pointCalls' = [k \in Calls |-> PointIdle]
      /\ lost' = lost \cup {pointCalls[k].user : k \in {j \in Calls : pointCalls[j].pc = "log"}}
  BY DEF PointCrash
<1>2. \A k \in Calls : pointCalls'[k].pc = "idle"
  BY <1>1, IdlePointCall
<1>3. \A u \in Users : Logging(u)' = {}
  BY <1>2 DEF Logging
<1>4. ASSUME NEW u \in Users \ lost' PROVE Total(u)' = Logged(u)' + ToLog(u)'
  <2> DEFINE f == [k \in Logging(u) |-> POINT_ADDED[pointCalls[k].type]]
             h == [k \in Logging(u)' |-> POINT_ADDED[pointCalls'[k].type]]
  <2>1. Logging(u) = {}
    BY <1>1, <1>4 DEF Logging
  <2>2. DOMAIN f = {} /\ DOMAIN h = {} /\ ToLog(u) = SumFunction(f) /\ ToLog(u)' = SumFunction(h)
    BY <1>3, <2>1 DEF ToLog
  <2>3. Logged(u)' = Logged(u) /\ Total(u)' = Total(u) /\ u \in Users \ lost
    BY <1>1, <1>4 DEF Logged, Total
  <2> HIDE DEF f, h
  <2>4. ToLog(u) = 0 /\ ToLog(u)' = 0
    BY <2>2, SumOverNothing
  <2> QED
    BY <2>3, <2>4 DEF TotalInv, TotalIsTheLog
<1>5. TotalIsTheLog' /\ \A u \in Users : IsFiniteSet(Logging(u)')
  BY <1>3, <1>4, FS_EmptySet DEF TotalIsTheLog
<1>6. lost' \subseteq Users
  BY <1>1 DEF TotalInv, CapInv
<1> QED
  BY <1>1, <1>2, <1>5, <1>6 DEF TotalInv

LEMMA NextTotal == ASSUME TotalInv, [Next]_vars PROVE TotalInv'
<1>1. CapInv'
  BY NextCap DEF TotalInv
<1>2. /\ pointCalls \in [Calls -> PointCall] /\ crowded \subseteq Users \X ETypePoint
      /\ \A k \in Calls : pointCalls[k].pc # "idle" => pointCalls[k].user \in Users
  BY DEF TotalInv, CapInv
<1>3. ASSUME NEW k \in Calls, NEW u \in Users, NEW type \in ETypePoint, addPoint(k, u, type)
      PROVE  TotalInv'
  <2> DEFINE d == [pc |-> "count", user |-> u, type |-> type, copy |-> None]
  <2>1. d.pc = "count" /\ pointCalls[k].pc = "idle"
    BY <1>3, IdlePointCall DEF addPoint
  <2>2. pointCalls' = [pointCalls EXCEPT ![k] = d] /\ UNCHANGED <<totalPoint, pointLogs, lost, crowded>>
    BY <1>3 DEF addPoint
  <2> HIDE DEF d
  <2>3. pointCalls'[k] = d /\ \A j \in Calls \ {k} : pointCalls'[j] = pointCalls[j]
    BY <1>2, <2>2
  <2> QED
    BY <1>1, <1>2, <2>1, <2>2, <2>3, TotalStays
<1>4. ASSUME NEW k \in Calls, CountAwards(k) \/ ReadTotal(k)
      PROVE  TotalInv'
  <2> DEFINE c == pointCalls[k]
  <2>1. /\ c \in PointCall /\ c.pc \in {"count", "read"} /\ UNCHANGED <<totalPoint, pointLogs, lost>>
        /\ c.user \in Users
    BY <1>2, <1>4 DEF CountAwards, ReadTotal
  <2>2. CASE ReadTotal(k)
    <3> DEFINE d == [c EXCEPT !.pc = "write", !.copy = totalPoint[c.user]]
    <3>1. d.user = c.user /\ d.copy = totalPoint[c.user] /\ d.pc = "write"
      BY <2>1 DEF PointCall
    <3>2. pointCalls' = [pointCalls EXCEPT ![k] = d] /\ UNCHANGED crowded
      BY <1>2, <2>2 DEF ReadTotal
    <3> HIDE DEF d
    <3>3. pointCalls'[k] = d /\ \A j \in Calls \ {k} : pointCalls'[j] = pointCalls[j]
      BY <1>2, <3>2
    <3>4. c.pc # "log"
      BY <2>1
    <3> QED
      BY <1>1, <1>2, <2>1, <3>1, <3>2, <3>3, <3>4, TotalStays
  <2>3. CASE CountAwards(k)
    <3>1. \E pc \in {"idle", "read"} : PointGoes(k, pc)
      BY <2>3 DEF CountAwards
    <3>2. pointCalls'[k].pc \in {"idle", "read"} /\ \A j \in Calls \ {k} : pointCalls'[j] = pointCalls[j]
      BY <1>2, <2>1, <3>1, IdlePointCall DEF PointGoes, PointCall
    <3>3. c.type \in ETypePoint
      BY <2>1 DEF PointCall
    <3>4. crowded' \subseteq Users \X ETypePoint
      BY <1>2, <2>1, <2>3, <3>3 DEF CountAwards
    <3>5. c.pc # "log" /\ pointCalls'[k].pc # "log" /\ pointCalls'[k].pc # "write"
      BY <2>1, <3>2
    <3> QED
      BY <1>1, <2>1, <3>2, <3>4, <3>5, TotalStays
  <2> QED
    BY <1>4, <2>2, <2>3
<1>5. CASE UNCHANGED pointVars
  BY <1>1, <1>2, <1>5, TotalStays DEF pointVars
<1> QED
  BY <1>1, <1>3, <1>4, <1>5, WriteKeepsTotal, LogKeepsTotal, MidnightKeepsTotal, CrashKeepsTotal,
     PointsMove DEF PointsNext

\* The total of a user is always the sum of the log and of what is about to be
\* logged, for any awards and calls, unless two awards of the user overlapped
\* or one was cut between the total and the log (upsertPoint, addPoint).
THEOREM TotalIsAlwaysTheLog == Spec => []TotalIsTheLog
<1>1. TotalInv /\ [Next]_vars => TotalInv'
  BY NextTotal
<1>2. TotalInv => TotalIsTheLog
  BY DEF TotalInv
<1> QED
  BY <1>1, <1>2, InitTotal, PTL DEF Spec

----------------------------------------------------------------------------
(* Ratings and averages. *)

Averages(c, u) == c.rating.babysitter = u /\ c.pc \in {"average", "update"}

BookedRating == [babysitter : Users, point : 1..MaxPoint, booking : Bookings]

\* A call that has a rating has one of a babysitter.
RatingCallOK(c) ==
    /\ c \in RatingCall
    /\ c.pc \in {"edit", "save", "delete"} => c.id \in RatingIds
    /\ c.pc \in {"insert", "edit", "save", "average", "update"} => c.rating \in BookedRating
    /\ c.pc \in {"hold", "overwrite"} => c.user \in Users

RatingsFit ==
    /\ ratings \in [RatingIds -> Rating] /\ IsFiniteSet({b \in RatingIds : ratings[b] # NoRating})
    /\ avgRating \in [Users -> Average]
    /\ ratingCalls \in [Calls -> RatingCall] /\ \A k \in Calls : RatingCallOK(ratingCalls[k])
    /\ outOfDate \subseteq Users

\* Besides, what is about to be written is the average of the ratings there are.
AverageOK(u) ==
    /\ avgRating[u] = AverageOf(Rated(u)) \/ \E k \in Calls : Averages(ratingCalls[k], u)
    /\ \A k \in Calls : Averages(ratingCalls[k], u) /\ ratingCalls[k].pc = "update"
                        => ratingCalls[k].copy = AverageOf(Rated(u))

RatingInv == RatingsFit /\ \A u \in Users \ outOfDate : AverageOK(u)

LEMMA RatingsMove ==
    ASSUME [Next]_vars
    PROVE  RatingsNext \/ UNCHANGED ratingVars
BY DEF Next, vars, OthersKeep, Keeps, ratingVars, Part

LEMMA IdleRatingCall == RatingCallOK(RatingIdle) /\ RatingIdle.pc = "idle"
BY DEF RatingIdle, RatingCallOK, RatingCall, Rating, NoRating, Average

LEMMA InitRatings == Init => RatingInv
<1> SUFFICES ASSUME Init PROVE RatingInv
  OBVIOUS
<1>1. /\ ratings = [i \in RatingIds |-> NoRating] /\ avgRating = [u \in Users |-> <<0, 0>>]
      /\ ratingCalls = [k \in Calls |-> RatingIdle] /\ outOfDate = {}
  BY DEF Init, RatingsInit
<1>2. NoRating \in Rating /\ <<0, 0>> \in Average /\ NoRating.babysitter = None
  BY DEF NoRating, Rating, Average
<1>3. {b \in RatingIds : ratings[b] # NoRating} = {}
  BY <1>1
<1>4. RatingsFit
  BY <1>1, <1>2, <1>3, IdleRatingCall, FS_EmptySet DEF RatingsFit, RatingCallOK
<1>5. ASSUME NEW u \in Users PROVE AverageOK(u)
  <2> DEFINE f == [i \in Rated(u) |-> ratings[i].point]
  <2>1. Rated(u) = {}
    BY <1>1, <1>2, NullAssumption DEF Rated
  <2>2. DOMAIN f = {} /\ AverageOf(Rated(u)) = <<SumFunction(f), Cardinality(Rated(u))>>
    BY <2>1 DEF AverageOf
  <2> HIDE DEF f
  <2>3. AverageOf(Rated(u)) = <<0, 0>>
    BY <2>1, <2>2, SumOverNothing, FS_EmptySet
  <2> QED
    BY <1>1, <2>3, IdleRatingCall DEF AverageOK, Averages
<1> QED
  BY <1>4, <1>5 DEF RatingInv

\* The ratings of a babysitter can be counted and added up.
LEMMA AverageIsNumbers ==
    ASSUME RatingsFit, NEW u \in Users
    PROVE  AverageOf(Rated(u)) \in Average
<1> DEFINE f == [i \in Rated(u) |-> ratings[i].point]
<1>1. Rated(u) \subseteq {b \in RatingIds : ratings[b] # NoRating}
  BY NullAssumption DEF Rated, NoRating
<1>2. IsFiniteSet(Rated(u)) /\ Cardinality(Rated(u)) \in Nat
  BY <1>1, FS_Subset, FS_CardinalityType DEF RatingsFit
<1>3. \A r \in Rating : r.point \in Nat
  BY PointAssumption DEF Rating, NoRating
<1>4. DOMAIN f = Rated(u) /\ \A i \in DOMAIN f : f[i] \in Nat
  BY <1>1, <1>3 DEF RatingsFit
<1>5. AverageOf(Rated(u)) = <<SumFunction(f), Cardinality(Rated(u))>>
  BY DEF AverageOf
<1> HIDE DEF f
<1>6. SumFunction(f) \in Nat
  BY <1>2, <1>4, SumOfNumbers
<1> QED
  BY <1>2, <1>5, <1>6 DEF Average

KeepsRatingsOf(u) ==
    \A b \in RatingIds : \/ ratings'[b] = ratings[b]
                         \/ ratings'[b].babysitter # u /\ ratings[b].babysitter # u
KeepsAveraging(u) ==
    \A k \in Calls : \/ ratingCalls'[k] = ratingCalls[k]
                     \/ ~Averages(ratingCalls[k], u) /\ ~Averages(ratingCalls'[k], u)

\* Nothing changes for a babysitter.
LEMMA BabysitterStays ==
    ASSUME NEW u \in Users, AverageOK(u), avgRating'[u] = avgRating[u],
           KeepsRatingsOf(u), KeepsAveraging(u)
    PROVE  AverageOK(u)'
<1>1. Rated(u)' = Rated(u)
  BY DEF Rated, KeepsRatingsOf
<1>2. \A b \in Rated(u) : ratings'[b] = ratings[b]
  BY DEF Rated, KeepsRatingsOf
<1>3. [i \in Rated(u)' |-> ratings'[i].point] = [i \in Rated(u) |-> ratings[i].point]
  BY <1>1, <1>2
<1>4. AverageOf(Rated(u))' = AverageOf(Rated(u))
  BY <1>1, <1>3 DEF AverageOf
<1>5. \A k \in Calls : Averages(ratingCalls'[k], u) <=> Averages(ratingCalls[k], u)
  BY DEF Averages, KeepsAveraging
<1>6. \A k \in Calls : Averages(ratingCalls[k], u) => ratingCalls'[k] = ratingCalls[k]
  BY DEF KeepsAveraging
<1> QED
  BY <1>4, <1>5, <1>6 DEF AverageOK

\* A call goes on.
LEMMA RatingCallMoves ==
    ASSUME RatingsFit, NEW k \in Calls, NEW c, RatingCallOK(c), ratingCalls' = [ratingCalls EXCEPT ![k] = c]
    PROVE  /\ ratingCalls' \in [Calls -> RatingCall] /\ \A j \in Calls : RatingCallOK(ratingCalls'[j])
           /\ ratingCalls'[k] = c /\ \A j \in Calls \ {k} : ratingCalls'[j] = ratingCalls[j]
BY DEF RatingsFit, RatingCallOK

LEMMA RatingGoesTo ==
    ASSUME RatingsFit, NEW k \in Calls, NEW pc, RatingGoes(k, pc), ratingCalls[k].pc # "idle",
           pc \in {"idle", "save", "average", "overwrite"},
           pc = "save" => ratingCalls[k].pc = "edit", pc = "average" => ratingCalls[k].pc = "insert",
           pc = "overwrite" => ratingCalls[k].pc = "hold"
    PROVE  /\ ratingCalls' \in [Calls -> RatingCall] /\ \A j \in Calls : RatingCallOK(ratingCalls'[j])
           /\ ratingCalls'[k].pc = pc /\ \A j \in Calls \ {k} : ratingCalls'[j] = ratingCalls[j]
           /\ pc # "idle" => ratingCalls'[k].rating = ratingCalls[k].rating
<1>1. RatingCallOK(ratingCalls[k]) /\ ratingCalls[k] \in RatingCall
  BY DEF RatingsFit
<1>2. CASE pc = "idle"
  BY <1>2, IdleRatingCall, RatingCallMoves DEF RatingGoes
<1>3. CASE pc # "idle"
  <2> DEFINE c == [ratingCalls[k] EXCEPT !.pc = pc]
  <2>1. RatingCallOK(c) /\ c.pc = pc /\ c.rating = ratingCalls[k].rating
    BY <1>1, <1>3 DEF RatingCallOK, RatingCall
  <2>2. ratingCalls' = [ratingCalls EXCEPT ![k] = c]
    BY <1>3 DEF RatingGoes
  <2> HIDE DEF c
  <2> QED
    BY <2>1, <2>2, RatingCallMoves
<1> QED
  BY <1>2, <1>3

\* A rating is given, changed or goes.
LEMMA RatedFit ==
    ASSUME RatingsFit, ratings' \in [RatingIds -> Rating], NEW b \in RatingIds,
           \A a \in RatingIds \ {b} : ratings'[a] = ratings[a] \/ ratings'[a] = NoRating
    PROVE  IsFiniteSet({a \in RatingIds : ratings'[a] # NoRating})
<1> DEFINE S == {a \in RatingIds : ratings[a] # NoRating}
           T == {a \in RatingIds : ratings'[a] # NoRating}
<1>1. IsFiniteSet(S) /\ T \subseteq S \cup {b}
  BY DEF RatingsFit
<1> HIDE DEF S, T
<1>2. IsFiniteSet(T)
  BY <1>1, OneMoreAtMost
<1> QED
  BY <1>2 DEF T

\* A call that does not come to or leave an average.
LEMMA QuietRating ==
    ASSUME RatingInv, UNCHANGED <<ratings, avgRating, outOfDate>>, NEW k \in Calls,
           ratingCalls' \in [Calls -> RatingCall], \A j \in Calls : RatingCallOK(ratingCalls'[j]),
           \A j \in Calls \ {k} : ratingCalls'[j] = ratingCalls[j],
           ratingCalls[k].pc \notin {"average", "update"}, ratingCalls'[k].pc \notin {"average", "update"}
    PROVE  RatingInv'
<1>1. RatingsFit'
  BY DEF RatingInv, RatingsFit
<1>2. \A u : ~Averages(ratingCalls[k], u) /\ ~Averages(ratingCalls'[k], u)
  BY DEF Averages
<1>3. ASSUME NEW u \in Users \ outOfDate PROVE AverageOK(u)'
  <2>1. KeepsRatingsOf(u) /\ KeepsAveraging(u)
    BY <1>2 DEF KeepsRatingsOf, KeepsAveraging
  <2> QED
    BY <2>1, BabysitterStays DEF RatingInv
<1> QED
  BY <1>1, <1>3 DEF RatingInv

LEMMA InsertKeepsRatings ==
    ASSUME RatingInv, NEW k \in Calls, InsertRating(k)
    PROVE  RatingInv'
<1> DEFINE c == ratingCalls[k]
<1>1. PICK r : r = c.rating
  OBVIOUS
<1>2. PICK w : w = r.babysitter
  OBVIOUS
<1>3. /\ c.pc = "insert" /\ r \in BookedRating /\ w \in Users /\ r \in Rating
      /\ UNCHANGED avgRating /\ RatingsFit
  BY <1>1, <1>2 DEF InsertRating, RatingInv, RatingsFit, RatingCallOK, BookedRating, Rating
<1>4. CASE RatedElsewhere(r.booking, None)
  <2>1. RatingGoes(k, "idle") /\ UNCHANGED <<ratings, outOfDate>>
    BY <1>1, <1>4 DEF InsertRating
  <2> QED
    BY <1>3, <2>1, RatingGoesTo, QuietRating
<1>5. CASE ~RatedElsewhere(r.booking, None)
  <2>0. PICK b \in RatingIds : NewId(b) /\ ratings' = [ratings EXCEPT ![b] = r]
    BY <1>1, <1>5 DEF InsertRating
  <2>1. /\ ratings[b] = NoRating /\ RatingGoes(k, "average")
        /\ outOfDate' = outOfDate \cup (BeingAveraged(k) \cap {w})
    BY <1>1, <1>2, <1>5, <2>0 DEF InsertRating, NewId
  <2>2. /\ ratingCalls' \in [Calls -> RatingCall] /\ \A j \in Calls : RatingCallOK(ratingCalls'[j])
        /\ ratingCalls'[k].pc = "average" /\ ratingCalls'[k].rating = r
        /\ \A j \in Calls \ {k} : ratingCalls'[j] = ratingCalls[j]
    BY <1>1, <1>3, <2>1, RatingGoesTo
  <2>3. /\ ratings' \in [RatingIds -> Rating] /\ ratings'[b] = r
        /\ \A a \in RatingIds \ {b} : ratings'[a] = ratings[a]
    BY <1>3, <2>0 DEF RatingsFit
  <2>4. RatingsFit'
    BY <1>3, <2>1, <2>2, <2>3, RatedFit DEF RatingsFit
  <2>5. ASSUME NEW u \in Users \ outOfDate', u # w PROVE AverageOK(u)'
    <3>1. ratings'[b].babysitter # u /\ ratings[b].babysitter # u
      BY <1>2, <2>1, <2>3, <2>5, NullAssumption DEF NoRating
    <3>2. ~Averages(ratingCalls[k], u) /\ ~Averages(ratingCalls'[k], u)
      BY <1>2, <1>3, <2>2, <2>5 DEF Averages
    <3>3. AverageOK(u)
      BY <2>1, <2>5 DEF RatingInv
    <3>4. KeepsRatingsOf(u) /\ KeepsAveraging(u)
      BY <2>2, <2>3, <3>1, <3>2 DEF KeepsRatingsOf, KeepsAveraging
    <3> QED
      BY <1>3, <3>3, <3>4, BabysitterStays
  <2>6. ASSUME w \notin outOfDate' PROVE AverageOK(w)'
    <3>1. Averages(ratingCalls'[k], w)
      BY <1>2, <2>2 DEF Averages
    <3>2. w \notin BeingAveraged(k)
      BY <2>1, <2>6
    <3>3. \A j \in Calls : ~(Averages(ratingCalls'[j], w) /\ ratingCalls'[j].pc = "update")
      BY <2>2, <3>2 DEF Averages, BeingAveraged
    <3> QED
      BY <3>1, <3>3 DEF AverageOK
  <2> QED
    BY <2>4, <2>5, <2>6 DEF RatingInv
<1> QED
  BY <1>4, <1>5

LEMMA ReadKeepsRatings ==
    ASSUME RatingInv, NEW k \in Calls, ReadAverage(k)
    PROVE  RatingInv'
<1> DEFINE c == ratingCalls[k]
<1>1. PICK w : w = c.rating.babysitter
  OBVIOUS
<1>2. PICK average : average = AverageOf(Rated(w))
  OBVIOUS
<1>3. /\ c.pc = "average" /\ RatingCallOK(c) /\ w \in Users /\ UNCHANGED <<ratings, avgRating>> /\ RatingsFit
      /\ ratingCalls \in [Calls -> RatingCall] /\ c \in RatingCall
  BY <1>1 DEF ReadAverage, RatingInv, RatingsFit, RatingCallOK, BookedRating
<1>4. average \in Average
  BY <1>2, <1>3, AverageIsNumbers
<1> DEFINE d == [c EXCEPT !.pc = "update", !.copy = average]
<1>5. /\ RatingCallOK(d) /\ d.pc = "update" /\ d.copy = average /\ d.rating = c.rating
      /\ d.rating.babysitter = w
  BY <1>1, <1>3, <1>4 DEF RatingCallOK, RatingCall
<1>6. /\ ratingCalls' = [ratingCalls EXCEPT ![k] = d]
      /\ outOfDate' = IF w \in BeingAveraged(k) THEN outOfDate \cup {w} ELSE outOfDate \ {w}
  BY <1>1, <1>2, <1>3 DEF ReadAverage
<1> HIDE DEF d
<1>7. /\ ratingCalls' \in [Calls -> RatingCall] /\ \A j \in Calls : RatingCallOK(ratingCalls'[j])
      /\ ratingCalls'[k] = d /\ \A j \in Calls \ {k} : ratingCalls'[j] = ratingCalls[j]
  BY <1>3, <1>5, <1>6, RatingCallMoves
<1>8. RatingsFit'
  BY <1>3, <1>6, <1>7 DEF RatingsFit
<1>9. ASSUME NEW u \in Users \ outOfDate', u # w PROVE AverageOK(u)'
  <2>1. ~Averages(ratingCalls[k], u) /\ ~Averages(ratingCalls'[k], u)
    BY <1>1, <1>5, <1>7, <1>9 DEF Averages
  <2>2. AverageOK(u)
    BY <1>6, <1>9 DEF RatingInv
  <2>3. KeepsRatingsOf(u) /\ KeepsAveraging(u)
    BY <1>3, <1>7, <2>1 DEF KeepsRatingsOf, KeepsAveraging
  <2> QED
    BY <1>3, <2>2, <2>3, BabysitterStays
<1>10. ASSUME w \notin outOfDate' PROVE AverageOK(w)'
  <2>1. AverageOf(Rated(w))' = average
    BY <1>2, <1>3 DEF AverageOf, Rated
  <2>2. w \notin BeingAveraged(k)
    BY <1>6, <1>10
  <2>3. Averages(ratingCalls'[k], w)
    BY <1>5, <1>7 DEF Averages
  <2>4. \A j \in Calls \ {k} : ~(Averages(ratingCalls'[j], w) /\ ratingCalls'[j].pc = "update")
    BY <1>7, <2>2 DEF Averages, BeingAveraged
  <2> QED
    BY <1>5, <1>7, <2>1, <2>3, <2>4 DEF AverageOK
<1> QED
  BY <1>8, <1>9, <1>10 DEF RatingInv

LEMMA WriteKeepsRatings ==
    ASSUME RatingInv, NEW k \in Calls, WriteAverage(k)
    PROVE  RatingInv'
<1> DEFINE c == ratingCalls[k]
<1>1. PICK w : w = c.rating.babysitter
  OBVIOUS
<1>2. /\ c.pc = "update" /\ w \in Users /\ UNCHANGED <<ratings, outOfDate>> /\ RatingsFit
      /\ RatingGoes(k, "idle") /\ avgRating' = [avgRating EXCEPT ![w] = c.copy] /\ c.copy \in Average
  BY <1>1 DEF WriteAverage, RatingInv, RatingsFit, RatingCallOK, RatingCall, BookedRating
<1>3. /\ ratingCalls' \in [Calls -> RatingCall] /\ \A j \in Calls : RatingCallOK(ratingCalls'[j])
      /\ ratingCalls'[k].pc = "idle" /\ \A j \in Calls \ {k} : ratingCalls'[j] = ratingCalls[j]
  BY <1>2, RatingGoesTo
<1>4. avgRating' \in [Users -> Average] /\ avgRating'[w] = c.copy /\ \A u \in Users \ {w} : avgRating'[u] = avgRating[u]
  BY <1>2 DEF RatingsFit
<1>5. RatingsFit'
  BY <1>2, <1>3, <1>4 DEF RatingsFit
<1>6. ASSUME NEW u \in Users \ outOfDate', u # w PROVE AverageOK(u)'
  <2>1. ~Averages(ratingCalls[k], u) /\ ~Averages(ratingCalls'[k], u)
    BY <1>1, <1>3, <1>6 DEF Averages
  <2>2. AverageOK(u)
    BY <1>2, <1>6 DEF RatingInv
  <2>3. KeepsRatingsOf(u) /\ KeepsAveraging(u)
    BY <1>2, <1>3, <2>1 DEF KeepsRatingsOf, KeepsAveraging
  <2> QED
    BY <1>4, <1>6, <2>2, <2>3, BabysitterStays
<1>7. ASSUME w \notin outOfDate' PROVE AverageOK(w)'
  <2>1. AverageOf(Rated(w))' = AverageOf(Rated(w))
    BY <1>2 DEF AverageOf, Rated
  <2>2. AverageOK(w)
    BY <1>2, <1>7 DEF RatingInv
  <2>3. c.copy = AverageOf(Rated(w))
    BY <1>1, <1>2, <2>2 DEF AverageOK, Averages
  <2>4. \A j \in Calls : Averages(ratingCalls'[j], w) => j # k /\ Averages(ratingCalls[j], w) /\ ratingCalls'[j] = ratingCalls[j]
    BY <1>3 DEF Averages
  <2> QED
    BY <1>4, <2>1, <2>2, <2>3, <2>4 DEF AverageOK
<1> QED
  BY <1>5, <1>6, <1>7 DEF RatingInv

\* Ratings change or go with nothing averaged: their babysitters are out of date.
LEMMA ChangeKeepsRatings ==
    ASSUME RatingInv, NEW k, UNCHANGED avgRating, ratings' \in [RatingIds -> Rating],
           IsFiniteSet({a \in RatingIds : ratings'[a] # NoRating}),
           outOfDate \subseteq outOfDate', outOfDate' \subseteq Users,
           \A b \in RatingIds : \/ ratings'[b] = ratings[b]
                                \/ {ratings'[b].babysitter, ratings[b].babysitter} \cap Users \subseteq outOfDate',
           ratingCalls' \in [Calls -> RatingCall], \A j \in Calls : RatingCallOK(ratingCalls'[j]),
           \A j \in Calls \ {k} : ratingCalls'[j] = ratingCalls[j],
           k \in Calls => \/ ratingCalls'[k] = ratingCalls[k]
                          \/ /\ ratingCalls[k].pc \notin {"average", "update"}
                             /\ ratingCalls'[k].pc \notin {"average", "update"}
    PROVE  RatingInv'
<1>1. RatingsFit'
  BY DEF RatingInv, RatingsFit
<1>2. ASSUME NEW u \in Users \ outOfDate' PROVE AverageOK(u)'
  <2>1. AverageOK(u)
    BY DEF RatingInv
  <2>2. KeepsRatingsOf(u)
    BY DEF KeepsRatingsOf
  <2>3. KeepsAveraging(u)
    <3> SUFFICES ASSUME NEW j \in Calls
                 PROVE  ratingCalls'[j] = ratingCalls[j] \/ (~Averages(ratingCalls[j], u) /\ ~Averages(ratingCalls'[j], u))
      BY DEF KeepsAveraging
    <3>1. CASE j = k
      BY <3>1 DEF Averages
    <3>2. CASE j # k
      BY <3>2
    <3> QED
      BY <3>1, <3>2
  <2> QED
    BY <2>1, <2>2, <2>3, BabysitterStays
<1> QED
  BY <1>1, <1>2 DEF RatingInv

LEMMA SaveKeepsRatings ==
    ASSUME RatingInv, NEW k \in Calls, SaveRating(k)
    PROVE  RatingInv'
<1> DEFINE c == ratingCalls[k]
<1>1. PICK b, r : b = c.id /\ r = c.rating
  OBVIOUS
<1>2. /\ c.pc = "save" /\ b \in RatingIds /\ r \in Rating
      /\ UNCHANGED avgRating /\ RatingsFit /\ RatingGoes(k, "idle")
  BY <1>1 DEF SaveRating, RatingInv, RatingsFit, RatingCallOK, BookedRating, Rating
<1>3. /\ ratingCalls' \in [Calls -> RatingCall] /\ \A j \in Calls : RatingCallOK(ratingCalls'[j])
      /\ ratingCalls'[k].pc = "idle" /\ \A j \in Calls \ {k} : ratingCalls'[j] = ratingCalls[j]
  BY <1>2, RatingGoesTo
<1>4. c.pc \notin {"average", "update"} /\ ratingCalls'[k].pc \notin {"average", "update"}
  BY <1>2, <1>3
<1>5. CASE RatedElsewhere(r.booking, b)
  <2>1. UNCHANGED <<ratings, outOfDate>>
    BY <1>1, <1>5 DEF SaveRating
  <2> QED
    BY <1>2, <1>3, <1>4, <2>1, QuietRating
<1>6. CASE ~RatedElsewhere(r.booking, b)
  <2>1. /\ ratings' = [ratings EXCEPT ![b] = r]
        /\ outOfDate' = outOfDate \cup ({ratings[b].babysitter, r.babysitter} \cap Users)
    BY <1>1, <1>6 DEF SaveRating
  <2>2. /\ ratings' \in [RatingIds -> Rating] /\ ratings'[b] = r
        /\ \A a \in RatingIds \ {b} : ratings'[a] = ratings[a]
    BY <1>2, <2>1 DEF RatingsFit
  <2>3. IsFiniteSet({a \in RatingIds : ratings'[a] # NoRating})
    BY <1>2, <2>2, RatedFit
  <2>4. \A a \in RatingIds : \/ ratings'[a] = ratings[a]
                             \/ {ratings'[a].babysitter, ratings[a].babysitter} \cap Users \subseteq outOfDate'
    BY <2>1, <2>2
  <2>5. outOfDate \subseteq outOfDate' /\ outOfDate' \subseteq Users
    BY <1>2, <2>1 DEF RatingsFit
  <2> QED
    BY <1>2, <1>3, <1>4, <2>2, <2>3, <2>4, <2>5, ChangeKeepsRatings
<1> QED
  BY <1>5, <1>6

\* The rating of an administrator leaves the average as it is.
LEMMA VirtualKeepsRatings ==
    ASSUME RatingInv, NEW w \in Users, NEW p \in 1..MaxPoint, createVirtualRating(w, p)
    PROVE  RatingInv'
<1> DEFINE r == [babysitter |-> w, point |-> p, booking |-> None]
<1>1. PICK b \in RatingIds : ratings' = [ratings EXCEPT ![b] = r] /\ NewId(b)
  BY DEF createVirtualRating
<1>2. /\ outOfDate' = outOfDate \cup {w} /\ UNCHANGED <<avgRating, ratingCalls>> /\ RatingsFit
      /\ ratings[b] = NoRating /\ r \in Rating /\ r.babysitter = w /\ NoRating.babysitter = None
  BY <1>1 DEF createVirtualRating, RatingInv, NewId, Rating, NoRating
<1> HIDE DEF r
<1>3. /\ ratings' \in [RatingIds -> Rating] /\ ratings'[b] = r
      /\ \A a \in RatingIds \ {b} : ratings'[a] = ratings[a]
  BY <1>1, <1>2 DEF RatingsFit
<1>4. IsFiniteSet({a \in RatingIds : ratings'[a] # NoRating})
  BY <1>2, <1>3, RatedFit
<1>5. \A a \in RatingIds : \/ ratings'[a] = ratings[a]
                           \/ {ratings'[a].babysitter, ratings[a].babysitter} \cap Users \subseteq outOfDate'
  BY <1>2, <1>3, NullAssumption
<1>6. outOfDate \subseteq outOfDate' /\ outOfDate' \subseteq Users
  BY <1>2 DEF RatingsFit
<1>7. /\ ratingCalls' \in [Calls -> RatingCall] /\ \A j \in Calls : RatingCallOK(ratingCalls'[j])
      /\ \A j \in Calls : ratingCalls'[j] = ratingCalls[j]
  BY <1>2 DEF RatingsFit
<1>8. PICK k : k \notin Calls
  <2>1. {x \in Calls : x \notin x} \notin Calls
    OBVIOUS
  <2> QED
    BY <2>1
<1> QED
  BY <1>2, <1>3, <1>4, <1>5, <1>6, <1>7, <1>8, ChangeKeepsRatings

\* What a call holds of a row comes back: unless an average is about to be
\* written anyway, it is out of date.
LEMMA OverwriteKeepsRatings ==
    ASSUME RatingInv, NEW k \in Calls, OverwriteRow(k)
    PROVE  RatingInv'
<1> DEFINE c == ratingCalls[k]
           averaging == \E j \in Calls : Averages(ratingCalls[j], c.user)
<1>1. PICK w : w = c.user
  OBVIOUS
<1>2. /\ c.pc = "overwrite" /\ w \in Users /\ UNCHANGED ratings /\ RatingsFit /\ RatingGoes(k, "idle")
      /\ avgRating' = [avgRating EXCEPT ![w] = c.copy] /\ c.copy \in Average
      /\ outOfDate' = IF averaging THEN outOfDate ELSE outOfDate \cup {w}
  BY <1>1 DEF OverwriteRow, RatingInv, RatingsFit, RatingCallOK, RatingCall, Averages
<1>3. /\ ratingCalls' \in [Calls -> RatingCall] /\ \A j \in Calls : RatingCallOK(ratingCalls'[j])
      /\ ratingCalls'[k].pc = "idle" /\ \A j \in Calls \ {k} : ratingCalls'[j] = ratingCalls[j]
  BY <1>2, RatingGoesTo
<1>4. avgRating' \in [Users -> Average] /\ \A u \in Users \ {w} : avgRating'[u] = avgRating[u]
  BY <1>2 DEF RatingsFit
<1>5. RatingsFit'
  BY <1>2, <1>3, <1>4 DEF RatingsFit
<1>6. \A u : ~Averages(ratingCalls[k], u) /\ ~Averages(ratingCalls'[k], u)
  BY <1>2, <1>3 DEF Averages
<1>7. ASSUME NEW u \in Users \ outOfDate' PROVE AverageOK(u)'
  <2>1. AverageOK(u)
    BY <1>2, <1>7 DEF RatingInv
  <2>2. \A j \in Calls : Averages(ratingCalls'[j], u) <=> Averages(ratingCalls[j], u)
    BY <1>3, <1>6
  <2>3. CASE u # w
    <3>1. KeepsRatingsOf(u) /\ KeepsAveraging(u)
      BY <1>2, <1>3, <1>6 DEF KeepsRatingsOf, KeepsAveraging
    <3> QED
      BY <1>4, <2>1, <2>3, <3>1, BabysitterStays
  <2>4. CASE u = w
    <3>1. averaging
      BY <1>2, <1>7, <2>4
    <3>2. \E j \in Calls : Averages(ratingCalls'[j], u)
      BY <1>1, <2>2, <2>4, <3>1
    <3>3. AverageOf(Rated(u))' = AverageOf(Rated(u))
      BY <1>2 DEF AverageOf, Rated
    <3>4. \A j \in Calls : Averages(ratingCalls'[j], u) => ratingCalls'[j] = ratingCalls[j]
      BY <1>3, <1>6
    <3>5. \A j \in Calls : Averages(ratingCalls'[j], u) /\ ratingCalls'[j].pc = "update"
                           => ratingCalls'[j].copy = AverageOf(Rated(u))
      BY <2>1, <2>2, <3>4 DEF AverageOK
    <3> QED
      BY <3>2, <3>3, <3>5 DEF AverageOK
  <2> QED
    BY <2>3, <2>4
<1> QED
  BY <1>5, <1>7 DEF RatingInv

LEMMA GoneFits ==
    ASSUME RatingsFit, NEW S, Gone(S), S \subseteq RatingIds
    PROVE  /\ ratings' \in [RatingIds -> Rating] /\ IsFiniteSet({a \in RatingIds : ratings'[a] # NoRating})
           /\ outOfDate \subseteq outOfDate' /\ outOfDate' \subseteq Users
           /\ \A b \in RatingIds : \/ ratings'[b] = ratings[b]
                                   \/ {ratings'[b].babysitter, ratings[b].babysitter} \cap Users \subseteq outOfDate'
<1>1. /\ ratings' = [b \in RatingIds |-> IF b \in S THEN NoRating ELSE ratings[b]]
      /\ outOfDate' = outOfDate \cup ({ratings[b].babysitter : b \in S} \cap Users)
      /\ NoRating \in Rating /\ NoRating.babysitter = None
  BY DEF Gone, Rating, NoRating
<1>2. ratings' \in [RatingIds -> Rating]
  BY <1>1 DEF RatingsFit
<1>3. {a \in RatingIds : ratings'[a] # NoRating} \subseteq {a \in RatingIds : ratings[a] # NoRating}
  BY <1>1
<1>4. IsFiniteSet({a \in RatingIds : ratings'[a] # NoRating})
  BY <1>3, FS_Subset DEF RatingsFit
<1>5. \A b \in RatingIds : \/ ratings'[b] = ratings[b]
                           \/ {ratings'[b].babysitter, ratings[b].babysitter} \cap Users \subseteq outOfDate'
  BY <1>1, NullAssumption
<1>6. outOfDate \subseteq outOfDate' /\ outOfDate' \subseteq Users
  BY <1>1 DEF RatingsFit
<1> QED
  BY <1>2, <1>4, <1>5, <1>6

LEMMA DeleteKeepsRatings ==
    ASSUME RatingInv, NEW k \in Calls, DeleteRating(k)
    PROVE  RatingInv'
<1>1. PICK S : S = {ratingCalls[k].id}
  OBVIOUS
<1>2. /\ ratingCalls[k].pc = "delete" /\ S \subseteq RatingIds /\ Gone(S) /\ RatingGoes(k, "idle")
      /\ UNCHANGED avgRating /\ RatingsFit
  BY <1>1 DEF DeleteRating, RatingInv, RatingsFit, RatingCallOK
<1>3. /\ ratingCalls' \in [Calls -> RatingCall] /\ \A j \in Calls : RatingCallOK(ratingCalls'[j])
      /\ ratingCalls'[k].pc = "idle" /\ \A j \in Calls \ {k} : ratingCalls'[j] = ratingCalls[j]
  BY <1>2, RatingGoesTo
<1>4. ratingCalls[k].pc \notin {"average", "update"} /\ ratingCalls'[k].pc \notin {"average", "update"}
  BY <1>2, <1>3
<1> QED
  BY <1>2, <1>3, <1>4, GoneFits, ChangeKeepsRatings

LEMMA CascadeKeepsRatings ==
    ASSUME RatingInv, NEW S \in SUBSET RatingIds, RatingsCascade(S)
    PROVE  RatingInv'
<1>1. Gone(S) /\ UNCHANGED <<avgRating, ratingCalls>> /\ RatingsFit
  BY DEF RatingsCascade, RatingInv
<1>2. /\ ratingCalls' \in [Calls -> RatingCall] /\ \A j \in Calls : RatingCallOK(ratingCalls'[j])
      /\ \A j \in Calls : ratingCalls'[j] = ratingCalls[j]
  BY <1>1 DEF RatingsFit
<1>3. PICK k : k \notin Calls
  <2>1. {x \in Calls : x \notin x} \notin Calls
    OBVIOUS
  <2> QED
    BY <2>1
<1> QED
  BY <1>1, <1>2, <1>3, GoneFits, ChangeKeepsRatings

LEMMA CrashKeepsRatings == ASSUME RatingInv, RatingCrash PROVE RatingInv'
<1> DEFINE dead == {k \in Calls : ratingCalls[k].pc \notin {"idle", "hold", "overwrite"}}
<1>1. /\ ratingCalls' = [k \in Calls |-> IF k \in dead THEN RatingIdle ELSE ratingCalls[k]]
      /\ UNCHANGED <<ratings, avgRating>> /\ RatingsFit
      /\ outOfDate' = outOfDate \cup {ratingCalls[k].rating.babysitter :
                        k \in {j \in dead : ratingCalls[j].pc \in {"average", "update"}}}
  BY DEF RatingCrash, RatingInv
<1>2. /\ ratingCalls' \in [Calls -> RatingCall] /\ \A j \in Calls : RatingCallOK(ratingCalls'[j])
      /\ \A j \in Calls : ratingCalls'[j].pc \in {"idle", "hold", "overwrite"}
  <2>1. RatingIdle \in RatingCall /\ \A j \in Calls : ratingCalls[j] \in RatingCall /\ RatingCallOK(ratingCalls[j])
    BY <1>1, IdleRatingCall DEF RatingsFit, RatingCallOK
  <2>2. ratingCalls' \in [Calls -> RatingCall]
    BY <1>1, <2>1
  <2>3. ASSUME NEW j \in Calls
        PROVE  RatingCallOK(ratingCalls'[j]) /\ ratingCalls'[j].pc \in {"idle", "hold", "overwrite"}
    <3>1. CASE j \in dead
      <4>1. ratingCalls'[j] = RatingIdle
        BY <1>1, <3>1
      <4> QED
        BY <4>1, IdleRatingCall
    <3>2. CASE j \notin dead
      <4>1. ratingCalls'[j] = ratingCalls[j] /\ ratingCalls[j].pc \in {"idle", "hold", "overwrite"}
        BY <1>1, <3>2
      <4> QED
        BY <2>1, <4>1
    <3> QED
      BY <3>1, <3>2
  <2> QED
    BY <2>2, <2>3
<1>3. outOfDate' \subseteq Users
  <2>1. \A k \in Calls : ratingCalls[k].pc \in {"average", "update"} => ratingCalls[k].rating.babysitter \in Users
    BY <1>1 DEF RatingsFit, RatingCallOK, BookedRating
  <2> QED
    BY <1>1, <2>1 DEF RatingsFit
<1>4. RatingsFit'
  BY <1>1, <1>2, <1>3 DEF RatingsFit
<1>5. ASSUME NEW u \in Users \ outOfDate' PROVE AverageOK(u)'
  <2>1. AverageOK(u)
    BY <1>1 DEF RatingInv
  <2>2. \A j \in Calls : ~Averages(ratingCalls[j], u) /\ ~Averages(ratingCalls'[j], u)
    BY <1>1, <1>2 DEF Averages
  <2>3. KeepsRatingsOf(u) /\ KeepsAveraging(u)
    BY <1>1, <2>2 DEF KeepsRatingsOf, KeepsAveraging
  <2> QED
    BY <1>1, <2>1, <2>3, BabysitterStays
<1> QED
  BY <1>4, <1>5 DEF RatingInv

LEMMA BeginKeepsRatings ==
    ASSUME RatingInv, NEW k \in Calls, NEW c, RatingBegins(k, c), RatingCallOK(c),
           c.pc \in {"insert", "edit", "delete", "hold"}
    PROVE  RatingInv'
<1>1. RatingsFit /\ UNCHANGED <<ratings, avgRating, outOfDate>> /\ ratingCalls[k] = RatingIdle
      /\ ratingCalls' = [ratingCalls EXCEPT ![k] = c]
  BY DEF RatingInv, RatingBegins
<1>2. /\ ratingCalls' \in [Calls -> RatingCall] /\ \A j \in Calls : RatingCallOK(ratingCalls'[j])
      /\ ratingCalls'[k] = c /\ \A j \in Calls \ {k} : ratingCalls'[j] = ratingCalls[j]
  BY <1>1, RatingCallMoves
<1>3. ratingCalls[k].pc \notin {"average", "update"} /\ ratingCalls'[k].pc \notin {"average", "update"}
  BY <1>1, <1>2, IdleRatingCall
<1> QED
  BY <1>1, <1>2, <1>3, QuietRating

LEMMA BeginsKeepRatings ==
    ASSUME RatingInv, NEW k \in Calls,
           \/ \E b \in Bookings, u \in Users, p \in 1..MaxPoint : createRatingBabysitter(k, b, u, p)
           \/ \E i \in RatingIds : deleteRatingBabysitter(k, i)
           \/ \E u \in Users : HoldRow(k, u)
    PROVE  RatingInv'
<1>1. ASSUME NEW b \in Bookings, NEW u \in Users, NEW p \in 1..MaxPoint, createRatingBabysitter(k, b, u, p)
      PROVE  RatingInv'
  <2> DEFINE r == [babysitter |-> u, point |-> p, booking |-> b]
             New == [RatingIdle EXCEPT !.pc = "insert", !.rating = r]
             Old(i) == [RatingIdle EXCEPT !.pc = "edit", !.id = i, !.rating = r]
  <2>1. r \in BookedRating /\ r \in Rating
    BY DEF BookedRating, Rating
  <2>2. RatingBegins(k, New) \/ \E i \in RatingIds : RatingBegins(k, Old(i))
    BY <1>1, Zenon DEF createRatingBabysitter
  <2> HIDE DEF r
  <2>3. RatingCallOK(New) /\ New.pc = "insert"
    BY <2>1 DEF RatingCallOK, RatingCall, RatingIdle, Average
  <2>4. \A i \in RatingIds : RatingCallOK(Old(i)) /\ Old(i).pc = "edit"
    BY <2>1 DEF RatingCallOK, RatingCall, RatingIdle, Average
  <2> HIDE DEF New, Old
  <2> QED
    BY <2>2, <2>3, <2>4, BeginKeepsRatings
<1>2. ASSUME NEW i \in RatingIds, deleteRatingBabysitter(k, i)
      PROVE  RatingInv'
  <2> DEFINE c == [RatingIdle EXCEPT !.pc = "delete", !.id = i]
  <2>1. RatingCallOK(c) /\ c.pc = "delete"
    BY DEF RatingIdle, RatingCallOK, RatingCall, Rating, NoRating, Average
  <2>2. RatingBegins(k, c)
    BY <1>2, Zenon DEF deleteRatingBabysitter
  <2> HIDE DEF c
  <2> QED
    BY <2>1, <2>2, BeginKeepsRatings
<1>3. ASSUME NEW u \in Users, HoldRow(k, u)
      PROVE  RatingInv'
  <2> DEFINE c == [RatingIdle EXCEPT !.pc = "hold", !.user = u, !.copy = avgRating[u]]
  <2>1. avgRating[u] \in Average
    BY DEF RatingInv, RatingsFit
  <2>2. RatingCallOK(c) /\ c.pc = "hold"
    BY <2>1 DEF RatingIdle, RatingCallOK, RatingCall, Rating, NoRating
  <2>3. RatingBegins(k, c)
    BY <1>3, Zenon DEF HoldRow
  <2> HIDE DEF c
  <2> QED
    BY <2>2, <2>3, BeginKeepsRatings
<1> QED
  BY <1>1, <1>2, <1>3

LEMMA NextRatings == ASSUME RatingInv, [Next]_vars PROVE RatingInv'
<1>1. ASSUME NEW k \in Calls, ReadOld(k) \/ CompareRow(k) PROVE RatingInv'
  <2>1. /\ ratingCalls[k].pc \in {"edit", "hold"} /\ UNCHANGED <<ratings, avgRating, outOfDate>> /\ RatingsFit
        /\ \/ RatingGoes(k, "idle")
           \/ ratingCalls[k].pc = "edit" /\ RatingGoes(k, "save")
           \/ ratingCalls[k].pc = "hold" /\ RatingGoes(k, "overwrite")
    BY <1>1 DEF ReadOld, CompareRow, RatingInv
  <2>2. /\ ratingCalls' \in [Calls -> RatingCall] /\ \A j \in Calls : RatingCallOK(ratingCalls'[j])
        /\ ratingCalls'[k].pc \in {"idle", "save", "overwrite"}
        /\ \A j \in Calls \ {k} : ratingCalls'[j] = ratingCalls[j]
    BY <2>1, RatingGoesTo
  <2>3. ratingCalls[k].pc \notin {"average", "update"} /\ ratingCalls'[k].pc \notin {"average", "update"}
    BY <2>1, <2>2
  <2> QED
    BY <2>1, <2>2, <2>3, QuietRating
<1>2. CASE UNCHANGED ratingVars
  <2>1. RatingsFit'
    BY <1>2 DEF RatingInv, RatingsFit, ratingVars
  <2>2. ASSUME NEW u \in Users \ outOfDate' PROVE AverageOK(u)'
    <3>1. KeepsRatingsOf(u) /\ KeepsAveraging(u)
      BY <1>2 DEF KeepsRatingsOf, KeepsAveraging, ratingVars
    <3>2. UNCHANGED <<avgRating, outOfDate>>
      BY <1>2 DEF ratingVars
    <3> QED
      BY <3>1, <3>2, BabysitterStays DEF RatingInv
  <2> QED
    BY <2>1, <2>2 DEF RatingInv
<1> QED
  BY <1>1, <1>2, RatingsMove, BeginsKeepRatings, InsertKeepsRatings, ReadKeepsRatings, WriteKeepsRatings,
     SaveKeepsRatings, DeleteKeepsRatings, VirtualKeepsRatings, OverwriteKeepsRatings, CascadeKeepsRatings,
     CrashKeepsRatings DEF RatingsNext

\* For any ratings and calls, the average of a babysitter is that of the ratings
\* or about to be written, unless since the last new one a rating was edited,
\* deleted, removed or given by an administrator, two new ones overlapped, a call
\* died, or a save of the row brought an older average back (updateAvgRatingUser,
\* updateProfile).
THEOREM AverageIsAlwaysThatOfTheRatings == Spec => []AverageIsThatOfTheRatings
<1>1. RatingInv /\ [Next]_vars => RatingInv'
  BY NextRatings
<1>2. RatingInv => AverageIsThatOfTheRatings
  BY DEF RatingInv, AverageOK, AverageIsThatOfTheRatings, Averages, Rated
<1> QED
  BY <1>1, <1>2, InitRatings, PTL DEF Spec
----------------------------------------------------------------------------
(* Types.  What grows with the calls is bounded by how many there may be:   *)
(* what was done, and the calls that may yet do it, are no more than began. *)

CountsCalls == called' = called \/ (called < MaxCalls /\ called' = called + 1)

\* Every step counts the call it begins.
LEMMA NextCounts == ASSUME [Next]_vars PROVE CountsCalls
<1>1. PointsNext => CountsCalls
  BY DEF PointsNext, CountsCalls, Counted, addPoint, CountAwards, ReadTotal, WriteTotal, WriteLog, Midnight,
         PointCrash
<1>2. RatingsNext => CountsCalls
  <2>1. \A k, c : RatingBegins(k, c) => CountsCalls
    BY DEF RatingBegins, CountsCalls, Counted
  <2>2. \A k, b, u, p : createRatingBabysitter(k, b, u, p) => CountsCalls
    BY <2>1, Zenon DEF createRatingBabysitter
  <2>3. \A k, x : deleteRatingBabysitter(k, x) \/ HoldRow(k, x) => CountsCalls
    BY <2>1, Zenon DEF deleteRatingBabysitter, HoldRow
  <2>4. \A k : InsertRating(k) \/ ReadAverage(k) \/ WriteAverage(k) \/ ReadOld(k) \/ SaveRating(k) => CountsCalls
    BY DEF InsertRating, ReadAverage, WriteAverage, ReadOld, SaveRating, CountsCalls
  <2>5. \A k : DeleteRating(k) \/ CompareRow(k) \/ OverwriteRow(k) => CountsCalls
    BY DEF DeleteRating, CompareRow, OverwriteRow, CountsCalls
  <2>6. \A u, p : createVirtualRating(u, p) => CountsCalls
    BY DEF createVirtualRating, CountsCalls, Counted
  <2>7. (\E S \in SUBSET RatingIds : RatingsCascade(S)) \/ RatingCrash => CountsCalls
    BY DEF RatingsCascade, RatingCrash, CountsCalls
  <2> QED
    BY <2>2, <2>3, <2>4, <2>5, <2>6, <2>7 DEF RatingsNext
<1>3. RequestsNext => CountsCalls
  BY DEF RequestsNext, CountsCalls, Counted, CreateRequest, RequestBegins, Thread, Settle, ReadRequest,
         UpdateRequest, CreateQuestion, ReportCrash
<1>4. TermsNext => CountsCalls
  BY DEF TermsNext, CountsCalls, Counted, saveTerm, getNextTermOrder, InsertTerm, updateTerm, WriteTerm,
         WithdrawTerm, NextVersion, ConfigCrash
<1>5. ListsNext => CountsCalls
  BY DEF ListsNext, CountsCalls, Counted, Toggle, saveBabysitterRanking, Look, AddRow, RemoveRow,
         ClearRanking, ListCrash
<1>6. PostsNext => CountsCalls
  BY DEF PostsNext, CountsCalls, Counted, createPost, updatePost, deletePost, getPostById, ReadPost,
         WriteCount, UpsertView, RemoveViewer, RemoveOwner, PostCrash
<1>7. CodesNext => CountsCalls
  <2>1. \A k : createCodedBooking(k) => CountsCalls
    BY DEF createCodedBooking, CountsCalls, Counted
  <2>2. \A k : ReadLargest(k) \/ FormatCode(k) \/ InsertCoded(k) => CountsCalls
    BY DEF ReadLargest, FormatCode, InsertCoded, CountsCalls
  <2>3. (\E b \in codes : EraseCoded(b)) \/ MonthTurns \/ CodeCrash => CountsCalls
    BY DEF EraseCoded, MonthTurns, CodeCrash, CountsCalls
  <2> QED
    BY <2>1, <2>2, <2>3 DEF CodesNext
<1>8. \A p : FormsNext(p) => CountsCalls
  <2>1. \A k, p, pc, list : FormBegins(k, p, pc, list) => CountsCalls
    BY DEF FormBegins, CountsCalls, Counted
  <2>2. \A k, p : updateProfile(k, p) \/ saveCurrencies(k) \/ upsertCountry(k) \/ updateManager(k) => CountsCalls
    BY <2>1 DEF updateProfile, saveCurrencies, upsertCountry, updateManager
  <2>3. \A k : setUserImageAsDefault(k) \/ deleteUserImageById(k) => CountsCalls
    BY <2>1 DEF setUserImageAsDefault, deleteUserImageById
  <2>4. \A k : CheckUsed(k) \/ SaveUser(k) \/ DeleteUnlisted(k) \/ SaveListed(k) => CountsCalls
    BY DEF CheckUsed, SaveUser, DeleteUnlisted, SaveListed, CountsCalls
  <2>5. \A k : updateManagerPermissions(k) \/ SaveManager(k) \/ WriteDefault(k) \/ DropImage(k) => CountsCalls
    BY DEF updateManagerPermissions, SaveManager, WriteDefault, DropImage, CountsCalls
  <2>6. FormCrash => CountsCalls
    BY DEF FormCrash, CountsCalls
  <2> QED
    BY <2>2, <2>3, <2>4, <2>5, <2>6 DEF FormsNext
<1>9. \A t : SettingsNext(t) => CountsCalls
  <2>1. \A k : createSpecialService(k) => CountsCalls
    BY DEF createSpecialService, CountsCalls, Counted
  <2>2. \A k : RemoveUnlisted(k) \/ CreateServices(k) => CountsCalls
    BY DEF RemoveUnlisted, CreateServices, CountsCalls
  <2>3. \A k, i : ReadDetail(k, i) \/ WriteDetail(k, i) => CountsCalls
    BY DEF ReadDetail, WriteDetail, CountsCalls
  <2>4. deleteSpecialService => CountsCalls
    BY DEF deleteSpecialService, CountsCalls, Counted
  <2>5. ServicesNext => CountsCalls
    BY <2>1, <2>2, <2>3, <2>4 DEF ServicesNext
  <2>6. \A k, call : FaqBegins(k, call) => CountsCalls
    BY DEF FaqBegins, CountsCalls, Counted
  <2>7. \A k : createFaq(k) \/ updateFaq(k) => CountsCalls
    BY <2>6 DEF createFaq, updateFaq
  <2>8. \A k : getFaqOrder(k) \/ SaveFaq(k) => CountsCalls
    BY DEF getFaqOrder, SaveFaq, CountsCalls
  <2>9. FaqsNext => CountsCalls
    BY <2>7, <2>8 DEF FaqsNext
  <2>10. SettingsCrash => CountsCalls
    BY DEF SettingsCrash, CountsCalls
  <2> QED
    BY <2>5, <2>9, <2>10 DEF SettingsNext
<1>10. UNCHANGED vars => CountsCalls
  BY DEF vars, CountsCalls
<1> QED
  BY <1>1, <1>2, <1>3, <1>4, <1>5, <1>6, <1>7, <1>8, <1>9, <1>10 DEF Next

\* There are never more calls than the bound.
LEMMA CallsAreBounded ==
    ASSUME called \in 0..MaxCalls, [Next]_vars
    PROVE  called' \in 0..MaxCalls /\ called' >= called
BY NextCounts DEF CountsCalls

\* The calls of c that are at one of pcs.
At(c, pcs) == {k \in Calls : c[k].pc \in pcs}

LEMMA AtMoves ==
    ASSUME NEW c, NEW d, NEW pcs, IsFiniteSet(At(c, pcs)), NEW k \in Calls,
           \A j \in Calls \ {k} : d[j].pc = c[j].pc
    PROVE  /\ IsFiniteSet(At(d, pcs)) /\ Cardinality(At(d, pcs)) \in Nat /\ Cardinality(At(c, pcs)) \in Nat
           /\ Cardinality(At(d, pcs)) <= Cardinality(At(c, pcs)) + 1
           /\ c[k].pc \in pcs \/ d[k].pc \notin pcs => Cardinality(At(d, pcs)) <= Cardinality(At(c, pcs))
           /\ c[k].pc \in pcs /\ d[k].pc \notin pcs => Cardinality(At(d, pcs)) = Cardinality(At(c, pcs)) - 1
<1> DEFINE S == At(c, pcs)
           T == At(d, pcs)
<1>1. T \subseteq S \cup {k}
  BY DEF At
<1>2. IsFiniteSet(T) /\ Cardinality(T) \in Nat /\ Cardinality(S) \in Nat /\ Cardinality(T) <= Cardinality(S) + 1
  BY <1>1, OneMoreAtMost, FS_CardinalityType
<1>3. ASSUME c[k].pc \in pcs \/ d[k].pc \notin pcs PROVE Cardinality(T) <= Cardinality(S)
  <2>1. T \subseteq S
    BY <1>3 DEF At
  <2> HIDE DEF S, T
  <2> QED
    BY <1>2, <2>1, FS_Subset DEF S
<1>4. ASSUME c[k].pc \in pcs, d[k].pc \notin pcs PROVE Cardinality(T) = Cardinality(S) - 1
  <2>1. T = S \ {k} /\ k \in S
    BY <1>4 DEF At
  <2>2. IsFiniteSet(S)
    OBVIOUS
  <2> HIDE DEF S, T
  <2> QED
    BY <2>1, <2>2, FS_RemoveElement
<1> QED
  BY <1>2, <1>3, <1>4

LEMMA NoneAt ==
    ASSUME NEW c, NEW pcs, \A k \in Calls : c[k].pc \notin pcs
    PROVE  IsFiniteSet(At(c, pcs)) /\ Cardinality(At(c, pcs)) = 0
<1>1. At(c, pcs) = {}
  BY DEF At
<1> QED
  BY <1>1, FS_EmptySet

----------------------------------------------------------------------------
(* Types of the lists. *)

ListPCs == {"look", "add", "remove", "clear", "fill"}

ListBound ==
    /\ called \in 0..MaxCalls /\ twice \subseteq ListName \X Users
    /\ IsFiniteSet(At(listCalls, ListPCs))
    /\ \A l \in ListName, u \in Users : rows[l][u] + Cardinality(At(listCalls, ListPCs)) <= called

LEMMA InitListBound == Init => ListBound
<1> SUFFICES ASSUME Init PROVE ListBound
  OBVIOUS
<1>1. /\ rows = [l \in ListName |-> [u \in Users |-> 0]] /\ listCalls = [k \in Calls |-> ListIdle]
      /\ twice = {} /\ called = 0
  BY DEF Init, ListsInit
<1>2. \A k \in Calls : listCalls[k].pc \notin ListPCs
  BY <1>1 DEF ListIdle, ListPCs
<1>3. IsFiniteSet(At(listCalls, ListPCs)) /\ Cardinality(At(listCalls, ListPCs)) = 0
  BY <1>2, NoneAt
<1>4. \A l \in ListName, u \in Users : rows[l][u] = 0
  BY <1>1
<1> QED
  BY <1>1, <1>3, <1>4 DEF ListBound

LEMMA NextListBound ==
    ASSUME ListInv, ListInv', ListBound, [Next]_vars
    PROVE  ListBound'
<1> DEFINE n == Cardinality(At(listCalls, ListPCs))
<1>1. /\ rows \in [ListName -> [Users -> Nat]] /\ rows' \in [ListName -> [Users -> Nat]]
      /\ listCalls \in [Calls -> ListCall] /\ called' \in 0..MaxCalls /\ called' >= called /\ called \in Nat
  BY CallsAreBounded DEF ListInv, ListBound
<1>2. \A k \in Calls : Meets(k) \subseteq ListName \X Users
  BY <1>1 DEF Meets, ListCall
<1>3. twice' \subseteq ListName \X Users
  <2>1. \/ UNCHANGED twice
        \/ \E k \in Calls : twice' = twice \cup Meets(k)
    <3>1. CASE UNCHANGED listVars
      BY <3>1 DEF listVars
    <3>2. CASE ListsNext
      BY <3>2 DEF ListsNext, Toggle, saveBabysitterRanking, Look, AddRow, RemoveRow, ClearRanking, ListCrash
    <3> QED
      BY <3>1, <3>2, ListsMove
  <2> QED
    BY <1>2, <2>1 DEF ListBound
<1>4. ASSUME NEW k \in Calls, \A j \in Calls \ {k} : listCalls'[j].pc = listCalls[j].pc,
             \A l \in ListName, u \in Users : rows'[l][u] <= rows[l][u],
             called' = called + 1 \/ listCalls[k].pc \in ListPCs
      PROVE  ListBound'
  <2>1. /\ IsFiniteSet(At(listCalls', ListPCs)) /\ Cardinality(At(listCalls', ListPCs)) \in Nat /\ n \in Nat
        /\ Cardinality(At(listCalls', ListPCs)) <= n + 1
        /\ listCalls[k].pc \in ListPCs => Cardinality(At(listCalls', ListPCs)) <= n
    BY <1>4, AtMoves DEF ListBound
  <2>2. ASSUME NEW l \in ListName, NEW u \in Users
        PROVE  rows'[l][u] + Cardinality(At(listCalls', ListPCs)) <= called'
    <3>1. rows[l][u] \in Nat /\ rows'[l][u] \in Nat /\ rows[l][u] + n <= called /\ rows'[l][u] <= rows[l][u]
      BY <1>1, <1>4 DEF ListBound
    <3> HIDE DEF n
    <3> QED
      BY <1>1, <1>4, <2>1, <3>1
  <2> QED
    BY <1>1, <1>3, <2>1, <2>2 DEF ListBound
<1>5. ASSUME NEW k \in Calls, AddRow(k) PROVE ListBound'
  <2>1. listCalls[k].pc \in ListPCs /\ listCalls'[k].pc \notin ListPCs /\ \A j \in Calls \ {k} : listCalls'[j] = listCalls[j]
    BY <1>5, ListMoved DEF AddRow, ListPCs, ListIdle
  <2>2. /\ IsFiniteSet(At(listCalls', ListPCs)) /\ Cardinality(At(listCalls', ListPCs)) \in Nat /\ n \in Nat
        /\ Cardinality(At(listCalls', ListPCs)) = n - 1
    BY <2>1, AtMoves DEF ListBound
  <2>3. rows' = Added(listCalls[k])
    BY <1>5 DEF AddRow
  <2>4. ASSUME NEW l \in ListName, NEW u \in Users
        PROVE  rows'[l][u] + Cardinality(At(listCalls', ListPCs)) <= called'
    <3>1. rows[l][u] \in Nat /\ rows[l][u] + n <= called
      BY <1>1 DEF ListBound
    <3>2. rows'[l][u] \in {rows[l][u], rows[l][u] + 1}
      BY <1>1, <2>3 DEF Added, ListCall
    <3> HIDE DEF n
    <3> QED
      BY <1>1, <2>2, <3>1, <3>2
  <2> QED
    BY <1>1, <1>3, <2>2, <2>4 DEF ListBound
<1>6. ASSUME NEW k \in Calls,
             \/ \E l \in ListName, u \in Users : Toggle(k, l, u)
             \/ \E S \in SUBSET Users : saveBabysitterRanking(k, S)
      PROVE  ListBound'
  <2>1. PICK c : listCalls' = [listCalls EXCEPT ![k] = c]
    BY <1>6 DEF Toggle, saveBabysitterRanking
  <2>2. UNCHANGED rows /\ called' = called + 1
    BY <1>6 DEF Toggle, saveBabysitterRanking, Counted
  <2>3. \A j \in Calls \ {k} : listCalls'[j] = listCalls[j]
    BY <1>1, <2>1
  <2>4. \A l \in ListName, u \in Users : rows'[l][u] <= rows[l][u]
    BY <1>1, <2>2
  <2> QED
    BY <1>4, <2>2, <2>3, <2>4
<1>7. ASSUME NEW k \in Calls, Look(k) \/ RemoveRow(k) \/ ClearRanking(k)
      PROVE  ListBound'
  <2>1. listCalls[k].pc \in ListPCs /\ \E pc : ListGoes(k, pc)
    BY <1>7 DEF Look, RemoveRow, ClearRanking, ListPCs
  <2>2. \A j \in Calls \ {k} : listCalls'[j] = listCalls[j]
    BY <2>1, ListMoved
  <2>3. \A l \in ListName, u \in Users : rows'[l][u] <= rows[l][u]
    <3>1. CASE Look(k)
      BY <1>1, <3>1 DEF Look
    <3>2. CASE ClearRanking(k)
      BY <1>1, <3>2 DEF ClearRanking
    <3>3. CASE RemoveRow(k)
      <4> DEFINE c == listCalls[k]
      <4>1. PICK v \in c.users : rows' = [rows EXCEPT ![c.list][v] = IF c.list = "react" \/ @ = 0 THEN 0 ELSE @ - 1]
        BY <3>3 DEF RemoveRow
      <4>2. c.list \in ListName /\ v \in Users
        BY <1>1 DEF ListCall
      <4> HIDE DEF c
      <4>3. ASSUME NEW l \in ListName, NEW u \in Users PROVE rows'[l][u] <= rows[l][u]
        <5>1. rows'[l][u] = rows[l][u] \/ rows'[l][u] = 0 \/ rows'[l][u] = rows[l][u] - 1
          BY <1>1, <4>1, <4>2
        <5> QED
          BY <1>1, <5>1
      <4> QED
        BY <4>3
    <3> QED
      BY <1>7, <3>1, <3>2, <3>3
  <2> QED
    BY <1>4, <2>1, <2>2, <2>3
<1>8. ASSUME UNCHANGED rows, \A k \in Calls : listCalls'[k].pc = "idle" PROVE ListBound'
  <2>1. IsFiniteSet(At(listCalls', ListPCs)) /\ Cardinality(At(listCalls', ListPCs)) = 0
    BY <1>8, NoneAt DEF ListPCs
  <2>2. n \in Nat
    BY FS_CardinalityType DEF ListBound
  <2>3. ASSUME NEW l \in ListName, NEW u \in Users
        PROVE  rows'[l][u] + Cardinality(At(listCalls', ListPCs)) <= called'
    <3>1. rows[l][u] \in Nat /\ rows[l][u] + n <= called /\ rows'[l][u] = rows[l][u]
      BY <1>1, <1>8 DEF ListBound
    <3> HIDE DEF n
    <3> QED
      BY <1>1, <2>1, <2>2, <3>1
  <2> QED
    BY <1>1, <1>3, <2>1, <2>3 DEF ListBound
<1>9. CASE ListCrash
  <2>1. UNCHANGED rows /\ \A k \in Calls : listCalls'[k].pc = "idle"
    BY <1>9 DEF ListCrash, ListIdle
  <2> QED
    BY <1>8, <2>1
<1>10. CASE UNCHANGED listVars
  <2>1. UNCHANGED <<rows, listCalls>>
    BY <1>10 DEF listVars
  <2>2. n \in Nat
    BY FS_CardinalityType DEF ListBound
  <2>3. ASSUME NEW l \in ListName, NEW u \in Users
        PROVE  rows'[l][u] + n <= called'
    <3>1. rows[l][u] \in Nat /\ rows[l][u] + n <= called /\ rows'[l][u] = rows[l][u]
      BY <1>1, <2>1 DEF ListBound
    <3> HIDE DEF n
    <3> QED
      BY <1>1, <2>2, <3>1
  <2> QED
    BY <1>1, <1>3, <2>1, <2>3 DEF ListBound
<1> QED
  BY <1>5, <1>6, <1>7, <1>9, <1>10, ListsMove DEF ListsNext

LEMMA TypesOfLists == ListInv /\ ListBound => ListsTypeOK
<1> SUFFICES ASSUME ListInv, ListBound PROVE ListsTypeOK
  OBVIOUS
<1>1. Cardinality(At(listCalls, ListPCs)) \in Nat
  BY FS_CardinalityType DEF ListBound
<1>2. ASSUME NEW l \in ListName, NEW u \in Users PROVE rows[l][u] \in 0..MaxCalls
  <2>1. rows[l][u] \in Nat /\ rows[l][u] + Cardinality(At(listCalls, ListPCs)) <= called /\ called \in 0..MaxCalls
    BY DEF ListInv, ListBound
  <2> QED
    BY <1>1, <2>1
<1>3. rows \in [ListName -> [Users -> 0..MaxCalls]]
  BY <1>2 DEF ListInv
<1> QED
  BY <1>3 DEF ListInv, ListBound, ListsTypeOK
----------------------------------------------------------------------------
(* Types of the requests. *)

RequestPCs == {"read", "update", "question"}

RequestBound ==
    /\ called \in 0..MaxCalls /\ reopened \subseteq Requests
    /\ IsFiniteSet(At(requestCalls, RequestPCs))
    /\ \A r \in Requests : requests[r].questions + Cardinality(At(requestCalls, RequestPCs)) <= called

LEMMA InitRequestBound == Init => RequestBound
<1> SUFFICES ASSUME Init PROVE RequestBound
  OBVIOUS
<1>1. /\ requests = [r \in Requests |-> NoRequest] /\ requestCalls = [k \in Calls |-> RequestIdle]
      /\ reopened = {} /\ called = 0
  BY DEF Init, RequestsInit
<1>2. \A k \in Calls : requestCalls[k].pc \notin RequestPCs
  BY <1>1 DEF RequestIdle, RequestPCs
<1>3. IsFiniteSet(At(requestCalls, RequestPCs)) /\ Cardinality(At(requestCalls, RequestPCs)) = 0
  BY <1>2, NoneAt
<1>4. \A r \in Requests : requests[r].questions = 0
  BY <1>1 DEF NoRequest
<1> QED
  BY <1>1, <1>3, <1>4 DEF RequestBound

LEMMA RequestMoved ==
    ASSUME RequestInv, NEW k \in Calls, NEW pc, RequestGoes(k, pc)
    PROVE  /\ \A j \in Calls \ {k} : requestCalls'[j] = requestCalls[j]
           /\ requestCalls'[k].pc = pc
BY DEF RequestInv, RequestGoes, RequestCall, RequestIdle

LEMMA NextRequestBound ==
    ASSUME RequestInv, RequestInv', RequestBound, [Next]_vars
    PROVE  RequestBound'
<1> DEFINE n == Cardinality(At(requestCalls, RequestPCs))
           m == Cardinality(At(requestCalls', RequestPCs))
<1>1. /\ requests \in [Requests -> Row] /\ requests' \in [Requests -> Row]
      /\ requestCalls \in [Calls -> RequestCall] /\ called' \in 0..MaxCalls /\ called' >= called /\ called \in Nat
      /\ \A r \in Requests : requests[r].questions \in Nat /\ requests'[r].questions \in Nat
  BY CallsAreBounded DEF RequestInv, RequestBound, Row
<1>2. reopened' \subseteq Requests
  <2>1. reopened' = reopened \/ \E k \in Calls : UpdateRequest(k)
    BY RequestsMove DEF RequestsNext, requestVars, CreateRequest, Thread, Settle, ReadRequest, CreateQuestion,
       ReportCrash
  <2>2. ASSUME NEW k \in Calls, UpdateRequest(k) PROVE reopened' \subseteq Requests
    <3>1. requestCalls[k].request \in Requests
      BY <2>2 DEF UpdateRequest, RequestInv, RequestCallOK
    <3> QED
      BY <2>2, <3>1 DEF UpdateRequest, RequestBound
  <2> QED
    BY <2>1, <2>2 DEF RequestBound
<1>3. n \in Nat
  BY FS_CardinalityType DEF RequestBound
<1>4. ASSUME NEW k \in Calls, \A j \in Calls \ {k} : requestCalls'[j].pc = requestCalls[j].pc,
             \A r \in Requests : requests'[r].questions = requests[r].questions,
             called' = called + 1 \/ requestCalls[k].pc \in RequestPCs
      PROVE  RequestBound'
  <2>1. /\ IsFiniteSet(At(requestCalls', RequestPCs)) /\ m \in Nat /\ m <= n + 1
        /\ requestCalls[k].pc \in RequestPCs => m <= n
    BY <1>4, AtMoves DEF RequestBound
  <2>2. ASSUME NEW r \in Requests PROVE requests'[r].questions + m <= called'
    <3>1. requests[r].questions \in Nat /\ requests[r].questions + n <= called
          /\ requests'[r].questions = requests[r].questions
      BY <1>1, <1>4 DEF RequestBound
    <3> HIDE DEF n, m
    <3> QED
      BY <1>1, <1>3, <1>4, <2>1, <3>1
  <2> QED
    BY <1>1, <1>2, <2>1, <2>2 DEF RequestBound
<1>5. ASSUME NEW k \in Calls, CreateQuestion(k) PROVE RequestBound'
  <2>1. requestCalls[k].pc \in RequestPCs /\ requestCalls'[k].pc \notin RequestPCs
        /\ \A j \in Calls \ {k} : requestCalls'[j] = requestCalls[j]
    BY <1>5, RequestMoved DEF CreateQuestion, RequestPCs
  <2>2. IsFiniteSet(At(requestCalls', RequestPCs)) /\ m \in Nat /\ m = n - 1
    BY <2>1, AtMoves DEF RequestBound
  <2>3. ASSUME NEW r \in Requests PROVE requests'[r].questions + m <= called'
    <3>1. requests[r].questions \in Nat /\ requests[r].questions + n <= called
      BY <1>1 DEF RequestBound
    <3>2. requests'[r].questions \in {requests[r].questions, requests[r].questions + 1}
      BY <1>1, <1>5 DEF CreateQuestion, Row
    <3> HIDE DEF n, m
    <3> QED
      BY <1>1, <1>3, <2>2, <3>1, <3>2
  <2> QED
    BY <1>1, <1>2, <2>2, <2>3 DEF RequestBound
<1>6. ASSUME NEW k \in Calls, NEW r \in Requests,
             \/ \E type \in ERequestType : CreateRequest(k, r, type)
             \/ \E by \in {"user", "staff", "close"} : Thread(k, r, by)
             \/ \E status \in ERequestStatus : Settle(k, r, status)
      PROVE  RequestBound'
  <2>1. called' = called + 1
    BY <1>6 DEF CreateRequest, Thread, Settle, RequestBegins, Counted
  <2>2. requestCalls' = requestCalls \/ \E c : requestCalls' = [requestCalls EXCEPT ![k] = c]
    BY <1>6 DEF CreateRequest, Thread, Settle, RequestBegins
  <2>3. \A j \in Calls \ {k} : requestCalls'[j] = requestCalls[j]
    BY <1>1, <2>2
  <2>4. requests' = requests \/ \E type : requests' = [requests EXCEPT ![r].type = type]
    BY <1>6 DEF CreateRequest, Thread, Settle
  <2>5. \A q \in Requests : requests'[q].questions = requests[q].questions
    BY <1>1, <2>4 DEF Row
  <2> QED
    BY <1>4, <2>1, <2>3, <2>5
<1>7. ASSUME NEW k \in Calls, ReadRequest(k) \/ UpdateRequest(k) PROVE RequestBound'
  <2>1. requestCalls[k].pc \in RequestPCs
    BY <1>7 DEF ReadRequest, UpdateRequest, RequestPCs
  <2>2. \A j \in Calls \ {k} : requestCalls'[j] = requestCalls[j]
    BY <1>1, <1>7, RequestMoved DEF ReadRequest, UpdateRequest
  <2>3. requests' = requests \/ \E r, status : requests' = [requests EXCEPT ![r].status = status]
    BY <1>7 DEF ReadRequest, UpdateRequest
  <2>4. \A q \in Requests : requests'[q].questions = requests[q].questions
    BY <1>1, <2>3 DEF Row
  <2> QED
    BY <1>4, <2>1, <2>2, <2>4
<1>8. ASSUME UNCHANGED requests, IsFiniteSet(At(requestCalls', RequestPCs)), m \in {0, n} PROVE RequestBound'
  <2>1. ASSUME NEW r \in Requests PROVE requests'[r].questions + m <= called'
    <3>1. requests[r].questions \in Nat /\ requests[r].questions + n <= called /\ requests'[r] = requests[r]
      BY <1>1, <1>8 DEF RequestBound
    <3> HIDE DEF n, m
    <3> QED
      BY <1>1, <1>3, <1>8, <3>1
  <2> QED
    BY <1>1, <1>2, <1>8, <2>1 DEF RequestBound
<1>9. CASE ReportCrash
  <2>1. UNCHANGED requests /\ \A k \in Calls : requestCalls'[k].pc \notin RequestPCs
    BY <1>9 DEF ReportCrash, RequestIdle, RequestPCs
  <2>2. IsFiniteSet(At(requestCalls', RequestPCs)) /\ m = 0
    BY <2>1, NoneAt
  <2> QED
    BY <1>8, <2>1, <2>2
<1>10. CASE UNCHANGED requestVars
  <2>1. UNCHANGED <<requests, requestCalls>>
    BY <1>10 DEF requestVars
  <2> QED
    BY <1>8, <2>1 DEF RequestBound
<1> QED
  BY <1>5, <1>6, <1>7, <1>9, <1>10, RequestsMove DEF RequestsNext

LEMMA TypesOfRequests == RequestInv /\ RequestBound => RequestsTypeOK
<1> SUFFICES ASSUME RequestInv, RequestBound PROVE RequestsTypeOK
  OBVIOUS
<1>1. Cardinality(At(requestCalls, RequestPCs)) \in Nat
  BY FS_CardinalityType DEF RequestBound
<1>2. ASSUME NEW r \in Requests PROVE requests[r] \in Request
  <2>1. /\ requests[r] \in Row /\ requests[r].questions \in Nat /\ called \in 0..MaxCalls
        /\ requests[r].questions + Cardinality(At(requestCalls, RequestPCs)) <= called
    BY DEF RequestInv, RequestBound, Row
  <2>2. requests[r].questions \in 0..MaxCalls
    BY <1>1, <2>1
  <2> QED
    BY <2>1, <2>2 DEF Row, Request
<1> QED
  BY <1>2 DEF RequestInv, RequestBound, RequestsTypeOK

----------------------------------------------------------------------------
(* Types of the post. *)

PostPCs == {"read", "count"}

PostBound ==
    /\ called \in 0..MaxCalls
    /\ IsFiniteSet(At(postCalls, PostPCs)) /\ opened + Cardinality(At(postCalls, PostPCs)) <= called
    /\ ~Stored => post.countView = 0
    /\ post.viewers \subseteq Users
    /\ \A k \in Calls : postCalls[k].saw <= opened /\ (postCalls[k].pc = "idle" \/ postCalls[k].user \in Users)

LEMMA InitPostBound == Init => PostBound
<1> SUFFICES ASSUME Init PROVE PostBound
  OBVIOUS
<1>1. /\ post = [state |-> "none", countView |-> 0, viewers |-> {}, edited |-> FALSE]
      /\ postCalls = [k \in Calls |-> PostIdle] /\ opened = 0 /\ called = 0
  BY DEF Init, PostsInit
<1>2. \A k \in Calls : postCalls[k].pc \notin PostPCs /\ postCalls[k].pc = "idle" /\ postCalls[k].saw = 0
  BY <1>1 DEF PostIdle, PostPCs
<1>3. IsFiniteSet(At(postCalls, PostPCs)) /\ Cardinality(At(postCalls, PostPCs)) = 0
  BY <1>2, NoneAt
<1> QED
  BY <1>1, <1>2, <1>3 DEF PostBound

LEMMA NextPostBound ==
    ASSUME ViewInv, ViewInv', PostBound, [Next]_vars
    PROVE  PostBound'
<1> DEFINE n == Cardinality(At(postCalls, PostPCs))
           m == Cardinality(At(postCalls', PostPCs))
           CallOK(c, most) == c.saw <= most /\ (c.pc = "idle" \/ c.user \in Users)
<1>1. /\ post \in PostRow /\ postCalls \in [Calls -> OpenCall] /\ opened \in Nat /\ post.countView \in Nat
      /\ called' \in 0..MaxCalls /\ called' >= called /\ called \in Nat
      /\ n \in Nat /\ opened + n <= called /\ \A k \in Calls : CallOK(postCalls[k], opened)
  BY CallsAreBounded, FS_CardinalityType DEF ViewInv, PostBound, PostRow
<1>2. ASSUME createPost \/ updatePost \/ deletePost \/ RemoveOwner \/ \E u \in Users : RemoveViewer(u)
      PROVE  PostBound'
  <2>1. UNCHANGED <<postCalls, opened>>
    BY <1>2 DEF createPost, updatePost, deletePost, RemoveOwner, RemoveViewer
  <2>2. post'.viewers \subseteq Users /\ (~Stored' => post'.countView = 0)
    <3>1. CASE createPost
      BY <1>1, <3>1 DEF createPost, PostBound, Stored, PostRow
    <3>2. CASE updatePost
      BY <1>1, <3>2 DEF updatePost, PostBound, Stored, PostRow
    <3>3. CASE deletePost
      BY <1>1, <3>3 DEF deletePost, PostBound, Stored, PostRow
    <3>4. CASE RemoveOwner
      BY <1>1, <3>4 DEF RemoveOwner, PostBound, Stored, PostRow
    <3>5. CASE \E u \in Users : RemoveViewer(u)
      BY <1>1, <3>5 DEF RemoveViewer, PostBound, Stored, PostRow
    <3> QED
      BY <1>2, <3>1, <3>2, <3>3, <3>4, <3>5
  <2>3. m = n
    BY <2>1
  <2>4. opened' + m <= called'
    <3> HIDE DEF n, m
    <3> QED
      BY <1>1, <2>1, <2>3
  <2> QED
    BY <1>1, <2>1, <2>2, <2>4 DEF PostBound
<1>3. ASSUME NEW k \in Calls, NEW c, postCalls' = [postCalls EXCEPT ![k] = c], CallOK(c, opened),
             UNCHANGED <<post, opened>>, called' = called + 1 \/ postCalls[k].pc \in PostPCs \/ c.pc \notin PostPCs
      PROVE  PostBound'
  <2>1. \A j \in Calls : postCalls'[j] = IF j = k THEN c ELSE postCalls[j]
    BY <1>1, <1>3
  <2>2. /\ IsFiniteSet(At(postCalls', PostPCs)) /\ m \in Nat /\ m <= n + 1
        /\ postCalls[k].pc \in PostPCs \/ postCalls'[k].pc \notin PostPCs => m <= n
    BY <2>1, AtMoves DEF PostBound
  <2>3. called' = called + 1 \/ m <= n
    BY <1>3, <2>1, <2>2
  <2>4. opened' + m <= called'
    <3> HIDE DEF n, m
    <3> QED
      BY <1>1, <1>3, <2>2, <2>3
  <2>5. \A j \in Calls : CallOK(postCalls'[j], opened')
    BY <1>1, <1>3, <2>1
  <2> QED
    BY <1>1, <1>3, <2>2, <2>4, <2>5 DEF PostBound, Stored
<1>4. ASSUME NEW k \in Calls, NEW u \in Users, getPostById(k, u) PROVE PostBound'
  <2> DEFINE c == [PostIdle EXCEPT !.pc = "read", !.user = u]
  <2>1. postCalls' = [postCalls EXCEPT ![k] = c] /\ UNCHANGED <<post, opened>> /\ called' = called + 1
    BY <1>4 DEF getPostById, PostGoes, Counted
  <2>2. CallOK(c, opened)
    BY <1>1 DEF PostIdle
  <2> HIDE DEF c, CallOK
  <2> QED
    BY <1>3, <2>1, <2>2
<1>5. ASSUME NEW k \in Calls, ReadPost(k) PROVE PostBound'
  <2> DEFINE c == IF post.state = "live" THEN [postCalls[k] EXCEPT !.pc = "count", !.saw = post.countView]
                  ELSE PostIdle
  <2>1. postCalls' = [postCalls EXCEPT ![k] = c] /\ UNCHANGED <<post, opened>> /\ postCalls[k].pc \in PostPCs
        /\ postCalls[k].pc = "read"
    BY <1>5 DEF ReadPost, PostGoes, PostPCs
  <2>2. CallOK(c, opened)
    <3>1. postCalls[k] \in OpenCall /\ CallOK(postCalls[k], opened)
      BY <1>1
    <3>2. Stored => post.countView <= opened
      BY DEF ViewInv
    <3> QED
      BY <1>1, <2>1, <3>1, <3>2 DEF OpenCall, PostIdle, Stored
  <2> HIDE DEF c, CallOK
  <2> QED
    BY <1>3, <2>1, <2>2
<1>6. ASSUME NEW k \in Calls, WriteCount(k) PROVE PostBound'
  <2> DEFINE c == [postCalls[k] EXCEPT !.pc = "view"]
  <2>1. postCalls' = [postCalls EXCEPT ![k] = c] /\ UNCHANGED called
        /\ postCalls[k].pc \in PostPCs /\ postCalls[k].pc = "count"
    BY <1>6 DEF WriteCount, PostGoes, PostPCs
  <2>2. postCalls[k] \in OpenCall /\ CallOK(postCalls[k], opened)
    BY <1>1
  <2>3. c.pc = "view" /\ c.saw = postCalls[k].saw /\ c.user = postCalls[k].user /\ c.pc \notin PostPCs
    BY <2>2 DEF OpenCall, PostPCs
  <2> HIDE DEF c
  <2>4. \A j \in Calls : postCalls'[j] = IF j = k THEN c ELSE postCalls[j]
    BY <1>1, <2>1
  <2>5. IsFiniteSet(At(postCalls', PostPCs)) /\ m \in Nat /\ m = n - 1
    <3>1. postCalls'[k].pc \notin PostPCs /\ \A j \in Calls \ {k} : postCalls'[j].pc = postCalls[j].pc
      BY <2>3, <2>4
    <3> QED
      BY <2>1, <3>1, AtMoves, ZenonT(40) DEF PostBound
  <2>6. opened' \in {opened, opened + 1} /\ called' = called
    BY <1>6 DEF WriteCount
  <2>7. post'.viewers = post.viewers /\ (Stored' <=> Stored) /\ (~Stored => post' = post)
    BY <1>1, <1>6 DEF WriteCount, PostRow, Stored
  <2>8. ASSUME NEW j \in Calls PROVE CallOK(postCalls'[j], opened')
    <3>1. CallOK(postCalls[j], opened) /\ postCalls[j].saw \in Nat
      BY <1>1 DEF OpenCall
    <3>2. postCalls'[j].saw = postCalls[j].saw
          /\ (postCalls'[j].pc = "idle" \/ postCalls'[j].user \in Users)
      BY <2>1, <2>2, <2>3, <2>4, <3>1
    <3> QED
      BY <1>1, <2>6, <3>1, <3>2
  <2>9. opened' + m <= called'
    <3>1. opened \in Nat /\ called \in Nat /\ n \in Nat /\ opened + n <= called /\ m \in Nat /\ m = n - 1
      BY <1>1, <2>5
    <3> HIDE DEF n, m
    <3>2. CASE opened' = opened
      BY <2>6, <3>1, <3>2
    <3>3. CASE opened' = opened + 1
      BY <2>6, <3>1, <3>3
    <3> QED
      BY <2>6, <3>2, <3>3
  <2> QED
    BY <1>1, <2>5, <2>7, <2>8, <2>9 DEF PostBound
<1>7. ASSUME NEW k \in Calls, UpsertView(k) PROVE PostBound'
  <2>1. /\ postCalls' = [postCalls EXCEPT ![k] = PostIdle] /\ UNCHANGED <<opened, called>>
        /\ postCalls[k].pc = "view" /\ PostIdle.pc = "idle" /\ PostIdle.saw = 0
    BY <1>7 DEF UpsertView, PostGoes, PostIdle
  <2>2. \A j \in Calls : postCalls'[j] = IF j = k THEN PostIdle ELSE postCalls[j]
    BY <1>1, <2>1
  <2>3. IsFiniteSet(At(postCalls', PostPCs)) /\ m \in Nat /\ m <= n
    <3>1. postCalls'[k].pc \notin PostPCs /\ \A j \in Calls \ {k} : postCalls'[j].pc = postCalls[j].pc
      BY <2>1, <2>2 DEF PostPCs
    <3> QED
      BY <3>1, AtMoves DEF PostBound
  <2>4. postCalls[k].user \in Users
    BY <1>1, <2>1
  <2>5. post'.viewers \subseteq Users /\ (Stored' <=> Stored) /\ post'.countView = post.countView
    BY <1>1, <1>7, <2>4 DEF UpsertView, PostRow, Stored, PostBound
  <2>6. \A j \in Calls : CallOK(postCalls'[j], opened')
    BY <1>1, <2>1, <2>2
  <2>7. opened' + m <= called'
    <3> HIDE DEF n, m
    <3> QED
      BY <1>1, <2>1, <2>3
  <2> QED
    BY <1>1, <2>3, <2>5, <2>6, <2>7 DEF PostBound
<1>8. CASE PostCrash
  <2>1. /\ UNCHANGED <<post, opened, called>>
        /\ \A k \in Calls : postCalls'[k].pc = "idle" /\ postCalls'[k].saw = 0 /\ postCalls'[k].pc \notin PostPCs
    BY <1>8 DEF PostCrash, PostIdle, PostPCs
  <2>2. IsFiniteSet(At(postCalls', PostPCs)) /\ m = 0
    BY <2>1, NoneAt
  <2>3. opened' + m <= called'
    <3> HIDE DEF n, m
    <3> QED
      BY <1>1, <2>1, <2>2
  <2> QED
    BY <1>1, <2>1, <2>2, <2>3 DEF PostBound, Stored
<1>9. CASE UNCHANGED postVars
  <2>1. UNCHANGED <<post, postCalls, opened>>
    BY <1>9 DEF postVars
  <2>2. m = n
    BY <2>1
  <2>3. opened' + m <= called'
    <3> HIDE DEF n, m
    <3> QED
      BY <1>1, <2>1, <2>2
  <2> QED
    BY <1>1, <2>1, <2>3 DEF PostBound, Stored
<1> QED
  BY <1>2, <1>4, <1>5, <1>6, <1>7, <1>8, <1>9, PostsMove DEF PostsNext

LEMMA TypesOfPosts == ViewInv /\ PostBound => PostsTypeOK
<1> SUFFICES ASSUME ViewInv, PostBound PROVE PostsTypeOK
  OBVIOUS
<1>1. Cardinality(At(postCalls, PostPCs)) \in Nat
  BY FS_CardinalityType DEF PostBound
<1>2. /\ opened \in Nat /\ post \in PostRow /\ post.countView \in Nat /\ raced \in BOOLEAN
      /\ postCalls \in [Calls -> OpenCall] /\ called \in 0..MaxCalls
      /\ opened + Cardinality(At(postCalls, PostPCs)) <= called
  BY DEF ViewInv, PostBound, PostRow
<1>3. opened \in 0..MaxCalls
  BY <1>1, <1>2
<1>4. post.countView <= opened
  BY <1>2 DEF ViewInv, PostBound
<1>5. post \in [state : PostState, countView : 0..MaxCalls, viewers : SUBSET Users, edited : BOOLEAN]
  <2>1. post.countView \in 0..MaxCalls
    BY <1>2, <1>3, <1>4
  <2> QED
    BY <1>2, <2>1 DEF PostRow, PostBound
<1>6. ASSUME NEW k \in Calls PROVE postCalls[k] \in PostCall
  <2>1. postCalls[k] \in OpenCall /\ postCalls[k].saw \in Nat /\ postCalls[k].saw <= opened
    BY <1>2 DEF OpenCall, PostBound
  <2>2. postCalls[k].saw \in 0..MaxCalls
    BY <1>3, <2>1
  <2> QED
    BY <2>1, <2>2 DEF OpenCall, PostCall
<1> QED
  BY <1>2, <1>3, <1>5, <1>6 DEF PostsTypeOK

----------------------------------------------------------------------------
(* Types of the points and the ratings. *)

LEMMA TypesOfPoints == TotalInv => PointsTypeOK
BY DEF TotalInv, CapInv, PointsTypeOK

LEMMA TypesOfRatings == RatingInv => RatingsTypeOK
BY DEF RatingInv, RatingsFit, RatingsTypeOK
=============================================================================
