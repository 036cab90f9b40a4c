--------------------------- MODULE SupportRequests ---------------------------
(***************************************************************************)
(* Requests of users to support in report-svc: questions with their thread,*)
(* reports, wishes to be called and absences.  A call reads the request and*)
(* writes its status from what it read.                                    *)
(***************************************************************************)
EXTENDS ServiceCalls

CONSTANT Requests   \* ids of requests

VARIABLES
    requests,       \* requests[r]: the row and the number of its questions
    requestCalls,
    reopened        \* history: requests settled while a call held their row

requestVars == <<requests, requestCalls, reopened>>

ERequestType == {"question", "report", "contact_request", "absence"}
ERequestStatus == {"pending", "in_progress", "success"}

NoRequest == [type |-> None, status |-> "pending", questions |-> 0]
Request == [type : ERequestType \cup {None}, status : ERequestStatus, questions : 0..MaxCalls]

\* status is what the call will write, None for nothing.
RequestCall == [pc : {"idle", "ask", "read", "update", "question"}, request : Requests \cup {None},
                by : {"none", "user", "staff", "close"}, status : ERequestStatus \cup {None}]
RequestIdle == [pc |-> "idle", request |-> None, by |-> "none", status |-> None]

RequestsInit ==
    /\ requests = [r \in Requests |-> NoRequest]
    /\ requestCalls = [k \in Calls |-> RequestIdle]
    /\ reopened = {}

RequestBegins(k, pc, r, by, status) ==
    /\ requestCalls[k] = RequestIdle /\ Counted
    /\ requestCalls' = [requestCalls EXCEPT ![k] = [pc |-> pc, request |-> r, by |-> by,
                                                    status |-> status]]

RequestGoes(k, pc) ==
    requestCalls' = [requestCalls EXCEPT ![k] = IF pc = "idle" THEN RequestIdle ELSE [@ EXCEPT !.pc = pc]]

\* createRequestReport, createRequestContact and createRequestAbsence save the
\* request with its detail at once; createNewRequest goes on with its question.
CreateRequest(k, r, type) ==
    /\ requests[r] = NoRequest
    /\ requests' = [requests EXCEPT ![r].type = type]
    /\ IF type = "question" THEN RequestBegins(k, "question", r, "user", None)
                            ELSE Counted /\ UNCHANGED requestCalls
    /\ UNCHANGED reopened

\* createRequestQuestion with an id, by the user or by support, and
\* setRequestQuestionToSuccess; they take a request of any type by its id.
Thread(k, r, by) ==
    /\ requests[r] # NoRequest
    /\ RequestBegins(k, "read", r, by, None)
    /\ UNCHANGED <<requests, reopened>>

Asked(status) == TRUE                                                   \* a mutant
MayAsk(status) == status # "success"

ReadRequest(k) ==
    LET c == requestCalls[k]  status == requests[c.request].status IN
    /\ c.pc = "read"
    /\ \/ /\ c.by = "close"
          /\ requestCalls' = [requestCalls EXCEPT ![k].pc = "update", ![k].status = "success"]
       \/ /\ c.by = "staff" /\ MayAsk(status) /\ status = "pending"
          /\ requestCalls' = [requestCalls EXCEPT ![k].pc = "update", ![k].status = "in_progress"]
       \/ /\ c.by # "close" /\ MayAsk(status) /\ ~(c.by = "staff" /\ status = "pending")
          /\ RequestGoes(k, "question")
       \/ /\ c.by # "close" /\ ~MayAsk(status)
          /\ RequestGoes(k, "idle")
    /\ UNCHANGED <<requests, reopened, called>>

\* The call holds a copy of the row, or has passed the check.
Holding(r, k) == \E j \in Calls \ {k} : requestCalls[j].request = r
                                        /\ requestCalls[j].pc \in {"update", "question"}

\* The whole row that was read is written, with the new status.
UpdateRequest(k) ==
    LET c == requestCalls[k] IN
    /\ c.pc = "update"
    /\ requests' = [requests EXCEPT ![c.request].status = c.status]
    /\ reopened' = IF c.status = "success" /\ Holding(c.request, k)
                   THEN reopened \cup {c.request} ELSE reopened
    /\ RequestGoes(k, IF c.by = "staff" THEN "question" ELSE "idle")
    /\ UNCHANGED called

CreateQuestion(k) ==
    /\ requestCalls[k].pc = "question"
    /\ requests' = [requests EXCEPT ![requestCalls[k].request].questions = @ + 1]
    /\ RequestGoes(k, "idle")
    /\ UNCHANGED <<reopened, called>>

\* answerRequestReport settles a report; updateRequestContact and
\* updateRequestAbsence take any status from support.
Settle(k, r, status) ==
    /\ requests[r].type \in {"report", "contact_request", "absence"}
    /\ requests[r].type = "report" => status = "success"
    /\ RequestBegins(k, "update", r, "close", status)
    /\ UNCHANGED <<requests, reopened>>

ReportCrash ==
    /\ \E k \in Calls : requestCalls[k] # RequestIdle
    /\ requestCalls' = [k \in Calls |-> RequestIdle]
    /\ UNCHANGED <<requests, reopened, called>>

RequestsNext ==
    \/ \E k \in Calls, r \in Requests :
         \/ \E type \in ERequestType : CreateRequest(k, r, type)
         \/ \E by \in {"user", "staff", "close"} : Thread(k, r, by)
         \/ \E status \in ERequestStatus : Settle(k, r, status)
    \/ \E k \in Calls : ReadRequest(k) \/ UpdateRequest(k) \/ CreateQuestion(k)
    \/ ReportCrash

RequestsTypeOK ==
    /\ requests \in [Requests -> Request]
    /\ requestCalls \in [Calls -> RequestCall]
    /\ reopened \subseteq Requests

\* A question that was settled stays settled and gets no more posts, unless it
\* was settled while an answer that had been let in was still being written.
SettledQuestionsStay ==
    [][\A r \in Requests \ reopened :
         requests[r].type = "question" /\ requests[r].status = "success"
         => requests'[r] = requests[r]]_requestVars
=============================================================================
