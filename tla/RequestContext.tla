---------------------------- MODULE RequestContext ----------------------------
(***************************************************************************)
(* What surrounds every request: the handler of main.py, the middleware of *)
(* context.py, the caller's identity, the problem responses, and the log   *)
(* lines, which all go through the one Logger of the process.              *)
(*                                                                         *)
(* A Lambda execution environment serves one event at a time, one after    *)
(* another; uvicorn (local development) has no events and serves requests  *)
(* concurrently.                                                           *)
(***************************************************************************)
EXTENDS Naturals

CONSTANTS
    Requests,     \* the HTTP requests the process serves
    KeyIds,       \* API key ids: what the gateway puts in the event
    HeaderKeys,   \* what a client may write in X-Api-Key-Id
    HeaderIds,    \* usable X-Request-Id headers; others count as none
    None

ASSUME NoneIsNoValue ==
    None \notin KeyIds \cup HeaderKeys \cup HeaderIds \cup {"gateway", "direct"}

VARIABLES
    where,         \* "lambda" or "uvicorn", which is ENV=local
    correlation,   \* the correlation_id of the Logger
    req,           \* the requests
    log            \* the lines written

vars == <<where, correlation, req, log>>

is_local == where = "uvicorn"

Idle == [pc |-> "idle", event |-> None, key |-> None, header |-> None, keyHeader |-> None,
         request_id |-> None, rid |-> None, owner |-> None, status |-> 0, answer |-> None]

Init ==
    /\ where \in {"lambda", "uvicorn"}
    /\ correlation = None
    /\ req = [r \in Requests |-> Idle]
    /\ log = {}

-----------------------------------------------------------------------------
(***************************************************************************)
(* Ids.  The gateway's and Lambda's are their own for every request; the   *)
(* n-th resolution of a request without one draws a uuid of its own.       *)
(***************************************************************************)
GatewayId(r) == <<"gateway", r>>
LambdaId(r) == <<"lambda", r>>
Uuid(r, n) == <<"uuid", r, n>>

ASSUME NoneIsNoId ==
    \A r \in Requests, n \in 1 .. 2 : None \notin {GatewayId(r), LambdaId(r), Uuid(r, n)}

_resolve(r, n) ==
    CASE req[r].event = "gateway" -> GatewayId(r)
      [] req[r].event = "direct" -> LambdaId(r)
      [] req[r].event = None /\ req[r].header # None -> req[r].header
      [] OTHER -> Uuid(r, n)

\* Mutant: the id is resolved anew each time it is needed.
Mut_request_id(r, n) == _resolve(r, n)

request_id(r, n) ==
    IF req[r].request_id # None THEN req[r].request_id ELSE _resolve(r, n)

_owner_id(r) == req[r].key

\* A line carries the Logger's correlation_id at the moment it is written;
\* the completed one also names the request's id and owner.
Line(r, message, status) ==
    LET completed == message = "request completed"
    IN  [request |-> r, message |-> message, status |-> status,
         correlation_id |-> correlation,
         request_id |-> IF completed THEN req[r].rid ELSE None,
         owner_id |-> IF completed THEN _owner_id(r) ELSE None]

-----------------------------------------------------------------------------
(***************************************************************************)
(* Lambda invokes the handler, on which inject_lambda_context sets the id  *)
(* of the event's gateway request, or none if it is a direct invocation.   *)
(***************************************************************************)
Invoke(r) ==
    /\ where = "lambda"
    /\ req[r].pc = "idle"
    /\ \A q \in Requests : req[q].pc \in {"idle", "over"}
    /\ \E event \in {"gateway", "direct"}, key \in KeyIds \cup {None},
          header \in HeaderIds \cup {None}, keyHeader \in HeaderKeys \cup {None} :
          /\ event = "direct" => key = None
          /\ req' = [req EXCEPT ![r] =
                       [@ EXCEPT !.pc = "enter", !.event = event, !.key = key,
                                 !.header = header, !.keyHeader = keyHeader]]
          /\ correlation' = IF event = "gateway" THEN GatewayId(r) ELSE None
    /\ UNCHANGED <<where, log>>

Accept(r) ==
    /\ where = "uvicorn"
    /\ req[r].pc = "idle"
    /\ \E header \in HeaderIds \cup {None}, keyHeader \in HeaderKeys \cup {None} :
          req' = [req EXCEPT ![r] = [@ EXCEPT !.pc = "enter", !.header = header,
                                              !.keyHeader = keyHeader]]
    /\ UNCHANGED <<where, correlation, log>>

\* Mutants: the Logger keeps the id it has; a request counts as 200 from the
\* start.
MutEnterSetsNothing(r) ==
    /\ req[r].pc = "enter"
    /\ req' = [req EXCEPT ![r] = [@ EXCEPT !.pc = "route", !.status = 500,
                 !.rid = request_id(r, 1), !.request_id = request_id(r, 1)]]
    /\ UNCHANGED <<where, correlation, log>>

MutEnterAs200(r) ==
    /\ req[r].pc = "enter"
    /\ req' = [req EXCEPT ![r] = [@ EXCEPT !.pc = "route", !.status = 200,
                 !.rid = request_id(r, 1), !.request_id = request_id(r, 1)]]
    /\ correlation' = request_id(r, 1)
    /\ UNCHANGED <<where, log>>

\* The middleware, up to the inner app; the id is stashed on request.state.
Enter(r) ==
    /\ req[r].pc = "enter"
    /\ req' = [req EXCEPT ![r] = [@ EXCEPT !.pc = "route", !.status = 500,
                 !.rid = request_id(r, 1), !.request_id = request_id(r, 1)]]
    /\ correlation' = request_id(r, 1)
    /\ UNCHANGED <<where, log>>

-----------------------------------------------------------------------------
(***************************************************************************)
(* http.response.start passes through the middleware, which keeps the      *)
(* status and sets the header unless a problem response has set it.        *)
(***************************************************************************)
Responded(r, status) ==
    [req[r] EXCEPT !.pc = "respond", !.status = status,
        !.answer = [status |-> status, header |-> req[r].rid, body |-> None]]

Problem(r, status) ==
    [req[r] EXCEPT !.pc = "respond", !.status = status,
        !.answer = [status |-> status, header |-> request_id(r, 2),
                    body |-> request_id(r, 2)]]

\* Mutant: the header stands in wherever there is no key id.
Mut_current_user(r) == IF req[r].key # None THEN req[r].key ELSE req[r].keyHeader

current_user(r) ==
    IF req[r].key # None THEN req[r].key
    ELSE IF is_local THEN req[r].keyHeader ELSE None

\* No route, a route without a caller (/health, the OpenAPI document), or a
\* body that is no JSON, which FastAPI finds before it asks who the caller is.
Unauthenticated(r) ==
    /\ req[r].pc = "route"
    /\ \/ req' = [req EXCEPT ![r] = Responded(r, 200)]
       \/ \E status \in {400, 404} : req' = [req EXCEPT ![r] = Problem(r, status)]
    /\ UNCHANGED <<where, correlation, log>>

Authenticate(r) ==
    /\ req[r].pc = "route"
    /\ req' = [req EXCEPT ![r] =
                 IF current_user(r) = None THEN Problem(r, 401)
                 ELSE [@ EXCEPT !.pc = "handle", !.owner = current_user(r)]]
    /\ UNCHANGED <<where, correlation, log>>

\* What the exception handlers answer for the exceptions they know.
Handled == {400, 404, 409}

\* The route and the repository run in a worker thread: they may write a line
\* (a project was created or deleted, a reservation does not match).
Handle(r) ==
    /\ req[r].pc = "handle"
    /\ \/ /\ req' = [req EXCEPT ![r] = Responded(r, 200)]
          /\ log' \in {log, log \cup {Line(r, "project", None)}}
       \/ /\ req' = [req EXCEPT ![r].pc = "raise"]
          /\ log' \in {log, log \cup {Line(r, "project", None)}}
       \/ /\ \E status \in Handled : req' = [req EXCEPT ![r] = Problem(r, status)]
          /\ log' = log
    /\ UNCHANGED <<where, correlation>>

\* The middleware's finally: after the response, or while the exception goes
\* on to the server-error handler outside.
Complete(r) ==
    /\ req[r].pc \in {"respond", "raise"}
    /\ log' = log \cup {Line(r, "request completed", req[r].status)}
    /\ req' = [req EXCEPT ![r].pc = IF @ = "respond" THEN "over" ELSE "unhandled"]
    /\ UNCHANGED <<where, correlation>>

Unhandled(r) ==
    /\ req[r].pc = "unhandled"
    /\ log' = log \cup {Line(r, "Unhandled error", None)}
    /\ req' = [req EXCEPT ![r] = [Problem(r, 500) EXCEPT !.pc = "over", !.status = req[r].status]]
    /\ UNCHANGED <<where, correlation>>

\* The function timeout: Lambda starts a new process for the next event.
TimeOut(r) ==
    /\ where = "lambda"
    /\ req[r].pc \notin {"idle", "over"}
    /\ req' = [req EXCEPT ![r].pc = "over"]
    /\ correlation' = None
    /\ UNCHANGED <<where, log>>

Next ==
    \E r \in Requests :
        \/ Invoke(r) \/ Accept(r) \/ Enter(r) \/ Unauthenticated(r) \/ Authenticate(r)
        \/ Handle(r) \/ Complete(r) \/ Unhandled(r) \/ TimeOut(r)

Spec == Init /\ [][Next]_vars
-----------------------------------------------------------------------------
Completed(line) == line.message = "request completed"

\* "One id per request, shared by the response header, problem bodies and
\* logs": header, body and the completed line agree, whichever of the four
\* sources the id is from, though middleware and error handlers resolve it
\* each on their own.
OneIdPerRequest ==
    \A r \in Requests :
        req[r].answer # None =>
            /\ req[r].answer.header = req[r].rid
            /\ req[r].answer.body \in {None, req[r].rid}
            /\ \A line \in log :
                  (Completed(line) /\ line.request = r) => line.request_id = req[r].rid

\* In Lambda every line of a request carries its own id, which is the
\* gateway's if it came through the gateway: the Logger outlives requests,
\* but never keeps the id of one that is over, finished or killed.
LinesCarryOwnId ==
    where = "lambda" =>
        \A line \in log :
            /\ line.correlation_id = req[line.request].rid
            /\ req[line.request].event = "gateway" =>
                  line.correlation_id = GatewayId(line.request)

\* The status that is logged is the one the client gets, although an
\* exception is logged before anyone has made a response of it.
LoggedStatusIsAnswered ==
    \A line \in log :
        (Completed(line) /\ req[line.request].answer # None) =>
            line.status = req[line.request].answer.status

\* Behind the gateway the owner a request acts for is the one its completed
\* line names, though route and middleware read the event separately: no
\* request acts for an owner that it brought itself.
OwnerLoggedIsOwnerActing ==
    where = "lambda" =>
        \A line \in log :
            (Completed(line) /\ req[line.request].owner # None) =>
                line.owner_id = req[line.request].owner
=============================================================================
