------------------------- MODULE RequestContext_proof -------------------------
(***************************************************************************)
(* What surrounds a request is right for any number of requests, in Lambda *)
(* and under uvicorn.                                                      *)
(***************************************************************************)
EXTENDS RequestContext, TLAPS

Fields == {"pc", "event", "key", "header", "keyHeader", "request_id", "rid", "owner", "status",
           "answer"}

\* The fields of a request; nothing depends on the types of most of them.
IsRequest(x) == DOMAIN x = Fields /\ x.event \in {None, "gateway", "direct"}

\* A request within the middleware.
Inside(x) == x.pc \in {"route", "handle", "respond", "raise", "unhandled"}

Unknown(x) == x.rid = None /\ x.request_id = None /\ x.answer = None /\ x.owner = None

\* What is known of request r while it is x: one id, and an answer that
\* carries it; until there is an answer the status counts as 500.
Known(x, r) ==
    /\ IsRequest(x)
    /\ x.pc \in {"idle", "enter"} => Unknown(x)
    /\ Inside(x) => x.rid # None /\ x.request_id = x.rid
    /\ x.pc \in {"route", "handle", "raise", "unhandled"} => x.answer = None /\ x.status = 500
    /\ x.answer # None =>
          /\ x.answer.header = x.rid /\ x.answer.body \in {None, x.rid}
          /\ x.answer.status = x.status
    /\ (x.event = "gateway" /\ x.rid # None) => x.rid = GatewayId(r)
    /\ where = "lambda" => x.owner \in {None, x.key}

LineIsRight(line) ==
    LET x == req[line.request] IN
        /\ line.request \in Requests
        /\ x.pc \notin {"idle", "enter"}
        /\ Completed(line) =>
              /\ line.status = x.status /\ x.pc \in {"unhandled", "over"}
              /\ line.request_id = x.rid /\ line.owner_id = x.key
        /\ where = "lambda" =>
              /\ line.correlation_id = x.rid
              /\ x.event = "gateway" => x.rid = GatewayId(line.request)

Active(x) == x.pc \notin {"idle", "over"}

\* Lambda serves one request at a time, and the Logger has its id.
OneAtATime ==
    where = "lambda" =>
        /\ \A r, q \in Requests : Active(req[r]) /\ Active(req[q]) => r = q
        /\ \A r \in Requests : Inside(req[r]) => correlation = req[r].rid

Inv ==
    /\ where \in {"lambda", "uvicorn"}
    /\ DOMAIN req = Requests
    /\ \A r \in Requests : Known(req[r], r)
    /\ \A line \in log : LineIsRight(line)
    /\ OneAtATime

-----------------------------------------------------------------------------
(***************************************************************************)
(* Every action in one form: request r becomes x.                          *)
(***************************************************************************)
Becomes(r, x) == Known(x, r) /\ req' = [req EXCEPT ![r] = x] /\ where' = where

\* What has been logged of a request does not change.
Keeps(r, x) ==
    /\ req[r].pc # "idle" => x.key = req[r].key /\ x.event = req[r].event
    /\ req[r].pc \notin {"idle", "enter"} =>
          x.rid = req[r].rid /\ x.pc \notin {"idle", "enter"}
    /\ req[r].pc \in {"unhandled", "over"} =>
          x.status = req[r].status /\ x.pc \in {"unhandled", "over"}

\* A line is written by a request within the middleware.
Writes(r, x) ==
    \/ log' = log
    \/ /\ Inside(req[r])
       /\ \E message, status :
             /\ log' = log \cup {Line(r, message, status)}
             /\ message = "request completed" =>
                   status = x.status /\ x.pc \in {"unhandled", "over"}

\* What a request finds in the Logger.
Finds(r, x) ==
    where = "lambda" =>
        /\ \A p \in Requests \ {r} : ~Active(req[p])
        /\ Inside(x) => correlation' = x.rid

Step(r, x) == Becomes(r, x) /\ Keeps(r, x) /\ Writes(r, x) /\ Finds(r, x)

\* A request that goes on is the only one, in Lambda.
LEMMA OnlyOne ==
    ASSUME Inv, NEW r \in Requests, where = "lambda", Active(req[r])
    PROVE  \A p \in Requests \ {r} : ~Active(req[p])
  BY DEF Inv, Known, OneAtATime

\* A line that is not the completed one says nothing of the status.
LEMMA OtherLine ==
    ASSUME NEW r \in Requests, Inside(req[r]), NEW message,
           message # "request completed", log' = log \cup {Line(r, message, None)}
    PROVE  \A x : Writes(r, x)
  BY DEF Writes

\* Whatever the source of an id, there is one, and it is the gateway's if the
\* request came through it.
LEMMA ResolvedId ==
    ASSUME Inv, NEW r \in Requests, NEW n \in 1 .. 2
    PROVE  /\ _resolve(r, n) # None
           /\ req[r].event = "gateway" => _resolve(r, n) = GatewayId(r)
<1>1. req[r].event \in {None, "gateway", "direct"}
  BY DEF Inv, Known, IsRequest
<1>2. GatewayId(r) # None /\ LambdaId(r) # None /\ Uuid(r, n) # None
  BY NoneIsNoId
<1>3. None # "gateway" /\ None # "direct"
  BY NoneIsNoValue
<1>4. _resolve(r, n) = IF req[r].event = "gateway" THEN GatewayId(r)
                       ELSE IF req[r].event = "direct" THEN LambdaId(r)
                       ELSE IF req[r].header # None THEN req[r].header ELSE Uuid(r, n)
  <2> HIDE DEF GatewayId, LambdaId, Uuid
  <2> QED
    BY <1>1, <1>3 DEF _resolve
<1> QED
  BY <1>2, <1>4

\* Within the middleware the id is not resolved again.
LEMMA SameId ==
    ASSUME Inv, NEW r \in Requests, Inside(req[r])
    PROVE  request_id(r, 2) = req[r].rid /\ req[r].rid # None
  BY DEF Inv, Known, request_id

\* An answer carries the request's id.
LEMMA Answered ==
    ASSUME Inv, NEW r \in Requests, Inside(req[r]), req[r].answer = None, NEW status,
           NEW x, x = Responded(r, status) \/ x = Problem(r, status)
    PROVE  /\ Known(x, r) /\ x.pc = "respond"
           /\ \A f \in {"event", "key", "header", "keyHeader", "request_id", "rid", "owner"} :
                 x[f] = req[r][f]
<1>1. IsRequest(req[r]) /\ Known(req[r], r)
  BY DEF Inv, Known
<1>2. request_id(r, 2) = req[r].rid /\ req[r].rid # None
  BY SameId
<1>3. PICK body \in {None, req[r].rid} :
         x = [req[r] EXCEPT !.pc = "respond", !.status = status,
                 !.answer = [status |-> status, header |-> req[r].rid, body |-> body]]
  BY <1>2 DEF Responded, Problem
<1> DEFINE a == [status |-> status, header |-> req[r].rid, body |-> body]
<1>4. a.status = status /\ a.header = req[r].rid /\ a.body \in {None, req[r].rid}
  OBVIOUS
<1>5. x = [req[r] EXCEPT !.pc = "respond", !.status = status, !.answer = a]
  BY <1>3
<1> HIDE DEF a
<1>6. /\ x.pc = "respond" /\ x.status = status /\ x.answer = a
      /\ x.event = req[r].event /\ x.key = req[r].key /\ x.header = req[r].header
      /\ x.keyHeader = req[r].keyHeader /\ x.request_id = req[r].request_id
      /\ x.rid = req[r].rid /\ x.owner = req[r].owner
  BY <1>1, <1>5 DEF IsRequest, Fields
<1>7. IsRequest(x)
  BY <1>1, <1>4, <1>5 DEF IsRequest, Fields
<1>8. Known(x, r)
  BY <1>1, <1>2, <1>4, <1>6, <1>7 DEF Known, Inside
<1> QED
  BY <1>6, <1>8

-----------------------------------------------------------------------------
\* The event of a new request.
LEMMA InvokeStep ==
    ASSUME Inv, NEW r \in Requests, Invoke(r)
    PROVE  \E x : Step(r, x)
<1>1. PICK event \in {"gateway", "direct"}, key \in KeyIds \cup {None},
           header \in HeaderIds \cup {None}, keyHeader \in HeaderKeys \cup {None} :
         req' = [req EXCEPT ![r] = [@ EXCEPT !.pc = "enter", !.event = event, !.key = key,
                                             !.header = header, !.keyHeader = keyHeader]]
  <2>1. \E event \in {"gateway", "direct"}, key \in KeyIds \cup {None},
           header \in HeaderIds \cup {None}, keyHeader \in HeaderKeys \cup {None} :
           /\ event = "direct" => key = None
           /\ req' = [req EXCEPT ![r] =
                       [@ EXCEPT !.pc = "enter", !.event = event, !.key = key,
                                 !.header = header, !.keyHeader = keyHeader]]
           /\ correlation' = IF event = "gateway" THEN GatewayId(r) ELSE None
    BY ZenonT(60) DEF Invoke
  <2> QED
    BY ZenonT(60), <2>1
<1> DEFINE x == [req[r] EXCEPT !.pc = "enter", !.event = event, !.key = key,
                               !.header = header, !.keyHeader = keyHeader]
<1>2. IsRequest(req[r]) /\ Known(req[r], r) /\ req[r].pc = "idle"
  BY DEF Inv, Known, Invoke
<1>3. IsRequest(x) /\ x.pc = "enter" /\ x.rid = req[r].rid /\ x.owner = req[r].owner
      /\ x.request_id = req[r].request_id /\ x.answer = req[r].answer
  BY <1>2 DEF IsRequest, Fields
<1>4. req' = [req EXCEPT ![r] = x]
  BY <1>1 DEF Inv
<1> HIDE DEF x
<1>5. Known(x, r)
  BY <1>2, <1>3 DEF Known, Unknown, Inside
<1>6. Finds(r, x)
  BY <1>3 DEF Finds, Active, Inside, Invoke
<1> QED
  BY <1>2, <1>4, <1>5, <1>6 DEF Step, Becomes, Keeps, Writes, Invoke

\* A new request under uvicorn.
LEMMA AcceptStep ==
    ASSUME Inv, NEW r \in Requests, Accept(r)
    PROVE  \E x : Step(r, x)
<1>1. PICK header \in HeaderIds \cup {None}, keyHeader \in HeaderKeys \cup {None} :
         req' = [req EXCEPT ![r] = [@ EXCEPT !.pc = "enter", !.header = header,
                                             !.keyHeader = keyHeader]]
  BY DEF Accept
<1> DEFINE x == [req[r] EXCEPT !.pc = "enter", !.header = header, !.keyHeader = keyHeader]
<1>2. IsRequest(req[r]) /\ Known(req[r], r) /\ req[r].pc = "idle"
  BY DEF Inv, Known, Accept
<1>3. IsRequest(x) /\ x.pc = "enter" /\ x.rid = req[r].rid /\ x.owner = req[r].owner
      /\ x.request_id = req[r].request_id /\ x.answer = req[r].answer
  BY <1>2 DEF IsRequest, Fields
<1>4. req' = [req EXCEPT ![r] = x]
  BY <1>1 DEF Inv
<1> HIDE DEF x
<1>5. Known(x, r)
  BY <1>2, <1>3 DEF Known, Unknown, Inside
<1>6. Finds(r, x)
  BY DEF Finds, Accept
<1> QED
  BY <1>2, <1>4, <1>5, <1>6 DEF Step, Becomes, Keeps, Writes, Accept

\* The middleware resolves the id and gives it to the Logger.
LEMMA EnterStep ==
    ASSUME Inv, NEW r \in Requests, Enter(r)
    PROVE  \E x : Step(r, x)
<1> DEFINE x == [req[r] EXCEPT !.pc = "route", !.status = 500,
                               !.rid = request_id(r, 1), !.request_id = request_id(r, 1)]
<1>1. IsRequest(req[r]) /\ Known(req[r], r) /\ req[r].pc = "enter"
  BY DEF Inv, Known, Enter
<1>2. /\ request_id(r, 1) # None
      /\ req[r].event = "gateway" => request_id(r, 1) = GatewayId(r)
  BY <1>1, ResolvedId DEF request_id, Known, Unknown
<1>3. /\ IsRequest(x) /\ x.pc = "route" /\ x.status = 500
      /\ x.rid = request_id(r, 1) /\ x.request_id = request_id(r, 1)
      /\ x.event = req[r].event /\ x.key = req[r].key /\ x.owner = req[r].owner
      /\ x.answer = req[r].answer
  BY <1>1, <1>2 DEF IsRequest, Fields
<1>4. req' = [req EXCEPT ![r] = x]
  BY DEF Inv, Known, Enter
<1> HIDE DEF x
<1>5. Known(x, r)
  BY <1>1, <1>2, <1>3 DEF Known, Unknown, Inside
<1>6. Finds(r, x)
  BY <1>1, <1>3, OnlyOne DEF Finds, Active, Enter
<1> QED
  BY <1>1, <1>3, <1>4, <1>5, <1>6 DEF Step, Becomes, Keeps, Writes, Enter

\* The caller is one the gateway names, outside local development.
LEMMA AuthenticateStep ==
    ASSUME Inv, NEW r \in Requests, Authenticate(r)
    PROVE  \E x : Step(r, x)
<1>1. IsRequest(req[r]) /\ Known(req[r], r) /\ req[r].pc = "route"
  BY DEF Inv, Known, Authenticate
<1>2. CASE req' = [req EXCEPT ![r] = Problem(r, 401)]
  <2>1. /\ Known(Problem(r, 401), r) /\ Problem(r, 401).pc = "respond"
        /\ \A f \in {"event", "key", "header", "keyHeader", "request_id", "rid", "owner"} :
              Problem(r, 401)[f] = req[r][f]
    BY <1>1, Answered DEF Inside, Known
  <2> DEFINE x == Problem(r, 401)
  <2> HIDE DEF x
  <2>2. Known(x, r) /\ x.pc = "respond" /\ x.key = req[r].key /\ x.event = req[r].event
        /\ x.rid = req[r].rid
    BY <2>1 DEF x
  <2>3. Finds(r, x)
    BY <1>1, <2>2, OnlyOne DEF Inv, OneAtATime, Finds, Active, Inside, Authenticate
  <2>4. req' = [req EXCEPT ![r] = x]
    BY <1>2 DEF x
  <2> QED
    BY <1>1, <2>2, <2>3, <2>4 DEF Step, Becomes, Keeps, Writes, Authenticate
<1>3. CASE req' = [req EXCEPT ![r] = [@ EXCEPT !.pc = "handle", !.owner = current_user(r)]]
  <2> DEFINE x == [req[r] EXCEPT !.pc = "handle", !.owner = current_user(r)]
  <2>1. where = "lambda" => current_user(r) \in {None, req[r].key}
    BY DEF current_user, is_local
  <2>2. /\ IsRequest(x) /\ x.pc = "handle" /\ x.status = req[r].status
        /\ x.rid = req[r].rid /\ x.request_id = req[r].request_id
        /\ x.event = req[r].event /\ x.key = req[r].key /\ x.owner = current_user(r)
        /\ x.answer = req[r].answer
    BY <1>1, <2>1 DEF IsRequest, Fields
  <2>3. req' = [req EXCEPT ![r] = x]
    BY <1>3 DEF Inv
  <2> HIDE DEF x
  <2>4. Known(x, r)
    BY <1>1, <2>1, <2>2 DEF Known, Inside
  <2>5. Finds(r, x)
    BY <1>1, <2>2, OnlyOne DEF Inv, OneAtATime, Finds, Active, Inside, Authenticate
  <2> QED
    BY <1>1, <2>2, <2>3, <2>4, <2>5 DEF Step, Becomes, Keeps, Writes, Authenticate
<1> QED
  BY <1>2, <1>3 DEF Authenticate

\* A request that is answered goes on to the middleware's finally.
LEMMA AnswerStep ==
    ASSUME Inv, NEW r \in Requests, req[r].pc \in {"route", "handle"},
           NEW x, \E status : x = Responded(r, status) \/ x = Problem(r, status),
           req' = [req EXCEPT ![r] = x], where' = where, correlation' = correlation,
           log' = log \/ log' = log \cup {Line(r, "project", None)}
    PROVE  Step(r, x)
<1>1. IsRequest(req[r]) /\ Known(req[r], r) /\ req[r].answer = None /\ Inside(req[r])
  BY DEF Inv, Known, Inside
<1>2. /\ Known(x, r) /\ x.pc = "respond"
      /\ \A f \in {"event", "key", "header", "keyHeader", "request_id", "rid", "owner"} :
            x[f] = req[r][f]
  BY <1>1, Answered
<1>3. x.key = req[r].key /\ x.event = req[r].event /\ x.rid = req[r].rid
  BY <1>2
<1>4. Finds(r, x)
  BY <1>1, <1>2, <1>3, OnlyOne DEF Inv, OneAtATime, Finds, Active, Inside
<1>5. Writes(r, x)
  <2>1. CASE log' = log
    BY <2>1 DEF Writes
  <2>2. CASE log' = log \cup {Line(r, "project", None)}
    <3>1. "project" # "request completed"
      OBVIOUS
    <3> QED
      BY Zenon, <1>1, <2>2, <3>1, OtherLine
  <2> QED
    BY <2>1, <2>2
<1> QED
  BY <1>1, <1>2, <1>3, <1>4, <1>5 DEF Step, Becomes, Keeps

\* A request whose step only moves it on.
LEMMA MoveStep ==
    ASSUME Inv, NEW r \in Requests, NEW pc, Inside(req[r]),
           \/ req[r].pc = "handle" /\ pc = "raise"
           \/ req[r].pc = "respond" /\ pc = "over"
           \/ req[r].pc = "raise" /\ pc = "unhandled",
           req' = [req EXCEPT ![r].pc = pc], UNCHANGED <<where, correlation>>,
           NEW message, NEW status,
           log' = log \/ log' = log \cup {Line(r, message, status)},
           message = "request completed" =>
               status = req[r].status /\ pc \in {"unhandled", "over"}
    PROVE  \E x : Step(r, x)
<1> DEFINE x == [req[r] EXCEPT !.pc = pc]
<1>0. Known(req[r], r)
  BY DEF Inv
<1>1. IsRequest(req[r]) /\ Known(req[r], r)
  BY <1>0 DEF Known
<1>2. /\ IsRequest(x) /\ x.pc = pc /\ x.status = req[r].status
      /\ x.rid = req[r].rid /\ x.request_id = req[r].request_id
      /\ x.event = req[r].event /\ x.key = req[r].key /\ x.owner = req[r].owner
      /\ x.answer = req[r].answer
  BY <1>1 DEF IsRequest, Fields
<1>3. req' = [req EXCEPT ![r] = x]
  BY DEF Inv, Known
<1> HIDE DEF x
<1>4. Known(x, r)
  <2>1. req[r].pc \in {"handle", "raise"} => req[r].answer = None /\ req[r].status = 500
    BY <1>1 DEF Known
  <2>2. x.rid # None /\ x.request_id = x.rid
    BY <1>1, <1>2 DEF Known
  <2>3. /\ x.answer # None =>
              /\ x.answer.header = x.rid /\ x.answer.body \in {None, x.rid}
              /\ x.answer.status = x.status
        /\ (x.event = "gateway" /\ x.rid # None) => x.rid = GatewayId(r)
        /\ where = "lambda" => x.owner \in {None, x.key}
    BY <1>1, <1>2 DEF Known
  <2> QED
    BY <1>2, <2>1, <2>2, <2>3 DEF Known
<1>5. Finds(r, x)
  BY <1>2, OnlyOne DEF Inv, OneAtATime, Finds, Active, Inside
<1>6. Writes(r, x)
  BY <1>2 DEF Writes
<1> QED
  BY <1>2, <1>3, <1>4, <1>5, <1>6 DEF Step, Becomes, Keeps, Inside

\* The server-error handler answers 500, which is what has been logged.
LEMMA UnhandledStep ==
    ASSUME Inv, NEW r \in Requests, Unhandled(r)
    PROVE  \E x : Step(r, x)
<1> DEFINE y == Problem(r, 500)
<1>0. Known(req[r], r) /\ req[r].pc = "unhandled"
  BY DEF Inv, Unhandled
<1>1. /\ IsRequest(req[r]) /\ Known(req[r], r) /\ req[r].pc = "unhandled"
      /\ Inside(req[r]) /\ req[r].answer = None /\ req[r].status = 500
  BY <1>0 DEF Known, Inside
<1>2. /\ Known(y, r) /\ y.pc = "respond"
      /\ \A f \in {"event", "key", "header", "keyHeader", "request_id", "rid", "owner"} :
            y[f] = req[r][f]
  BY <1>1, Answered
<1>3. y.status = 500
  BY <1>1 DEF Problem, IsRequest, Fields
<1>4. PICK x : /\ req' = [req EXCEPT ![r] = x]
               /\ x = [y EXCEPT !.pc = "over", !.status = req[r].status]
  BY DEF Unhandled
<1> HIDE DEF y
<1>5. /\ IsRequest(x) /\ x.pc = "over" /\ x.status = 500 /\ x.answer = y.answer
      /\ x.rid = req[r].rid /\ x.request_id = req[r].request_id
      /\ x.event = req[r].event /\ x.key = req[r].key /\ x.owner = req[r].owner
  BY <1>1, <1>2, <1>4 DEF IsRequest, Fields, Known
<1>6. Known(x, r)
  BY <1>1, <1>2, <1>3, <1>5 DEF Known, Inside
<1>7. Finds(r, x)
  BY <1>1, <1>5, OnlyOne DEF Finds, Active, Inside
<1>8. Writes(r, x)
  <2>1. PICK message :
           message # "request completed" /\ log' = log \cup {Line(r, message, None)}
    BY DEF Unhandled
  <2>2. Inside(req[r])
    BY <1>1
  <2> QED
    BY <2>1, <2>2, OtherLine
<1>9. Becomes(r, x)
  BY <1>4, <1>6 DEF Becomes, Unhandled
<1>10. Keeps(r, x)
  BY <1>1, <1>5 DEF Keeps
<1> QED
  BY <1>7, <1>8, <1>9, <1>10 DEF Step

\* A killed request is over, and the new process's Logger knows no id.
LEMMA TimeOutStep ==
    ASSUME Inv, NEW r \in Requests, TimeOut(r)
    PROVE  \E x : Step(r, x)
<1> DEFINE x == [req[r] EXCEPT !.pc = "over"]
<1>1. IsRequest(req[r]) /\ Known(req[r], r) /\ req[r].pc \notin {"idle", "over"}
  BY DEF Inv, Known, TimeOut
<1>2. /\ IsRequest(x) /\ x.pc = "over" /\ x.status = req[r].status
      /\ x.rid = req[r].rid /\ x.request_id = req[r].request_id
      /\ x.event = req[r].event /\ x.key = req[r].key /\ x.owner = req[r].owner
      /\ x.answer = req[r].answer
  BY <1>1 DEF IsRequest, Fields
<1>3. req' = [req EXCEPT ![r] = x]
  BY DEF Inv, Known, TimeOut
<1> HIDE DEF x
<1>4. Known(x, r)
  BY <1>1, <1>2 DEF Known, Inside, Unknown
<1>5. Finds(r, x)
  BY <1>1, <1>2, OnlyOne DEF Finds, Active, Inside
<1> QED
  BY <1>1, <1>2, <1>3, <1>4, <1>5 DEF Step, Becomes, Keeps, Writes, TimeOut
-----------------------------------------------------------------------------
\* Every action is such a step of a request.
LEMMA Steps ==
    ASSUME Inv, [Next]_vars
    PROVE  UNCHANGED vars \/ \E r \in Requests : \E x : Step(r, x)
<1>1. ASSUME NEW r \in Requests, Unauthenticated(r) PROVE \E x : Step(r, x)
  <2>1. /\ req[r].pc = "route" /\ where' = where /\ correlation' = correlation /\ log' = log
        /\ \/ req' = [req EXCEPT ![r] = Responded(r, 200)]
           \/ \E status : req' = [req EXCEPT ![r] = Problem(r, status)]
    BY <1>1 DEF Unauthenticated
  <2>2. ASSUME NEW x, req' = [req EXCEPT ![r] = x],
               \E status : x = Responded(r, status) \/ x = Problem(r, status)
        PROVE  Step(r, x)
    <3>1. req[r].pc \in {"route", "handle"}
      BY <2>1
    <3> QED
      BY <2>1, <2>2, <3>1, AnswerStep
  <2>3. CASE req' = [req EXCEPT ![r] = Responded(r, 200)]
    BY <2>2, <2>3
  <2>4. CASE \E status : req' = [req EXCEPT ![r] = Problem(r, status)]
    BY Zenon, <2>2, <2>4
  <2> QED
    BY <2>1, <2>3, <2>4
<1>2. ASSUME NEW r \in Requests, Handle(r) PROVE \E x : Step(r, x)
  <2>1. /\ req[r].pc = "handle" /\ where' = where /\ correlation' = correlation
        /\ log' = log \/ log' = log \cup {Line(r, "project", None)}
    BY <1>2 DEF Handle
  <2>2. ASSUME NEW x, req' = [req EXCEPT ![r] = x],
               \E status : x = Responded(r, status) \/ x = Problem(r, status)
        PROVE  Step(r, x)
    <3>1. req[r].pc \in {"route", "handle"}
      BY <2>1
    <3> QED
      BY <2>1, <2>2, <3>1, AnswerStep
  <2>3. CASE req' = [req EXCEPT ![r].pc = "raise"]
    <3>1. "project" # "request completed"
      OBVIOUS
    <3>2. Inside(req[r])
      BY <2>1 DEF Inside
    <3> QED
      BY <2>1, <2>3, <3>1, <3>2, MoveStep
  <2>4. ASSUME NEW status, \/ req' = [req EXCEPT ![r] = Responded(r, status)]
                           \/ req' = [req EXCEPT ![r] = Problem(r, status)]
        PROVE  \E x : Step(r, x)
    <3>1. PICK x : /\ req' = [req EXCEPT ![r] = x]
                   /\ x = Responded(r, status) \/ x = Problem(r, status)
      BY Zenon, <2>4
    <3>2. Step(r, x)
      BY Zenon, <2>2, <3>1
    <3> QED
      BY <3>2
  <2> QED
    BY <1>2, <2>3, <2>4 DEF Handle
<1>3. ASSUME NEW r \in Requests, Complete(r) PROVE \E x : Step(r, x)
  <2>1. PICK pc, status :
           /\ pc = (IF req[r].pc = "respond" THEN "over" ELSE "unhandled")
           /\ status = req[r].status
    OBVIOUS
  <2>2. req' = [req EXCEPT ![r].pc = pc] /\ log' = log \cup {Line(r, "request completed", status)}
    BY <1>3, <2>1 DEF Complete
  <2>3. req[r].pc \in {"respond", "raise"} /\ UNCHANGED <<where, correlation>>
    BY <1>3 DEF Complete
  <2>4. /\ (req[r].pc = "respond" /\ pc = "over") \/ (req[r].pc = "raise" /\ pc = "unhandled")
        /\ Inside(req[r])
    BY <2>1, <2>3 DEF Inside
  <2> QED
    BY <2>1, <2>2, <2>3, <2>4, MoveStep
<1>4. ASSUME NEW r \in Requests,
             \/ Invoke(r) \/ Accept(r) \/ Enter(r) \/ Authenticate(r) \/ Unhandled(r)
             \/ TimeOut(r)
      PROVE  \E x : Step(r, x)
  BY <1>4, InvokeStep, AcceptStep, EnterStep, AuthenticateStep, UnhandledStep, TimeOutStep
<1> QED
  BY <1>1, <1>2, <1>3, <1>4 DEF Next

\* Every step keeps the invariant.
LEMMA InvStep == Inv /\ [Next]_vars => Inv'
<1> SUFFICES ASSUME Inv, [Next]_vars PROVE Inv'
  OBVIOUS
<1>1. CASE UNCHANGED vars
  BY <1>1 DEF Inv, Known, LineIsRight, OneAtATime, vars
<1>2. ASSUME NEW r \in Requests, NEW x, Step(r, x) PROVE Inv'
  <2>1. /\ where' = where /\ DOMAIN req' = Requests
        /\ req'[r] = x /\ \A p \in Requests \ {r} : req'[p] = req[p]
    BY <1>2 DEF Inv, Step, Becomes
  <2>2. \A p \in Requests : Known(req[p], p)'
    BY <1>2, <2>1 DEF Inv, Step, Becomes, Known
  <2>3. ASSUME NEW line \in log PROVE LineIsRight(line)'
    <3>1. LineIsRight(line)
      BY DEF Inv
    <3>2. CASE line.request # r
      BY <2>1, <3>1, <3>2 DEF LineIsRight
    <3>3. CASE line.request = r
      <4>1. Keeps(r, x)
        BY <1>2 DEF Step
      <4>2. x.key = req[r].key /\ x.event = req[r].event /\ x.rid = req[r].rid
            /\ x.pc \notin {"idle", "enter"}
        BY <3>1, <3>3, <4>1 DEF LineIsRight, Keeps
      <4>3. Completed(line) => x.status = req[r].status /\ x.pc \in {"unhandled", "over"}
        BY <3>1, <3>3, <4>1 DEF LineIsRight, Keeps
      <4> QED
        BY <2>1, <3>1, <3>3, <4>2, <4>3 DEF LineIsRight, Completed
    <3> QED
      BY <3>2, <3>3
  <2>4. ASSUME Inside(req[r]), NEW message, NEW status, NEW l, l = Line(r, message, status),
               message = "request completed" =>
                   status = x.status /\ x.pc \in {"unhandled", "over"}
        PROVE  LineIsRight(l)'
    <3>1. /\ l.request = r /\ l.message = message /\ l.status = status
          /\ l.correlation_id = correlation
          /\ message = "request completed" =>
                l.owner_id = req[r].key /\ l.request_id = req[r].rid
      BY <2>4 DEF Line, _owner_id
    <3>2. x.key = req[r].key /\ x.event = req[r].event /\ x.rid = req[r].rid
          /\ x.pc \notin {"idle", "enter"}
      BY <1>2, <2>4 DEF Step, Keeps, Inside
    <3>3. where = "lambda" =>
             /\ correlation = req[r].rid
             /\ req[r].event = "gateway" => req[r].rid = GatewayId(r)
      BY <2>4 DEF Inv, OneAtATime, Known
    <3> QED
      BY <2>1, <2>4, <3>1, <3>2, <3>3 DEF LineIsRight, Completed
  <2>5. ASSUME NEW line \in log' PROVE LineIsRight(line)'
    <3>1. Writes(r, x)
      BY <1>2 DEF Step
    <3>2. CASE line \in log
      BY <2>3, <3>2
    <3>3. CASE line \notin log
      <4>1. PICK message, status :
               /\ Inside(req[r]) /\ line = Line(r, message, status)
               /\ message = "request completed" =>
                     status = x.status /\ x.pc \in {"unhandled", "over"}
        BY <3>1, <3>3 DEF Writes
      <4> QED
        BY <2>4, <4>1
    <3> QED
      BY <3>2, <3>3
  <2>6. OneAtATime'
    <3>1. Finds(r, x)
      BY <1>2 DEF Step
    <3> SUFFICES ASSUME where = "lambda"
                 PROVE  /\ \A p, q \in Requests : Active(req'[p]) /\ Active(req'[q]) => p = q
                        /\ \A p \in Requests : Inside(req'[p]) => correlation' = req'[p].rid
      BY <2>1 DEF OneAtATime, Active, Inside
    <3>2. \A p \in Requests \ {r} : ~Active(req'[p])
      BY <2>1, <3>1 DEF Finds, Active
    <3>3. Inside(x) => correlation' = x.rid
      BY <3>1 DEF Finds
    <3> QED
      BY <2>1, <3>2, <3>3 DEF Active, Inside
  <2> QED
    BY <2>1, <2>2, <2>5, <2>6 DEF Inv
<1> QED
  BY <1>1, <1>2, Steps

\* The invariant holds at first.
LEMMA InvInit == Init => Inv
<1> SUFFICES ASSUME Init PROVE Inv
  OBVIOUS
<1>1. \A r \in Requests : req[r] = Idle
  BY DEF Init
<1>2. DOMAIN req = Requests /\ where \in {"lambda", "uvicorn"} /\ log = {}
  BY DEF Init
<1>3. IsRequest(Idle) /\ Unknown(Idle) /\ Idle.pc = "idle"
  BY DEF Idle, IsRequest, Unknown, Fields
<1>4. \A r \in Requests : Known(Idle, r)
  BY <1>3 DEF Known, Unknown, Inside
<1> QED
  BY <1>1, <1>2, <1>3, <1>4 DEF Inv, OneAtATime, Active, Inside

\* The invariant holds in every state.
LEMMA InvHolds == Spec => []Inv
  BY InvInit, InvStep, PTL DEF Spec

\* Response header, problem body and log lines of a request carry one id.
THEOREM IdsAgree == Spec => []OneIdPerRequest
<1>1. Inv => OneIdPerRequest
  BY DEF Inv, Known, LineIsRight, OneIdPerRequest
<1> QED
  BY <1>1, InvHolds, PTL

\* In Lambda the Logger's id is that of the request that writes the line.
THEOREM LinesStayOwn == Spec => []LinesCarryOwnId
<1>1. Inv => LinesCarryOwnId
  BY DEF Inv, LineIsRight, LinesCarryOwnId
<1> QED
  BY <1>1, InvHolds, PTL

\* The status the middleware logs is the one the client gets.
THEOREM StatusesAgree == Spec => []LoggedStatusIsAnswered
<1>1. Inv => LoggedStatusIsAnswered
  BY DEF Inv, Known, LineIsRight, LoggedStatusIsAnswered
<1> QED
  BY <1>1, InvHolds, PTL

\* Behind the gateway a request acts for the owner that is logged.
THEOREM OwnersAgree == Spec => []OwnerLoggedIsOwnerActing
<1>1. ASSUME Inv, where = "lambda", NEW line \in log, Completed(line),
             req[line.request].owner # None
      PROVE  line.owner_id = req[line.request].owner
  BY <1>1 DEF Inv, Known, LineIsRight
<1>2. Inv => OwnerLoggedIsOwnerActing
  BY <1>1 DEF OwnerLoggedIsOwnerActing
<1> QED
  BY <1>2, InvHolds, PTL
=============================================================================
