------------------------ MODULE ProjectRepository_proof ------------------------
(***************************************************************************)
(* Theorems about the repository, for all sets of requests, projects,      *)
(* owners, names and keys and any number of attempts: types and names;     *)
(* what the requests of clients are told; the abstract registry.           *)
(***************************************************************************)
EXTENDS ProjectRepositoryRefinement, TLAPS

USE DEF Live, Reply

\* What NewProject returns is an item of the table.
LEMMA NewProjectType ==
    ASSUME NEW owner \in Owners, NEW name \in Names
    PROVE  NewProject(owner, name) \in ProjectItem
  BY DEF NewProject, ProjectItem, ProjectStatus

-----------------------------------------------------------------------------
(***************************************************************************)
(* A request that has called the table carries all of its parameters; the  *)
(* type invariant needs this, because a record is built from them.  Only   *)
(* attempts that were made before the last one can be late.                *)
(***************************************************************************)
CallsAreComplete ==
    \A r \in Requests :
        (req[r].call # "none" \/ req[r].pc = "write" \/ req[r].applied) =>
            /\ req[r].op \in {"create", "delete"}
            /\ req[r].caller \in Owners
            /\ req[r].id \in ProjectIds
            /\ req[r].name \in Names

ReadsAreComplete ==
    \A r \in Requests :
        req[r].pc = "read" =>
            /\ req[r].op \in {"get", "delete"}
            /\ req[r].caller \in Owners
            /\ req[r].id \in ProjectIds
            /\ req[r].call = "none"

LateOnesAreEarlier ==
    \A r \in Requests :
        IF req[r].call = "none" THEN req[r].late = 0 /\ req[r].attempts = 0
                                ELSE req[r].late < req[r].attempts

TypeInv == TypeOK /\ CallsAreComplete /\ ReadsAreComplete /\ LateOnesAreEarlier

\* No request has called the table or is reading in an initial state.
LEMMA TypeInit == Init => TypeInv
  BY MaxAttemptsType
     DEF Init, TypeInv, TypeOK, CallsAreComplete, ReadsAreComplete, LateOnesAreEarlier,
         Request, IdleRequest, Begun

\* Answering a request changes nothing but its pc and its answer.
LEMMA ReplyKeepsType ==
    ASSUME TypeInv, NEW r \in Requests, NEW answer \in Answers, Reply(r, answer),
           UNCHANGED <<records, reservations, issued>>
    PROVE  TypeInv'
<1> USE DEF TypeInv, TypeOK, CallsAreComplete, ReadsAreComplete, LateOnesAreEarlier
<1> DEFINE replied == [req[r] EXCEPT !.pc = "done", !.answer = answer]
<1>0. req[r] \in Request
  OBVIOUS
<1>1. replied \in Request
  BY <1>0 DEF Request
<1>2. req' = [req EXCEPT ![r] = replied]
  OBVIOUS
<1>3. req' \in [Requests -> Request]
  BY <1>1, <1>2
<1>4. replied.call = req[r].call /\ replied.applied = req[r].applied
      /\ replied.pc = "done" /\ replied.op = req[r].op /\ replied.caller = req[r].caller
      /\ replied.id = req[r].id /\ replied.name = req[r].name
      /\ replied.late = req[r].late /\ replied.attempts = req[r].attempts
  BY DEF Request
<1>5. CallsAreComplete' /\ ReadsAreComplete' /\ LateOnesAreEarlier'
  BY <1>2, <1>4
<1> QED
  BY <1>3, <1>5

\* What the evaluation of an attempt does to its request: the last attempt
\* gets its verdict, or an earlier one is no longer on its way.
LEMMA EvaluatedDoes ==
    ASSUME TypeInv, NEW r \in Requests, NEW verdict \in Verdicts, Evaluated(r, verdict)
    PROVE  /\ req' = [req EXCEPT ![r] = req'[r]] /\ req'[r] \in Request
           /\ \A s \in Requests \ {r} : req'[s] = req[s]
           /\ req'[r].op = req[r].op /\ req'[r].caller = req[r].caller
           /\ req'[r].id = req[r].id /\ req'[r].name = req[r].name
           /\ req'[r].pc = req[r].pc /\ req'[r].answer = req[r].answer
           /\ req'[r].attempts = req[r].attempts
           /\ req'[r].applied <=> (req[r].applied \/ verdict = "applied")
           /\ \/ /\ req[r].call = "sent" /\ req'[r].call = verdict
                 /\ req'[r].late = req[r].late
              \/ /\ req[r].late > 0 /\ req'[r].call = req[r].call
                 /\ req'[r].late = req[r].late - 1
<1> DEFINE applied == req[r].applied \/ verdict = "applied"
<1>1. req \in [Requests -> Request] /\ req[r] \in Request /\ applied \in BOOLEAN
  BY DEF TypeInv, TypeOK, Request
<1>2. CASE /\ req[r].call = "sent"
           /\ req' = [req EXCEPT ![r].call = verdict, ![r].applied = applied]
  <2> DEFINE q == [req[r] EXCEPT !.call = verdict, !.applied = applied]
  <2> HIDE DEF applied
  <2>1. /\ q \in Request /\ q.op = req[r].op /\ q.caller = req[r].caller /\ q.id = req[r].id
        /\ q.name = req[r].name /\ q.pc = req[r].pc /\ q.answer = req[r].answer
        /\ q.attempts = req[r].attempts /\ q.applied = applied
        /\ q.call = verdict /\ q.late = req[r].late
    BY <1>1 DEF Request
  <2>2. req' = [req EXCEPT ![r] = q]
    BY <1>2, Zenon
  <2> HIDE DEF q
  <2>3. req'[r] = q /\ req' = [req EXCEPT ![r] = req'[r]]
        /\ \A s \in Requests \ {r} : req'[s] = req[s]
    BY <1>1, <2>2
  <2> QED
    BY <1>2, <2>1, <2>3 DEF applied
<1>3. CASE /\ req[r].late > 0
           /\ req' = [req EXCEPT ![r].late = @ - 1, ![r].applied = applied]
  <2> DEFINE fewer == req[r].late - 1
             q == [req[r] EXCEPT !.late = fewer, !.applied = applied]
  <2>0. fewer \in 0 .. MaxAttempts
    BY <1>1, <1>3, MaxAttemptsType DEF Request
  <2> HIDE DEF applied, fewer
  <2>1. /\ q \in Request /\ q.op = req[r].op /\ q.caller = req[r].caller /\ q.id = req[r].id
        /\ q.name = req[r].name /\ q.pc = req[r].pc /\ q.answer = req[r].answer
        /\ q.attempts = req[r].attempts /\ q.applied = applied
        /\ q.call = req[r].call /\ q.late = fewer
    BY <1>1, <2>0 DEF Request
  <2>2. req' = [req EXCEPT ![r] = q]
    BY <1>3, Zenon DEF fewer
  <2> HIDE DEF q
  <2>3. req'[r] = q /\ req' = [req EXCEPT ![r] = req'[r]]
        /\ \A s \in Requests \ {r} : req'[s] = req[s]
    BY <1>1, <2>2
  <2> QED
    BY <1>3, <2>1, <2>3 DEF applied, fewer
<1> QED
  BY <1>2, <1>3 DEF Evaluated

\* So it keeps the request well-formed, whatever the verdict.
LEMMA EvaluatedKeepsType ==
    ASSUME TypeInv, NEW r \in Requests, NEW verdict \in Verdicts, Evaluated(r, verdict)
    PROVE  /\ req' \in [Requests -> Request]
           /\ CallsAreComplete' /\ ReadsAreComplete' /\ LateOnesAreEarlier'
<1>1. req[r] \in Request /\ req \in [Requests -> Request]
  BY DEF TypeInv, TypeOK
<1>2. /\ req' = [req EXCEPT ![r] = req'[r]] /\ req'[r] \in Request
      /\ \A s \in Requests \ {r} : req'[s] = req[s]
      /\ req'[r].op = req[r].op /\ req'[r].caller = req[r].caller
      /\ req'[r].id = req[r].id /\ req'[r].name = req[r].name
      /\ req'[r].pc = req[r].pc /\ req'[r].attempts = req[r].attempts
      /\ \/ /\ req[r].call = "sent" /\ req'[r].call = verdict /\ req'[r].late = req[r].late
         \/ /\ req[r].late > 0 /\ req'[r].call = req[r].call
            /\ req'[r].late = req[r].late - 1
  BY EvaluatedDoes
<1>3. req' \in [Requests -> Request]
  BY <1>1, <1>2
<1>4. req[r].call # "none" /\ req[r].late \in Nat /\ req[r].attempts \in Nat
  BY <1>1, <1>2 DEF TypeInv, LateOnesAreEarlier, Request
<1>5. verdict # "none"
  BY DEF Verdicts
<1>6. CallsAreComplete'
  BY <1>2, <1>4 DEF TypeInv, CallsAreComplete
<1>7. ReadsAreComplete'
  BY <1>2, <1>4 DEF TypeInv, ReadsAreComplete
<1>8. LateOnesAreEarlier'
  BY <1>2, <1>4, <1>5 DEF TypeInv, LateOnesAreEarlier
<1> QED
  BY <1>3, <1>6, <1>7, <1>8

\* Every action of a request keeps the strengthened type invariant.
LEMMA TypeStep == TypeInv /\ [Next]_vars => TypeInv'
<1> SUFFICES ASSUME TypeInv, [Next]_vars
             PROVE  TypeInv'
  OBVIOUS
<1> USE DEF TypeInv, TypeOK, CallsAreComplete, ReadsAreComplete, LateOnesAreEarlier
<1>0. CASE UNCHANGED vars
  BY <1>0 DEF vars
<1> SUFFICES ASSUME NEW r \in Requests, Handler(r) \/ Environment(r)
             PROVE  TypeInv'
  BY <1>0 DEF Next
<1>1. CASE StartCreate(r)
  <2>1. PICK caller \in Owners, name \in Names, id \in FreshIds :
            /\ req' = [req EXCEPT ![r] = Begun("create", caller, id, name, "write")]
            /\ issued' = issued \cup {id}
    BY <1>1 DEF StartCreate
  <2>2. id \in ProjectIds
    BY ReusableIdsType DEF FreshIds
  <2>3. Begun("create", caller, id, name, "write") \in Request
    BY <2>2, MaxAttemptsType DEF Begun, Request
  <2> QED
    <3>1. req' \in [Requests -> Request]
      BY <2>1, <2>3
    <3>2. LateOnesAreEarlier'
      BY <2>1 DEF Begun
    <3>3. CallsAreComplete' /\ ReadsAreComplete'
      BY ZenonT(60), <1>1, <2>1, <2>2 DEF StartCreate, Begun
    <3> QED
      BY <1>1, <2>1, <2>2, <3>1, <3>2, <3>3 DEF StartCreate
<1>2. CASE StartById(r)
  <2>1. PICK caller \in Owners, id \in ProjectIds \cup {Absent}, op \in {"get", "delete"} :
            req' = [req EXCEPT ![r] =
                      Begun(op, caller, id, Absent,
                            IF IsValidProjectId(id) THEN "read" ELSE "done")]
    BY <1>2 DEF StartById
  <2>2. Begun(op, caller, id, Absent,
              IF IsValidProjectId(id) THEN "read" ELSE "done") \in Request
    BY MaxAttemptsType DEF Begun, Request, Answers
  <2> QED
    BY ZenonT(60), <1>2, <2>1, <2>2 DEF StartById, Begun, IsValidProjectId
<1>3. CASE ReadRecord(r)
  <2>1. CASE Reply(r, "notFound") \/ Reply(r, "found")
    BY <1>3, <2>1, ReplyKeepsType DEF ReadRecord, Answers
  <2>2. CASE /\ OwnedBy(req[r].id, req[r].caller) /\ req[r].op = "delete"
             /\ req' = [req EXCEPT ![r].name = records[req[r].id].name,
                          ![r].pc = "write", ![r].call = "sent", ![r].attempts = 1]
    <3> DEFINE q == [req[r] EXCEPT !.name = records[req[r].id].name,
                       !.pc = "write", !.call = "sent", !.attempts = 1]
    <3>1. /\ req[r] \in Request /\ req[r].pc = "read" /\ req[r].id \in ProjectIds
          /\ req[r].caller \in Owners /\ req[r].late = 0
          /\ records[req[r].id].name \in Names
      BY <1>3, <2>2 DEF ReadRecord, OwnedBy, ProjectItem
    <3>2. /\ q \in Request /\ q.op = "delete" /\ q.caller \in Owners /\ q.id \in ProjectIds
          /\ q.name \in Names /\ q.pc = "write" /\ q.call = "sent"
          /\ q.attempts = 1 /\ q.late = 0
      BY <2>2, <3>1, MaxAttemptsType DEF Request
    <3>3. req' = [req EXCEPT ![r] = q]
      BY <2>2, Zenon
    <3> HIDE DEF q
    <3>4. req' \in [Requests -> Request] /\ CallsAreComplete' /\ ReadsAreComplete'
          /\ LateOnesAreEarlier'
      BY <3>2, <3>3
    <3> QED
      BY <1>3, <3>4 DEF ReadRecord
  <2> QED
    BY <1>3, <2>1, <2>2 DEF ReadRecord
<1>4. CASE ReadFails(r)
  BY <1>4, ReplyKeepsType DEF ReadFails, Answers
<1>5. CASE EvaluateCreate(r)
  <2>1. /\ req[r].id \in ProjectIds /\ req[r].caller \in Owners /\ req[r].name \in Names
        /\ UNCHANGED issued
    BY <1>5 DEF EvaluateCreate, OnItsWay, Request
  <2>2. CASE ApplyCreate(r)
    <3>1. "applied" \in Verdicts /\ Evaluated(r, "applied")
      BY <2>2 DEF ApplyCreate, Verdicts
    <3>2. records' \in [ProjectIds -> ProjectItem \cup {Absent}]
      BY <2>1, <2>2, NewProjectType DEF ApplyCreate
    <3>3. reservations' \in [NameKeys -> ProjectIds \cup {Absent}]
      BY <2>1, <2>2, NameKeyOfType DEF ApplyCreate, KeyOf
    <3> QED
      BY <2>1, <3>1, <3>2, <3>3, EvaluatedKeepsType
  <2>3. CASE ~ApplyCreate(r)
    <3>1. \E verdict \in Verdicts :
              Evaluated(r, verdict) /\ UNCHANGED <<records, reservations>>
      BY <1>5, <2>3 DEF EvaluateCreate, Verdicts
    <3> QED
      BY <2>1, <3>1, EvaluatedKeepsType
  <2> QED
    BY <2>2, <2>3
<1>6. CASE EvaluateDelete(r)
  <2>1. CASE ApplyDelete(r)
    <3>1. "applied" \in Verdicts /\ Evaluated(r, "applied") /\ UNCHANGED issued
      BY <1>6, <2>1 DEF EvaluateDelete, ApplyDelete, Verdicts
    <3>2. /\ records' \in [ProjectIds -> ProjectItem \cup {Absent}]
          /\ reservations' \in [NameKeys -> ProjectIds \cup {Absent}]
      BY <2>1 DEF ApplyDelete
    <3> QED
      BY <3>1, <3>2, EvaluatedKeepsType
  <2>2. CASE ~ApplyDelete(r)
    <3>1. UNCHANGED issued /\ \E verdict \in Verdicts :
              Evaluated(r, verdict) /\ UNCHANGED <<records, reservations>>
      BY <1>6, <2>2 DEF EvaluateDelete, Verdicts
    <3> QED
      BY <3>1, EvaluatedKeepsType
  <2> QED
    BY <2>1, <2>2
<1>7. CASE Conflict(r)
  BY <1>7, EvaluatedKeepsType DEF Conflict, Verdicts
<1>8. CASE Receive(r)
  <2>1. PICK listed \in BOOLEAN : Reply(r, AnswerTo(r, listed))
    BY <1>8 DEF Receive
  <2>2. AnswerTo(r, listed) \in Answers
    BY DEF AnswerTo, Answers
  <2> QED
    BY <1>8, <2>1, <2>2, ReplyKeepsType DEF Receive
<1>9. CASE Retry(r)
  <2> DEFINE q == [req[r] EXCEPT !.call = "sent", !.attempts = req[r].attempts + 1,
                     !.late = LateNow(r)]
  <2>1. /\ req[r] \in Request /\ req[r].late \in Nat /\ req[r].attempts \in Nat
        /\ req[r].pc = "write" /\ req[r].attempts < MaxAttempts
        /\ LateNow(r) \in 0 .. MaxAttempts /\ LateNow(r) < req[r].attempts + 1
        /\ req[r].attempts + 1 \in 0 .. MaxAttempts
    BY <1>9, MaxAttemptsType DEF Retry, LateNow, Request
  <2>2. /\ q \in Request /\ q.op = req[r].op /\ q.caller = req[r].caller
        /\ q.id = req[r].id /\ q.name = req[r].name /\ q.pc = "write"
        /\ q.call = "sent" /\ q.late = LateNow(r) /\ q.attempts = req[r].attempts + 1
    BY <2>1 DEF Request
  <2>3. req' = [req EXCEPT ![r] = q]
    BY <1>9, Zenon DEF Retry
  <2> HIDE DEF q
  <2>4. req' \in [Requests -> Request] /\ CallsAreComplete' /\ ReadsAreComplete'
        /\ LateOnesAreEarlier'
    BY <2>1, <2>2, <2>3
  <2> QED
    BY <1>9, <2>4 DEF Retry
<1>10. CASE GiveUp(r)
  BY <1>10, ReplyKeepsType DEF GiveUp, Answers
<1>11. CASE Crash(r)
  BY <1>11, ReplyKeepsType DEF Crash, Answers
<1>12. CASE RestoreRecord(r)
  BY <1>12, NewProjectType DEF RestoreRecord
<1>13. CASE RestoreReservation(r)
  BY <1>13, NameKeyOfType DEF RestoreReservation, KeyOf
<1> QED
  BY <1>1, <1>2, <1>3, <1>4, <1>5, <1>6, <1>7, <1>8, <1>9, <1>10, <1>11, <1>12, <1>13
     DEF Handler, Environment

\* The state always has its type, and calls have all their parameters.
THEOREM TypeCorrect == Spec => []TypeOK
<1>1. Spec => []TypeInv
  BY TypeInit, TypeStep, PTL DEF Spec
<1>2. TypeInv => TypeOK
  BY DEF TypeInv
<1> QED
  BY <1>1, <1>2, PTL

-----------------------------------------------------------------------------
(***************************************************************************)
(* Names.  NamesConsistent is inductive together with the types: what      *)
(* protects it is that create takes only a free name for an id that does   *)
(* not exist, and that delete gives up only the name its record has.  An   *)
(* operator who copies back one item at a time breaks it, so the theorems  *)
(* assume that nobody does.                                                *)
(***************************************************************************)

\* No action but the two transactions writes to the table.
LEMMA OnlyTransactionsWrite ==
    ASSUME RestoreAllowed = FALSE, [Next]_vars
    PROVE  \/ UNCHANGED <<records, reservations>>
           \/ \E r \in Requests :
                 \/ EvaluateCreate(r) /\ ~TokenSeen(r) /\ NameIsFree(r) /\ IdIsFree(r) /\ ApplyCreate(r)
                 \/ EvaluateDelete(r) /\ ~TokenSeen(r) /\ RecordIsOwned(r) /\ NameIsReserved(r)
                                      /\ ApplyDelete(r)
  BY ZenonT(60)
     DEF Next, vars, Handler, Environment, StartCreate, StartById, ReadRecord, ReadFails,
         EvaluateCreate, EvaluateDelete, Conflict, Receive, Retry, GiveUp, Crash,
         RestoreRecord, RestoreReservation

\* An attempt that is on its way carries all parameters of its request.
LEMMA OnItsWayIsComplete ==
    ASSUME TypeInv, NEW r \in Requests, OnItsWay(r)
    PROVE  /\ req[r] \in Request /\ req[r].call # "none"
           /\ req[r].op \in {"create", "delete"} /\ req[r].caller \in Owners
           /\ req[r].id \in ProjectIds /\ req[r].name \in Names
<1>1. req[r] \in Request /\ req[r].call # "none"
  BY DEF OnItsWay, TypeInv, TypeOK, LateOnesAreEarlier
<1> QED
  BY <1>1 DEF TypeInv, CallsAreComplete

\* A create that is applied takes a free name for a new project.
LEMMA CreateKeepsNames ==
    ASSUME TypeInv, NamesConsistent, NEW r \in Requests, OnItsWay(r),
           NameIsFree(r), IdIsFree(r), ApplyCreate(r)
    PROVE  NamesConsistent'
<1> DEFINE new == req[r].id
           key == KeyOf(r)
<1>1. /\ new \in ProjectIds /\ req[r].name \in Names /\ key \in NameKeys
      /\ req[r].caller \in Owners
  BY OnItsWayIsComplete, NameKeyOfType DEF KeyOf
<1>2. records' = [records EXCEPT ![new] = NewProject(req[r].caller, req[r].name)]
      /\ reservations' = [reservations EXCEPT ![key] = new]
  BY DEF ApplyCreate
<1>3. NewProject(req[r].caller, req[r].name) \in ProjectItem
      /\ NewProject(req[r].caller, req[r].name).name = req[r].name
  BY <1>1, NewProjectType DEF NewProject
<1>4. reservations[key] = Absent /\ records[new] = Absent
  BY DEF NameIsFree, IdIsFree
<1>5. EveryProjectHoldsItsName'
  <2> SUFFICES ASSUME NEW p \in ProjectIds, records'[p] # Absent
               PROVE  reservations'[NameKeyOf[records'[p].name]] = p
    BY DEF EveryProjectHoldsItsName
  <2>1. CASE p = new
    BY <2>1, <1>1, <1>2, <1>3 DEF TypeInv, TypeOK, KeyOf
  <2>2. CASE p # new
    <3>1. records'[p] = records[p] /\ reservations[NameKeyOf[records[p].name]] = p
      BY <2>2, <1>2 DEF NamesConsistent, EveryProjectHoldsItsName, TypeInv, TypeOK
    <3>2. NameKeyOf[records[p].name] # key
      BY <3>1, <1>4, AbsentIsNoItem
    <3> QED
      BY <3>1, <3>2, <1>2 DEF TypeInv, TypeOK
  <2> QED
    BY <2>1, <2>2
<1>6. EveryReservationIsHeld'
  <2> SUFFICES ASSUME NEW k \in NameKeys, reservations'[k] # Absent
               PROVE  /\ records'[reservations'[k]] # Absent
                      /\ NameKeyOf[records'[reservations'[k]].name] = k
    BY DEF EveryReservationIsHeld
  <2>1. CASE k = key
    <3>1. reservations'[k] = new
      BY <2>1, <1>1, <1>2 DEF TypeInv, TypeOK
    <3>2. records'[new] = NewProject(req[r].caller, req[r].name)
      BY <1>1, <1>2 DEF TypeInv, TypeOK
    <3> QED
      BY <2>1, <3>1, <3>2, <1>3, AbsentIsNoItem DEF KeyOf
  <2>2. CASE k # key
    <3>1. reservations'[k] = reservations[k]
      BY <2>2, <1>2 DEF TypeInv, TypeOK
    <3>2. /\ reservations[k] \in ProjectIds
          /\ records[reservations[k]] # Absent
          /\ NameKeyOf[records[reservations[k]].name] = k
      BY <3>1 DEF NamesConsistent, EveryReservationIsHeld, TypeInv, TypeOK
    <3>3. records'[reservations[k]] = records[reservations[k]]
      BY <3>2, <1>2, <1>4 DEF TypeInv, TypeOK
    <3> QED
      BY <3>1, <3>2, <3>3
  <2> QED
    BY <2>1, <2>2
<1> QED
  BY <1>5, <1>6 DEF NamesConsistent

\* A delete that is applied frees the name of the project it removes, and no
\* other project has that name.
LEMMA DeleteKeepsNames ==
    ASSUME TypeInv, NamesConsistent, NEW r \in Requests, OnItsWay(r),
           RecordIsOwned(r), NameIsReserved(r), ApplyDelete(r)
    PROVE  NamesConsistent'
<1> DEFINE old == req[r].id
           key == KeyOf(r)
<1>1. old \in ProjectIds /\ key \in NameKeys
  BY OnItsWayIsComplete, NameKeyOfType DEF KeyOf
<1>2. records' = [records EXCEPT ![old] = Absent]
      /\ reservations' = [reservations EXCEPT ![key] = Absent]
  BY DEF ApplyDelete
<1>3. /\ reservations[key] = old
      /\ NameKeyOf[records[old].name] = key
  BY <1>1, AbsentIsNoItem
     DEF NameIsReserved, NamesConsistent, EveryReservationIsHeld
<1>4. EveryProjectHoldsItsName'
  <2> SUFFICES ASSUME NEW p \in ProjectIds, records'[p] # Absent
               PROVE  reservations'[NameKeyOf[records'[p].name]] = p
    BY DEF EveryProjectHoldsItsName
  <2>1. p # old /\ records'[p] = records[p]
    BY <1>1, <1>2 DEF TypeInv, TypeOK
  <2>2. reservations[NameKeyOf[records[p].name]] = p
    BY <2>1 DEF NamesConsistent, EveryProjectHoldsItsName
  <2>3. NameKeyOf[records[p].name] # key
    BY <2>1, <2>2, <1>3
  <2> QED
    BY <2>1, <2>2, <2>3, <1>2 DEF TypeInv, TypeOK
<1>5. EveryReservationIsHeld'
  <2> SUFFICES ASSUME NEW k \in NameKeys, reservations'[k] # Absent
               PROVE  /\ records'[reservations'[k]] # Absent
                      /\ NameKeyOf[records'[reservations'[k]].name] = k
    BY DEF EveryReservationIsHeld
  <2>1. k # key /\ reservations'[k] = reservations[k]
    BY <1>2 DEF TypeInv, TypeOK
  <2>2. /\ reservations[k] \in ProjectIds
        /\ records[reservations[k]] # Absent
        /\ NameKeyOf[records[reservations[k]].name] = k
    BY <2>1 DEF NamesConsistent, EveryReservationIsHeld, TypeInv, TypeOK
  <2>3. reservations[k] # old
    BY <2>1, <2>2, <1>3
  <2> QED
    BY <2>1, <2>2, <2>3, <1>2 DEF TypeInv, TypeOK
<1> QED
  BY <1>4, <1>5 DEF NamesConsistent

\* Only an applied create or delete touches names, and both keep them
\* consistent as long as no operator restores single items.
LEMMA NamesStep ==
    ASSUME RestoreAllowed = FALSE
    PROVE  TypeInv /\ NamesConsistent /\ [Next]_vars => NamesConsistent'
<1> SUFFICES ASSUME TypeInv, NamesConsistent, [Next]_vars
             PROVE  NamesConsistent'
  OBVIOUS
<1>1. CASE UNCHANGED <<records, reservations>>
  BY <1>1 DEF NamesConsistent, EveryProjectHoldsItsName, EveryReservationIsHeld
<1>2. ASSUME NEW r \in Requests,
             EvaluateCreate(r), NameIsFree(r), IdIsFree(r), ApplyCreate(r)
      PROVE  NamesConsistent'
  BY <1>2, CreateKeepsNames DEF EvaluateCreate
<1>3. ASSUME NEW r \in Requests,
             EvaluateDelete(r), RecordIsOwned(r), NameIsReserved(r), ApplyDelete(r)
      PROVE  NamesConsistent'
  BY <1>3, DeleteKeepsNames DEF EvaluateDelete
<1> QED
  BY <1>1, <1>2, <1>3, OnlyTransactionsWrite

\* Whatever requests race, are retried or die, a project always holds the
\* reservation of its own name and every reservation belongs to a project.
THEOREM NamesStayConsistent ==
    ASSUME RestoreAllowed = FALSE
    PROVE  Spec => []NamesConsistent
<1>1. Init => NamesConsistent
  BY DEF Init, NamesConsistent, EveryProjectHoldsItsName, EveryReservationIsHeld
<1>2. TypeInv /\ NamesConsistent /\ [Next]_vars => NamesConsistent'
  BY NamesStep
<1> QED
  BY <1>1, <1>2, TypeInit, TypeStep, PTL DEF Spec

-----------------------------------------------------------------------------
\* A reservation is released only with the record of the project it points
\* at; this holds even when an operator restores single items, because of
\* the condition on the reservation in the delete transaction.
THEOREM ReleasesOwnNameOnly == Spec => OnlyOwnNameIsReleased
<1> DEFINE Released ==
             \A k \in NameKeys :
                 (reservations[k] # Absent /\ reservations'[k] # reservations[k]) =>
                     /\ reservations'[k] = Absent
                     /\ Live(reservations[k])
                     /\ records'[reservations[k]] = Absent
<1>1. TypeInv /\ [Next]_vars => [Released]_vars
  <2> SUFFICES ASSUME TypeInv, [Next]_vars,
                      NEW k \in NameKeys,
                      reservations[k] # Absent, reservations'[k] # reservations[k]
               PROVE  /\ reservations'[k] = Absent
                      /\ Live(reservations[k])
                      /\ records'[reservations[k]] = Absent
    OBVIOUS
  <2>1. PICK r \in Requests :
            \/ EvaluateCreate(r) /\ NameIsFree(r) /\ ApplyCreate(r)
            \/ EvaluateDelete(r) /\ RecordIsOwned(r) /\ NameIsReserved(r) /\ ApplyDelete(r)
            \/ RestoreReservation(r)
    BY ZenonT(60) DEF Next, vars, Handler, Environment, StartCreate, StartById, ReadRecord, ReadFails,
           EvaluateCreate, EvaluateDelete, Conflict, Receive, Retry, GiveUp, Crash,
           RestoreRecord
  <2>2. reservations' = [reservations EXCEPT ![KeyOf(r)] = reservations'[KeyOf(r)]]
        /\ KeyOf(r) = k
    BY <2>1 DEF ApplyCreate, ApplyDelete, RestoreReservation, TypeInv, TypeOK
  <2>3. EvaluateDelete(r) /\ RecordIsOwned(r) /\ NameIsReserved(r) /\ ApplyDelete(r)
    BY <2>1, <2>2 DEF NameIsFree, RestoreReservation
  <2>4. req[r].id \in ProjectIds
    BY <2>3, OnItsWayIsComplete DEF EvaluateDelete
  <2> QED
    BY <2>2, <2>3, <2>4
       DEF ApplyDelete, RecordIsOwned, OwnedBy, NameIsReserved, TypeInv, TypeOK
<1> QED
  BY <1>1, TypeInit, TypeStep, PTL DEF Spec, OnlyOwnNameIsReleased

\* No step replaces a project that exists by another one, even when an id is
\* given out a second time or an operator restores items.
THEOREM NeverOverwrites == Spec => NoOverwrite
<1> DEFINE Kept ==
             \A p \in ProjectIds :
                 (Live(p) /\ records'[p] # Absent) =>
                     /\ records'[p].owner = records[p].owner
                     /\ records'[p].name = records[p].name
<1>1. TypeInv /\ [Next]_vars => [Kept]_vars
  <2> SUFFICES ASSUME TypeInv, [Next]_vars,
                      NEW p \in ProjectIds, Live(p), records'[p] # Absent
               PROVE  records'[p] = records[p]
    OBVIOUS
  <2>1. CASE UNCHANGED records
    BY <2>1
  <2>2. ASSUME NEW r \in Requests, EvaluateCreate(r), IdIsFree(r), ApplyCreate(r)
        PROVE  records'[p] = records[p]
    BY <2>2 DEF ApplyCreate, IdIsFree, TypeInv, TypeOK
  <2>3. ASSUME NEW r \in Requests, EvaluateDelete(r), ApplyDelete(r)
        PROVE  records'[p] = records[p]
    BY <2>3 DEF ApplyDelete, TypeInv, TypeOK
  <2>4. ASSUME NEW r \in Requests, RestoreRecord(r)
        PROVE  records'[p] = records[p]
    BY <2>4 DEF RestoreRecord, TypeInv, TypeOK
  <2>5. \/ UNCHANGED records
        \/ \E r \in Requests :
              \/ EvaluateCreate(r) /\ IdIsFree(r) /\ ApplyCreate(r)
              \/ EvaluateDelete(r) /\ ApplyDelete(r)
              \/ RestoreRecord(r)
    BY ZenonT(60)
       DEF Next, vars, Handler, Environment, StartCreate, StartById, ReadRecord, ReadFails,
           EvaluateCreate, EvaluateDelete, Conflict, Receive, Retry, GiveUp, Crash,
           RestoreReservation
  <2> QED
    BY <2>1, <2>2, <2>3, <2>4, <2>5
<1> QED
  BY <1>1, TypeInit, TypeStep, PTL DEF Spec, NoOverwrite

\* Only a delete asked for by its owner removes a project.
THEOREM OnlyTheOwnerRemoves == Spec => OnlyItsOwnerRemovesAProject
<1> DEFINE RemovedByOwner ==
             \A p \in ProjectIds :
                 (Live(p) /\ records'[p] = Absent) =>
                     \E d \in Requests :
                         /\ req[d].op = "delete" /\ req[d].id = p
                         /\ req[d].caller = records[p].owner
                         /\ ~req[d].applied /\ req'[d].applied
<1>1. TypeInv /\ [Next]_vars => [RemovedByOwner]_vars
  <2> SUFFICES ASSUME TypeInv, [Next]_vars,
                      NEW p \in ProjectIds, Live(p), records'[p] = Absent
               PROVE  \E d \in Requests :
                         /\ req[d].op = "delete" /\ req[d].id = p
                         /\ req[d].caller = records[p].owner
                         /\ ~req[d].applied /\ req'[d].applied
    OBVIOUS
  <2>1. PICK r \in Requests :
              \/ EvaluateCreate(r) /\ IdIsFree(r) /\ ApplyCreate(r)
              \/ EvaluateDelete(r) /\ ~TokenSeen(r) /\ RecordIsOwned(r) /\ ApplyDelete(r)
              \/ RestoreRecord(r)
    BY ZenonT(60)
       DEF Next, vars, Handler, Environment, StartCreate, StartById, ReadRecord, ReadFails,
           EvaluateCreate, EvaluateDelete, Conflict, Receive, Retry, GiveUp, Crash,
           RestoreReservation
  <2>2. ~(EvaluateCreate(r) /\ IdIsFree(r) /\ ApplyCreate(r))
    BY OnItsWayIsComplete, NewProjectType, AbsentIsNoItem
       DEF EvaluateCreate, ApplyCreate, TypeInv, TypeOK
  <2>3. ~RestoreRecord(r)
    BY NewProjectType, AbsentIsNoItem DEF RestoreRecord, TypeInv, TypeOK, CallsAreComplete
  <2>4. EvaluateDelete(r) /\ ~TokenSeen(r) /\ RecordIsOwned(r) /\ ApplyDelete(r)
    BY <2>1, <2>2, <2>3
  <2>5. req[r].op = "delete" /\ req[r].id = p /\ req[r].caller = records[p].owner
    BY <2>4 DEF EvaluateDelete, RecordIsOwned, OwnedBy, ApplyDelete, TypeInv, TypeOK
  <2>6. ~req[r].applied /\ req'[r].applied
    <3>1. "applied" \in Verdicts /\ Evaluated(r, "applied") /\ ~req[r].applied
      BY <2>4 DEF TokenSeen, ApplyDelete, Verdicts
    <3> QED
      BY <3>1, EvaluatedDoes
  <2> QED
    BY <2>5, <2>6
<1> QED
  BY <1>1, TypeInit, TypeStep, PTL DEF Spec, OnlyItsOwnerRemovesAProject

-----------------------------------------------------------------------------
(***************************************************************************)
(* Requests: what a client is told is what happened, and what it was told  *)
(* stays so.  The life of an id goes through at most one create and one    *)
(* delete.                                                                 *)
(***************************************************************************)

(***************************************************************************)
(* What call, applied and answer say of each other in one request.         *)
(***************************************************************************)
SoundRequest(q) ==
    /\ q.pc = "idle" => q = IdleRequest
    /\ q.pc = "write" => q.call # "none"
    /\ q.pc = "done" <=> q.answer # "none"
    /\ q.call = "applied" => q.applied
    /\ q.call = "none" => ~q.applied
    /\ q.call \in {"nameTaken", "idTaken"} =>
          q.op = "create" /\ (q.attempts = 1 => ~q.applied)
    /\ q.call = "noRecord" => q.op = "delete"
    /\ q.answer = "created" => q.op = "create" /\ q.call = "applied"
    /\ q.answer = "deleted" => q.op = "delete" /\ q.call = "applied"
    /\ q.answer = "nameTaken" => q.call \in {"nameTaken", "idTaken"}
    /\ q.answer = "notFound" => q.call \in {"none", "noRecord"}

RequestsAreSound == \A r \in Requests : SoundRequest(req[r])

\* A step that changes one request keeps all sound if it keeps that one so.
LEMMA OneIsEnough ==
    ASSUME TypeInv, RequestsAreSound, NEW r \in Requests, NEW q,
           req' = [req EXCEPT ![r] = q], SoundRequest(q)
    PROVE  RequestsAreSound'
  BY DEF TypeInv, TypeOK, RequestsAreSound

\* Answering a request in read or write keeps it sound, if the answer is one
\* its call allows.
LEMMA ReplyIsSound ==
    ASSUME TypeInv, RequestsAreSound, NEW r \in Requests, NEW answer \in Answers,
           Reply(r, answer), req[r].pc \in {"read", "write"},
           answer = "created" => req[r].op = "create" /\ req[r].call = "applied",
           answer = "deleted" => req[r].op = "delete" /\ req[r].call = "applied",
           answer = "nameTaken" => req[r].call \in {"nameTaken", "idTaken"},
           answer = "notFound" => req[r].call \in {"none", "noRecord"}
    PROVE  RequestsAreSound'
<1> DEFINE q == [req[r] EXCEPT !.pc = "done", !.answer = answer]
<1>1. req[r] \in Request /\ SoundRequest(req[r])
  BY DEF TypeInv, TypeOK, RequestsAreSound
<1>2. SoundRequest(q)
  BY <1>1 DEF SoundRequest, Request, Answers
<1>3. req' = [req EXCEPT ![r] = q]
  OBVIOUS
<1> QED
  BY <1>2, <1>3, OneIsEnough

\* So does the evaluation of an attempt, whose conditions are looked at only
\* if no attempt of the request has been applied.
LEMMA VerdictIsSound ==
    ASSUME TypeInv, RequestsAreSound, NEW r \in Requests, NEW verdict \in Verdicts,
           Evaluated(r, verdict),
           verdict \in {"nameTaken", "idTaken"} => req[r].op = "create" /\ ~req[r].applied,
           verdict = "noRecord" => req[r].op = "delete"
    PROVE  RequestsAreSound'
<1>1. /\ req[r] \in Request /\ SoundRequest(req[r])
      /\ IF req[r].call = "none" THEN req[r].late = 0 ELSE req[r].late < req[r].attempts
  BY DEF TypeInv, TypeOK, RequestsAreSound, LateOnesAreEarlier
<1>2. /\ req' = [req EXCEPT ![r] = req'[r]] /\ req'[r] \in Request
      /\ req'[r].op = req[r].op /\ req'[r].caller = req[r].caller
      /\ req'[r].id = req[r].id /\ req'[r].name = req[r].name
      /\ req'[r].pc = req[r].pc /\ req'[r].answer = req[r].answer
      /\ req'[r].attempts = req[r].attempts
      /\ req'[r].applied <=> (req[r].applied \/ verdict = "applied")
      /\ \/ /\ req[r].call = "sent" /\ req'[r].call = verdict /\ req'[r].late = req[r].late
         \/ /\ req[r].late > 0 /\ req'[r].call = req[r].call
            /\ req'[r].late = req[r].late - 1
  BY EvaluatedDoes
<1>3. req[r].pc # "idle" /\ req[r].call # "none" /\ verdict # "none"
  BY <1>1, <1>2 DEF SoundRequest, IdleRequest, Begun, Verdicts
<1>4. CASE req[r].call = "sent" /\ req'[r].call = verdict
  <2>1. SoundRequest(req'[r])
    BY <1>1, <1>2, <1>3, <1>4 DEF SoundRequest
  <2> QED
    BY <1>2, <2>1, OneIsEnough
<1>5. CASE req[r].late > 0 /\ req'[r].call = req[r].call
  <2>1. req[r].attempts # 1
    BY <1>1, <1>3, <1>5 DEF Request
  <2>2. SoundRequest(req'[r])
    BY <1>1, <1>2, <1>3, <1>5, <2>1 DEF SoundRequest
  <2> QED
    BY <1>2, <2>2, OneIsEnough
<1> QED
  BY <1>2, <1>4, <1>5

\* Every action of a request leaves it sound.
LEMMA SoundStep == TypeInv /\ RequestsAreSound /\ [Next]_vars => RequestsAreSound'
<1> SUFFICES ASSUME TypeInv, RequestsAreSound, [Next]_vars
             PROVE  RequestsAreSound'
  OBVIOUS
<1>0. CASE UNCHANGED vars
  BY <1>0 DEF vars, RequestsAreSound
<1> SUFFICES ASSUME NEW r \in Requests, Handler(r) \/ Environment(r)
             PROVE  RequestsAreSound'
  BY <1>0 DEF Next
<1>q. req[r] \in Request /\ SoundRequest(req[r])
  BY DEF TypeInv, TypeOK, RequestsAreSound
<1>1. CASE StartCreate(r)
  <2>1. PICK caller \in Owners, name \in Names, id \in FreshIds :
            req' = [req EXCEPT ![r] = Begun("create", caller, id, name, "write")]
    BY <1>1 DEF StartCreate
  <2>2. SoundRequest(Begun("create", caller, id, name, "write"))
    BY DEF SoundRequest, Begun
  <2> QED
    BY <2>1, <2>2, OneIsEnough
<1>2. CASE StartById(r)
  <2>1. PICK caller \in Owners, id \in ProjectIds \cup {Absent}, op \in {"get", "delete"} :
            req' = [req EXCEPT ![r] =
                      Begun(op, caller, id, Absent,
                            IF IsValidProjectId(id) THEN "read" ELSE "done")]
    BY <1>2 DEF StartById
  <2>2. SoundRequest(Begun(op, caller, id, Absent,
                           IF IsValidProjectId(id) THEN "read" ELSE "done"))
    BY DEF SoundRequest, Begun
  <2> QED
    BY <2>1, <2>2, OneIsEnough
<1>3. CASE ReadRecord(r)
  <2>1. req[r].pc = "read" /\ req[r].call = "none" /\ ~req[r].applied
    BY <1>3, <1>q DEF ReadRecord, SoundRequest, TypeInv, ReadsAreComplete
  <2>2. CASE Reply(r, "notFound") \/ Reply(r, "found")
    <3>1. {"notFound", "found"} \subseteq Answers
      BY DEF Answers
    <3> QED
      BY <2>1, <2>2, <3>1, ReplyIsSound
  <2>3. CASE req' = [req EXCEPT ![r].name = records[req[r].id].name,
                       ![r].pc = "write", ![r].call = "sent", ![r].attempts = 1]
    <3> DEFINE q == [req[r] EXCEPT !.name = records[req[r].id].name,
                       !.pc = "write", !.call = "sent", !.attempts = 1]
    <3>1. SoundRequest(q)
      BY <2>1, <1>q DEF SoundRequest, Request
    <3>2. req' = [req EXCEPT ![r] = q]
      BY <2>3, Zenon
    <3> QED
      BY <3>1, <3>2, OneIsEnough
  <2> QED
    BY <2>2, <2>3, <1>3 DEF ReadRecord
<1>4. CASE ReadFails(r) \/ GiveUp(r) \/ Crash(r)
  BY <1>4, ReplyIsSound DEF ReadFails, GiveUp, Crash, Answers
<1>5. CASE EvaluateCreate(r)
  <2>1. \E verdict \in Verdicts :
            /\ Evaluated(r, verdict)
            /\ verdict \in {"nameTaken", "idTaken"} => req[r].op = "create" /\ ~req[r].applied
            /\ verdict # "noRecord"
    BY <1>5 DEF EvaluateCreate, ApplyCreate, TokenSeen, Verdicts
  <2> QED
    BY <2>1, VerdictIsSound
<1>6. CASE EvaluateDelete(r) \/ Conflict(r)
  <2>1. \E verdict \in Verdicts :
            /\ Evaluated(r, verdict)
            /\ verdict \notin {"nameTaken", "idTaken"}
            /\ verdict = "noRecord" => req[r].op = "delete"
    BY <1>6 DEF EvaluateDelete, ApplyDelete, Conflict, Verdicts
  <2> QED
    BY <2>1, VerdictIsSound
<1>7. CASE Receive(r)
  <2>1. req[r].op \in {"create", "delete"}
    BY <1>7 DEF Receive, TypeInv, CallsAreComplete
  <2>2. PICK listed \in BOOLEAN : req[r].pc = "write" /\ Reply(r, AnswerTo(r, listed))
    BY <1>7 DEF Receive
  <2> DEFINE answer == AnswerTo(r, listed)
  <2>3. /\ answer \in Answers
        /\ answer = "created" => req[r].op = "create" /\ req[r].call = "applied"
        /\ answer = "deleted" => req[r].op = "delete" /\ req[r].call = "applied"
        /\ answer = "nameTaken" => req[r].call \in {"nameTaken", "idTaken"}
        /\ answer = "notFound" => req[r].call \in {"none", "noRecord"}
    BY <2>1 DEF AnswerTo, Answers
  <2> HIDE DEF answer
  <2>4. Reply(r, answer)
    BY <2>2 DEF answer
  <2> QED
    BY <2>2, <2>3, <2>4, ReplyIsSound
<1>8. CASE Retry(r)
  <2> DEFINE q == [req[r] EXCEPT !.call = "sent", !.attempts = req[r].attempts + 1,
                     !.late = LateNow(r)]
  <2>1. SoundRequest(q)
    BY <1>8, <1>q DEF Retry, SoundRequest, Request
  <2>2. req' = [req EXCEPT ![r] = q]
    BY <1>8, Zenon DEF Retry
  <2> QED
    BY <2>1, <2>2, OneIsEnough
<1>9. CASE RestoreRecord(r) \/ RestoreReservation(r)
  BY <1>9 DEF RestoreRecord, RestoreReservation, RequestsAreSound
<1> QED
  BY <1>1, <1>2, <1>3, <1>4, <1>5, <1>6, <1>7, <1>8, <1>9 DEF Handler, Environment

\* An idle request is sound.
LEMMA SoundInit == Init => RequestsAreSound
  BY DEF Init, RequestsAreSound, SoundRequest, IdleRequest, Begun

-----------------------------------------------------------------------------
(***************************************************************************)
(* The life of a project.  As long as no id is given out twice and nobody  *)
(* restores items, a project exists from the one create of its id that is  *)
(* applied to the one delete of it that is, and is what its create made it.*)
(***************************************************************************)
Created(r) == req[r].op = "create" /\ req[r].applied

Deleted(r) == req[r].op = "delete" /\ req[r].applied

\* Every id is given out to one create only.
OneCreatePerId ==
    /\ \A c \in Requests : req[c].op = "create" => req[c].id \in issued
    /\ \A c, d \in Requests :
          (req[c].op = "create" /\ req[d].op = "create" /\ req[c].id = req[d].id) => c = d

\* A record is what an applied create made it.
RecordsStemFromCreates ==
    \A p \in ProjectIds :
        Live(p) => \E c \in Requests :
            /\ Created(c) /\ req[c].id = p
            /\ req[c].caller = records[p].owner /\ req[c].name = records[p].name

\* A delete that has read a record works on the name its create gave it, and
\* for the same owner.
DeletesStemFromCreates ==
    \A d \in Requests :
        (req[d].op = "delete" /\ req[d].name # Absent) => \E c \in Requests :
            /\ Created(c) /\ req[c].id = req[d].id
            /\ req[c].name = req[d].name /\ req[c].caller = req[d].caller

\* Nothing brings a project back, and nothing but a delete takes it away.
GoneMeansDeleted ==
    /\ \A d \in Requests : Deleted(d) => ~Live(req[d].id)
    /\ \A c \in Requests : Created(c) => Live(req[c].id) \/ WasDeleted(req[c].id)

Life ==
    /\ OneCreatePerId
    /\ RecordsStemFromCreates
    /\ DeletesStemFromCreates
    /\ GoneMeansDeleted
    /\ DeletedOnce

\* What a request asks for and whether it took effect.
Essence(q) == <<q.op, q.caller, q.id, q.name, q.applied>>

SameEssence == \A r \in Requests : Essence(req'[r]) = Essence(req[r])

\* Apart from starting, from a delete's reading and from the transactions,
\* nothing a request does changes what it asks for, its effect or the table.
LEMMA WhatSteps ==
    ASSUME RestoreAllowed = FALSE, TypeInv, [Next]_vars
    PROVE  \/ SameEssence /\ UNCHANGED <<records, reservations, issued>>
           \/ \E r \in Requests :
                 \/ StartCreate(r)
                 \/ StartById(r)
                 \/ ReadRecord(r) /\ req'[r].pc = "write"
                 \/ EvaluateCreate(r) /\ ~TokenSeen(r) /\ IdIsFree(r) /\ ApplyCreate(r)
                 \/ EvaluateDelete(r) /\ ~TokenSeen(r) /\ RecordIsOwned(r) /\ ApplyDelete(r)
<1> USE DEF TypeInv, TypeOK
<1>0. CASE UNCHANGED vars
  BY <1>0 DEF vars, SameEssence, Essence
<1> SUFFICES ASSUME NEW r \in Requests, Handler(r) \/ Environment(r),
                    ~StartCreate(r), ~StartById(r), ~(ReadRecord(r) /\ req'[r].pc = "write"),
                    ~(EvaluateCreate(r) /\ ~TokenSeen(r) /\ IdIsFree(r) /\ ApplyCreate(r)),
                    ~(EvaluateDelete(r) /\ ~TokenSeen(r) /\ RecordIsOwned(r) /\ ApplyDelete(r))
             PROVE  SameEssence /\ UNCHANGED <<records, reservations, issued>>
  BY <1>0, Zenon DEF Next
<1>q. req[r] \in Request
  OBVIOUS
<1>a. ASSUME NEW answer, Reply(r, answer) PROVE SameEssence
  BY <1>a, <1>q DEF SameEssence, Essence, Request
<1>b. ASSUME NEW verdict \in Verdicts, Evaluated(r, verdict),
             verdict = "applied" => req[r].applied
      PROVE  SameEssence
  <2>1. /\ \A s \in Requests \ {r} : req'[s] = req[s]
        /\ req'[r].op = req[r].op /\ req'[r].caller = req[r].caller
        /\ req'[r].id = req[r].id /\ req'[r].name = req[r].name
        /\ req'[r] \in Request
        /\ req'[r].applied <=> (req[r].applied \/ verdict = "applied")
    BY <1>b, EvaluatedDoes
  <2>2. req'[r].applied = req[r].applied
    BY <1>b, <1>q, <2>1 DEF Request
  <2> QED
    BY <2>1, <2>2 DEF SameEssence, Essence
<1>1. CASE ReadRecord(r)
  <2>1. CASE Reply(r, "notFound") \/ Reply(r, "found")
    BY <2>1, <1>1, <1>a DEF ReadRecord
  <2>2. CASE req' = [req EXCEPT ![r].name = records[req[r].id].name,
                       ![r].pc = "write", ![r].call = "sent", ![r].attempts = 1]
    <3>1. req'[r].pc = "write"
      BY <2>2, <1>q DEF Request
    <3> QED
      BY <3>1, <1>1
  <2> QED
    BY <2>1, <2>2, <1>1 DEF ReadRecord
<1>2. CASE ReadFails(r) \/ GiveUp(r) \/ Crash(r) \/ Receive(r)
  BY <1>2, <1>a DEF ReadFails, GiveUp, Crash, Receive
<1>3. CASE EvaluateCreate(r) \/ EvaluateDelete(r) \/ Conflict(r)
  <2>1. /\ UNCHANGED <<records, reservations, issued>>
        /\ \E verdict \in Verdicts :
              Evaluated(r, verdict) /\ (verdict = "applied" => req[r].applied)
    BY <1>3 DEF EvaluateCreate, EvaluateDelete, Conflict, TokenSeen, Verdicts
  <2> QED
    BY <2>1, <1>b
<1>4. CASE Retry(r)
  <2> DEFINE q == [req[r] EXCEPT !.call = "sent", !.attempts = req[r].attempts + 1,
                     !.late = LateNow(r)]
  <2>1. Essence(q) = Essence(req[r])
    BY <1>q DEF Essence, Request
  <2>2. req' = [req EXCEPT ![r] = q]
    BY <1>4, Zenon DEF Retry
  <2> HIDE DEF q
  <2>3. SameEssence
    BY <2>1, <2>2 DEF SameEssence
  <2> QED
    BY <1>4, <2>3 DEF Retry
<1>5. ~RestoreRecord(r) /\ ~RestoreReservation(r)
  BY DEF RestoreRecord, RestoreReservation
<1> QED
  BY <1>1, <1>2, <1>3, <1>4, <1>5 DEF Handler, Environment

\* A step that changes neither keeps the life of every project.
LEMMA QuietStepKeepsLife ==
    ASSUME Life, SameEssence, UNCHANGED <<records, reservations, issued>>
    PROVE  Life'
<1>1. \A r \in Requests :
          /\ req'[r].op = req[r].op /\ req'[r].caller = req[r].caller
          /\ req'[r].id = req[r].id /\ req'[r].name = req[r].name
          /\ req'[r].applied = req[r].applied
  BY DEF SameEssence, Essence
<1> USE DEF Life, Created, Deleted
<1>2. OneCreatePerId'
  BY <1>1 DEF OneCreatePerId
<1>3. RecordsStemFromCreates'
  BY <1>1 DEF RecordsStemFromCreates
<1>4. DeletesStemFromCreates'
  BY <1>1 DEF DeletesStemFromCreates
<1>5. GoneMeansDeleted'
  BY <1>1 DEF GoneMeansDeleted, WasDeleted
<1>6. DeletedOnce'
  BY <1>1 DEF DeletedOnce
<1> QED
  BY <1>2, <1>3, <1>4, <1>5, <1>6

\* A request that starts has had no effect, and a new create has a new id.
LEMMA StartKeepsLife ==
    ASSUME ReusableIds = {}, TypeInv, RequestsAreSound, Life, NEW r \in Requests,
           StartCreate(r) \/ StartById(r)
    PROVE  Life'
<1>1. /\ \A s \in Requests \ {r} : req'[s] = req[s]
      /\ req[r].op = "none" /\ ~req[r].applied /\ ~req'[r].applied
      /\ records' = records
      /\ req'[r].op = "create" => req'[r].id \notin issued /\ req'[r].id \in issued'
      /\ issued \subseteq issued'
      /\ req'[r].op = "delete" => req'[r].name = Absent
  <2>1. req[r].pc = "idle" /\ req[r] = IdleRequest
    BY DEF StartCreate, StartById, RequestsAreSound, SoundRequest
  <2>2. req[r].op = "none" /\ ~req[r].applied
    BY <2>1 DEF IdleRequest, Begun
  <2>3. CASE StartCreate(r)
    BY <2>2, <2>3 DEF StartCreate, Begun, FreshIds, TypeInv, TypeOK
  <2>4. CASE StartById(r)
    BY <2>2, <2>4 DEF StartById, Begun, TypeInv, TypeOK
  <2> QED
    BY <2>3, <2>4
<1> USE DEF Life, Created, Deleted
<1>2. OneCreatePerId'
  BY <1>1 DEF OneCreatePerId
<1>3. RecordsStemFromCreates'
  BY <1>1 DEF RecordsStemFromCreates
<1>4. DeletesStemFromCreates'
  BY <1>1 DEF DeletesStemFromCreates
<1>5. GoneMeansDeleted'
  BY <1>1 DEF GoneMeansDeleted, WasDeleted
<1>6. DeletedOnce'
  BY <1>1 DEF DeletedOnce
<1> QED
  BY <1>2, <1>3, <1>4, <1>5, <1>6

\* A delete takes the name from a record, which a create made.
LEMMA ReadKeepsLife ==
    ASSUME TypeInv, RequestsAreSound, Life, NEW r \in Requests,
           ReadRecord(r), req'[r].pc = "write"
    PROVE  Life'
<1>1. req[r] \in Request /\ req[r].pc = "read" /\ ~req[r].applied
  BY DEF ReadRecord, RequestsAreSound, SoundRequest, TypeInv, TypeOK, ReadsAreComplete
<1>2. ~Reply(r, "notFound") /\ ~Reply(r, "found")
  BY <1>1 DEF Request, TypeInv, TypeOK
<1>3. /\ \A s \in Requests \ {r} : req'[s] = req[s]
      /\ req[r].op = "delete" /\ req'[r].op = "delete"
      /\ req'[r].id = req[r].id /\ ~req'[r].applied
      /\ Live(req[r].id) /\ req'[r].name = records[req[r].id].name
      /\ req'[r].caller = records[req[r].id].owner
      /\ UNCHANGED <<records, issued>>
  BY <1>1, <1>2 DEF ReadRecord, OwnedBy, Request, TypeInv, TypeOK
<1>4. req[r].id \in ProjectIds
  BY <1>1 DEF TypeInv, ReadsAreComplete
<1> USE DEF Life, Created, Deleted
<1>5. OneCreatePerId'
  BY <1>3 DEF OneCreatePerId
<1>6. RecordsStemFromCreates'
  BY <1>3 DEF RecordsStemFromCreates
<1>7. DeletesStemFromCreates'
  BY <1>3, <1>4 DEF DeletesStemFromCreates, RecordsStemFromCreates
<1>8. GoneMeansDeleted'
  BY <1>3 DEF GoneMeansDeleted, WasDeleted
<1>9. DeletedOnce'
  BY <1>3 DEF DeletedOnce
<1> QED
  BY <1>5, <1>6, <1>7, <1>8, <1>9

\* A create that is applied is the first one of its id, so that no delete of
\* that id can have been applied before.
LEMMA CreateKeepsLife ==
    ASSUME TypeInv, Life, NEW r \in Requests,
           EvaluateCreate(r), ~TokenSeen(r), IdIsFree(r), ApplyCreate(r)
    PROVE  Life'
<1> DEFINE new == req[r].id
<1>1. /\ req[r] \in Request /\ req[r].op = "create" /\ ~req[r].applied
      /\ new \in ProjectIds /\ req[r].caller \in Owners /\ req[r].name \in Names
  BY OnItsWayIsComplete DEF EvaluateCreate, TokenSeen
<1>2. /\ \A s \in Requests \ {r} : req'[s] = req[s]
      /\ req'[r].op = "create" /\ req'[r].id = new /\ req'[r].applied
      /\ req'[r].caller = req[r].caller /\ req'[r].name = req[r].name
      /\ issued' = issued
  <2>1. "applied" \in Verdicts /\ Evaluated(r, "applied") /\ issued' = issued
    BY DEF EvaluateCreate, ApplyCreate, Verdicts
  <2> QED
    BY <1>1, <2>1, EvaluatedDoes
<1>3. /\ records'[new].owner = req[r].caller /\ records'[new].name = req[r].name
      /\ records'[new] # Absent
      /\ \A p \in ProjectIds \ {new} : records'[p] = records[p]
  BY <1>1, NewProjectType, AbsentIsNoItem DEF ApplyCreate, NewProject, TypeInv, TypeOK
<1>4. \A d \in Requests : Deleted(d) => req[d].id # new
  <2> SUFFICES ASSUME NEW d \in Requests, Deleted(d), req[d].id = new
               PROVE  FALSE
    OBVIOUS
  <2>1. req[d].name # Absent
    BY AbsentIsNoItem DEF Deleted, TypeInv, CallsAreComplete
  <2>2. PICK c \in Requests : Created(c) /\ req[c].id = new
    BY <2>1 DEF Life, DeletesStemFromCreates, Deleted
  <2> QED
    BY <2>2, <1>1 DEF Life, OneCreatePerId, Created
<1> USE DEF Life, Created, Deleted
<1>5. OneCreatePerId'
  BY <1>1, <1>2 DEF OneCreatePerId
<1>6. RecordsStemFromCreates'
  BY <1>1, <1>2, <1>3 DEF RecordsStemFromCreates
<1>7. DeletesStemFromCreates'
  BY <1>1, <1>2 DEF DeletesStemFromCreates
<1>8. GoneMeansDeleted'
  <2>1. \A d \in Requests : Deleted(d)' => ~Live(req[d].id)'
    BY <1>1, <1>2, <1>3, <1>4 DEF GoneMeansDeleted, TypeInv, CallsAreComplete
  <2>2. \A c \in Requests : Created(c)' => Live(req[c].id)' \/ WasDeleted(req[c].id)'
    BY <1>1, <1>2, <1>3 DEF GoneMeansDeleted, WasDeleted, TypeInv, CallsAreComplete
  <2> QED
    BY <2>1, <2>2 DEF GoneMeansDeleted
<1>9. DeletedOnce'
  BY <1>1, <1>2 DEF DeletedOnce
<1> QED
  BY <1>5, <1>6, <1>7, <1>8, <1>9

\* A delete that is applied finds its project alive, so it is the first.
LEMMA DeleteKeepsLife ==
    ASSUME TypeInv, Life, NEW r \in Requests,
           EvaluateDelete(r), ~TokenSeen(r), RecordIsOwned(r), ApplyDelete(r)
    PROVE  Life'
<1> DEFINE old == req[r].id
<1>1. /\ req[r] \in Request /\ req[r].op = "delete" /\ ~req[r].applied
      /\ old \in ProjectIds /\ Live(old)
  BY OnItsWayIsComplete DEF EvaluateDelete, TokenSeen, RecordIsOwned, OwnedBy
<1>2. /\ \A s \in Requests \ {r} : req'[s] = req[s]
      /\ req'[r].op = "delete" /\ req'[r].id = old /\ req'[r].applied
      /\ req'[r].name = req[r].name /\ req'[r].caller = req[r].caller
      /\ issued' = issued
  <2>1. "applied" \in Verdicts /\ Evaluated(r, "applied") /\ issued' = issued
    BY DEF EvaluateDelete, ApplyDelete, Verdicts
  <2> QED
    BY <1>1, <2>1, EvaluatedDoes
<1>3. records'[old] = Absent /\ \A p \in ProjectIds \ {old} : records'[p] = records[p]
  BY <1>1 DEF ApplyDelete, TypeInv, TypeOK
<1> USE DEF Life, Created, Deleted
<1>5. OneCreatePerId'
  BY <1>1, <1>2 DEF OneCreatePerId
<1>6. RecordsStemFromCreates'
  BY <1>1, <1>2, <1>3 DEF RecordsStemFromCreates
<1>7. DeletesStemFromCreates'
  BY <1>1, <1>2 DEF DeletesStemFromCreates
<1>8. GoneMeansDeleted'
  <2>1. \A d \in Requests : Deleted(d)' => ~Live(req[d].id)'
    BY <1>1, <1>2, <1>3 DEF GoneMeansDeleted, TypeInv, CallsAreComplete
  <2>2. \A c \in Requests : Created(c)' => Live(req[c].id)' \/ WasDeleted(req[c].id)'
    BY <1>1, <1>2, <1>3 DEF GoneMeansDeleted, WasDeleted, TypeInv, CallsAreComplete
  <2> QED
    BY <2>1, <2>2 DEF GoneMeansDeleted
<1>9. DeletedOnce'
  BY <1>1, <1>2 DEF DeletedOnce, GoneMeansDeleted
<1> QED
  BY <1>5, <1>6, <1>7, <1>8, <1>9

\* Whatever step is taken, the life of every project goes on like that.
LEMMA LifeStep ==
    ASSUME RestoreAllowed = FALSE, ReusableIds = {}
    PROVE  TypeInv /\ RequestsAreSound /\ Life /\ [Next]_vars => Life'
  BY WhatSteps, QuietStepKeepsLife, StartKeepsLife, ReadKeepsLife, CreateKeepsLife,
     DeleteKeepsLife

\* Before the first request there is no project.
LEMMA LifeInit == Init => Life
  BY DEF Init, Life, OneCreatePerId, RecordsStemFromCreates, DeletesStemFromCreates,
         GoneMeansDeleted, DeletedOnce, Created, Deleted, IdleRequest, Begun

\* Two deletes of one project never both take effect.
THEOREM DeletesOnce ==
    ASSUME RestoreAllowed = FALSE, ReusableIds = {}
    PROVE  Spec => []DeletedOnce
<1>1. TypeInv /\ RequestsAreSound /\ Life /\ [Next]_vars => Life'
  BY LifeStep
<1>2. Life => DeletedOnce
  BY DEF Life
<1> QED
  BY <1>1, <1>2, LifeInit, TypeInit, TypeStep, SoundInit, SoundStep, PTL DEF Spec

\* A project whose creation was acknowledged stays, with its owner, name and
\* reservation, until a delete of it takes effect.
THEOREM AckedCreatesStay ==
    ASSUME RestoreAllowed = FALSE, ReusableIds = {}
    PROVE  Spec => []AckedCreateIsDurable
<1>1. TypeInv /\ RequestsAreSound /\ Life /\ [Next]_vars => Life'
  BY LifeStep
<1>2. TypeInv /\ NamesConsistent /\ [Next]_vars => NamesConsistent'
  BY NamesStep
<1>3. Init => NamesConsistent
  BY DEF Init, NamesConsistent, EveryProjectHoldsItsName, EveryReservationIsHeld
<1>4. TypeInv /\ RequestsAreSound /\ NamesConsistent /\ Life => AckedCreateIsDurable
  <2> SUFFICES ASSUME TypeInv, RequestsAreSound, NamesConsistent, Life,
                      NEW c \in Requests, req[c].answer = "created", ~WasDeleted(req[c].id)
               PROVE  /\ Live(req[c].id)
                      /\ records[req[c].id].owner = req[c].caller
                      /\ records[req[c].id].name = req[c].name
                      /\ reservations[KeyOf(c)] = req[c].id
    BY DEF AckedCreateIsDurable
  <2>1. Created(c) /\ req[c].id \in ProjectIds
    BY DEF RequestsAreSound, SoundRequest, Created, TypeInv, CallsAreComplete
  <2>2. Live(req[c].id)
    BY <2>1 DEF Life, GoneMeansDeleted
  <2>3. records[req[c].id].owner = req[c].caller /\ records[req[c].id].name = req[c].name
    BY <2>1, <2>2 DEF Life, RecordsStemFromCreates, OneCreatePerId, Created
  <2>4. reservations[KeyOf(c)] = req[c].id
    BY <2>1, <2>2, <2>3 DEF NamesConsistent, EveryProjectHoldsItsName, KeyOf
  <2> QED
    BY <2>2, <2>3, <2>4
<1> QED
  BY <1>1, <1>2, <1>3, <1>4, LifeInit, TypeInit, TypeStep, SoundInit, SoundStep, PTL DEF Spec

-----------------------------------------------------------------------------
(***************************************************************************)
(* Verdicts and answers.                                                   *)
(***************************************************************************)

\* A request gets a verdict about its conditions only when the table has
\* looked at them, and then nothing has been written for it.
LEMMA WhoseVerdict ==
    ASSUME TypeInv, [Next]_vars, NEW r \in Requests, req'[r].call # req[r].call,
           req'[r].call \in {"nameTaken", "noRecord", "mismatch"}
    PROVE  /\ \/ /\ req'[r].call = "nameTaken"
                 /\ req[r].op = "create" /\ ~NameIsFree(r)
              \/ /\ req'[r].call = "noRecord"
                 /\ req[r].op = "delete" /\ ~RecordIsOwned(r)
              \/ /\ req'[r].call = "mismatch"
                 /\ req[r].op = "delete" /\ RecordIsOwned(r) /\ ~NameIsReserved(r)
           /\ OnItsWay(r) /\ ~req[r].applied
           /\ SameEssence /\ UNCHANGED <<records, reservations, issued>>
<1>1. req[r] \in Request /\ req \in [Requests -> Request]
  BY DEF TypeInv, TypeOK
<1>2. PICK s \in Requests : Handler(s) \/ Environment(s)
  BY DEF Next, vars
<1>3. ASSUME NEW q, req' = [req EXCEPT ![s] = q], q.call \in {"none", "sent"}
      PROVE  FALSE
  BY <1>1, <1>3
<1>4. ASSUME NEW answer, Reply(s, answer)
      PROVE  FALSE
  BY <1>1, <1>4 DEF Request
<1>5. ASSUME NEW verdict \in Verdicts, Evaluated(s, verdict)
      PROVE  /\ s = r /\ req'[r].call = verdict
             /\ ~req[r].applied /\ verdict # "applied" => SameEssence
  <2>1. /\ \A q \in Requests \ {s} : req'[q] = req[q]
        /\ req'[s].op = req[s].op /\ req'[s].caller = req[s].caller
        /\ req'[s].id = req[s].id /\ req'[s].name = req[s].name
        /\ req'[s] \in Request /\ req[s] \in Request
        /\ req'[s].applied <=> (req[s].applied \/ verdict = "applied")
        /\ req'[s].call \in {verdict, req[s].call}
    BY <1>1, <1>5, EvaluatedDoes
  <2>2. s = r /\ req'[r].call = verdict
    BY <2>1
  <2>3. ASSUME ~req[r].applied, verdict # "applied"
        PROVE  SameEssence
    <3>1. req'[r].applied = req[r].applied
      BY <2>1, <2>2, <2>3 DEF Request
    <3> QED
      BY <2>1, <2>2, <3>1 DEF SameEssence, Essence
  <2> QED
    BY <2>2, <2>3
<1>6. /\ ~StartCreate(s) /\ ~StartById(s) /\ ~Retry(s)
      /\ ~ReadFails(s) /\ ~Receive(s) /\ ~GiveUp(s) /\ ~Crash(s)
      /\ ~RestoreRecord(s) /\ ~RestoreReservation(s)
  <2>1. ~StartCreate(s) /\ ~StartById(s)
    <3>1. ASSUME NEW op, NEW caller, NEW id, NEW name, NEW pc
          PROVE  Begun(op, caller, id, name, pc).call \in {"none", "sent"}
      BY DEF Begun
    <3> QED
      BY <1>3, <3>1, Zenon DEF StartCreate, StartById
  <2>2. ~Retry(s)
    <3> DEFINE q == [req[s] EXCEPT !.call = "sent", !.attempts = req[s].attempts + 1,
                       !.late = LateNow(s)]
    <3>1. q.call = "sent"
      BY <1>1 DEF Request
    <3>2. Retry(s) => req' = [req EXCEPT ![s] = q]
      BY Zenon DEF Retry
    <3> QED
      BY <1>3, <3>1, <3>2
  <2>3. ~ReadFails(s) /\ ~Receive(s) /\ ~GiveUp(s) /\ ~Crash(s)
    BY <1>4 DEF ReadFails, Receive, GiveUp, Crash
  <2> QED
    BY <2>1, <2>2, <2>3 DEF RestoreRecord, RestoreReservation
<1>7. ~ReadRecord(s)
  <2> DEFINE q == [req[s] EXCEPT !.name = records[req[s].id].name,
                     !.pc = "write", !.call = "sent", !.attempts = 1]
  <2>1. q.call = "sent"
    BY <1>1 DEF Request
  <2>2. req' # [req EXCEPT ![s] = q]
    BY <1>3, <2>1
  <2>3. ReadRecord(s) => \/ Reply(s, "notFound") \/ Reply(s, "found")
                         \/ req' = [req EXCEPT ![s] = q]
    BY Zenon DEF ReadRecord
  <2> QED
    BY <1>4, <2>2, <2>3
<1>8. ~Conflict(s)
  BY <1>5 DEF Conflict, Verdicts
<1>9. CASE EvaluateCreate(s)
  BY <1>5, <1>9 DEF EvaluateCreate, ApplyCreate, TokenSeen, Verdicts
<1>10. CASE EvaluateDelete(s)
  BY <1>5, <1>10 DEF EvaluateDelete, ApplyDelete, TokenSeen, Verdicts
<1> QED
  BY <1>2, <1>6, <1>7, <1>8, <1>9, <1>10 DEF Handler, Environment

\* A delete that finds no record of its owner comes after another one.
LEMMA NoRecordMeansDeleted ==
    ASSUME TypeInv, Life, NEW r \in Requests, OnItsWay(r), req[r].op = "delete",
           ~req[r].applied, ~RecordIsOwned(r)
    PROVE  \E d \in Requests \ {r} :
               req[d].op = "delete" /\ req[d].applied /\ req[d].id = req[r].id
<1>1. req[r].name # Absent /\ req[r].id \in ProjectIds
  BY OnItsWayIsComplete, AbsentIsNoItem
<1>2. PICK c \in Requests :
          /\ Created(c) /\ req[c].id = req[r].id /\ req[c].caller = req[r].caller
  BY <1>1 DEF Life, DeletesStemFromCreates
<1>3. ~Live(req[r].id)
  BY <1>1, <1>2
     DEF Life, OneCreatePerId, RecordsStemFromCreates, Created, RecordIsOwned, OwnedBy
<1>4. WasDeleted(req[r].id)
  BY <1>2, <1>3 DEF Life, GoneMeansDeleted
<1> QED
  BY <1>4 DEF WasDeleted

(***************************************************************************)
(* A delete that was told of no record never removes one any more, not     *)
(* even by an attempt that is late: the project does not come back.        *)
(***************************************************************************)
NoRecordIsFinal ==
    \A r \in Requests :
        req[r].call = "noRecord" => ~req[r].applied /\ WasDeleted(req[r].id)

\* A delete that has taken effect stays so.
LEMMA DeletedStaysDone ==
    ASSUME RestoreAllowed = FALSE, TypeInv, RequestsAreSound, [Next]_vars,
           NEW d \in Requests, req[d].op = "delete", req[d].applied
    PROVE  req'[d].op = "delete" /\ req'[d].applied /\ req'[d].id = req[d].id
<1>1. CASE SameEssence
  BY <1>1 DEF SameEssence, Essence
<1>2. req[d].pc # "idle" /\ req[d].pc # "read" /\ req \in [Requests -> Request]
  BY DEF TypeInv, TypeOK, ReadsAreComplete, RequestsAreSound, SoundRequest, IdleRequest, Begun
<1>3. ASSUME NEW r \in Requests,
             StartCreate(r) \/ StartById(r) \/ (ReadRecord(r) /\ req'[r].pc = "write")
      PROVE  req'[d] = req[d]
  BY <1>2, <1>3 DEF StartCreate, StartById, ReadRecord
<1>4. ASSUME NEW r \in Requests,
             \/ EvaluateCreate(r) /\ ~TokenSeen(r) /\ ApplyCreate(r)
             \/ EvaluateDelete(r) /\ ~TokenSeen(r) /\ ApplyDelete(r)
      PROVE  req'[d] = req[d]
  <2>1. d # r /\ "applied" \in Verdicts /\ Evaluated(r, "applied")
    BY <1>4 DEF TokenSeen, ApplyCreate, ApplyDelete, Verdicts
  <2> QED
    BY <2>1, EvaluatedDoes
<1> QED
  BY <1>1, <1>3, <1>4, WhatSteps

\* Every step keeps it, because a project that is deleted is not there.
LEMMA NoRecordStep ==
    ASSUME RestoreAllowed = FALSE
    PROVE  TypeInv /\ RequestsAreSound /\ Life /\ NoRecordIsFinal /\ [Next]_vars
              => NoRecordIsFinal'
<1> SUFFICES ASSUME TypeInv, RequestsAreSound, Life, NoRecordIsFinal, [Next]_vars,
                    NEW r \in Requests, req'[r].call = "noRecord"
             PROVE  ~req'[r].applied /\ WasDeleted(req[r].id)'
  BY DEF NoRecordIsFinal
<1>1. WasDeleted(req[r].id) /\ req'[r].id = req[r].id => WasDeleted(req[r].id)'
  BY DeletedStaysDone DEF WasDeleted
<1>2. CASE req[r].call # "noRecord"
  <2>1. /\ req[r].op = "delete" /\ ~RecordIsOwned(r) /\ OnItsWay(r) /\ ~req[r].applied
        /\ SameEssence
    BY <1>2, WhoseVerdict
  <2>2. WasDeleted(req[r].id)
    BY <2>1, NoRecordMeansDeleted DEF WasDeleted
  <2> QED
    <3>1. req'[r].applied = req[r].applied /\ req'[r].id = req[r].id
      BY <2>1 DEF SameEssence, Essence
    <3> QED
      BY <1>1, <2>1, <2>2, <3>1
<1>3. CASE req[r].call = "noRecord"
  <2>1. /\ req[r].op = "delete" /\ ~req[r].applied /\ WasDeleted(req[r].id)
        /\ req[r].pc # "idle" /\ req[r].pc # "read"
        /\ req[r] \in Request /\ req \in [Requests -> Request]
    BY <1>3 DEF NoRecordIsFinal, RequestsAreSound, SoundRequest, IdleRequest, Begun,
                TypeInv, TypeOK, ReadsAreComplete
  <2>2. ~Live(req[r].id)
    BY <2>1 DEF WasDeleted, Life, GoneMeansDeleted, Deleted
  <2>3. req'[r].id = req[r].id /\ ~req'[r].applied
    <3>1. CASE SameEssence
      BY <2>1, <3>1 DEF SameEssence, Essence
    <3>2. ASSUME NEW s \in Requests,
                 StartCreate(s) \/ StartById(s) \/ (ReadRecord(s) /\ req'[s].pc = "write")
          PROVE  req'[r] = req[r]
      BY <2>1, <3>2 DEF StartCreate, StartById, ReadRecord
    <3>3. ASSUME NEW s \in Requests,
                 \/ EvaluateCreate(s) /\ ApplyCreate(s)
                 \/ EvaluateDelete(s) /\ RecordIsOwned(s) /\ ApplyDelete(s)
          PROVE  req'[r] = req[r]
      <4>1. s # r /\ "applied" \in Verdicts /\ Evaluated(s, "applied")
        BY <2>1, <2>2, <3>3
           DEF EvaluateCreate, RecordIsOwned, OwnedBy, ApplyCreate, ApplyDelete, Verdicts
      <4> QED
        BY <4>1, EvaluatedDoes
    <3> QED
      BY <2>1, <3>1, <3>2, <3>3, WhatSteps
  <2> QED
    BY <1>1, <2>1, <2>3
<1> QED
  BY <1>2, <1>3

\* Nothing has been told of no record before the first request.
LEMMA NoRecordInit == Init => NoRecordIsFinal
  BY DEF Init, NoRecordIsFinal, IdleRequest, Begun

\* What a client is told is what happened, whatever attempts or answers are
\* lost or late; after a 409 only the late attempts of a create that was sent
\* again can still take effect, after a 404 none can.
THEOREM AnswersStayTrue ==
    ASSUME RestoreAllowed = FALSE, ReusableIds = {}
    PROVE  Spec => []AnswersAreTrue
<1>1. TypeInv /\ RequestsAreSound /\ NoRecordIsFinal => AnswersAreTrue
  BY DEF RequestsAreSound, SoundRequest, NoRecordIsFinal, AnswersAreTrue
<1>2. TypeInv /\ RequestsAreSound /\ Life /\ [Next]_vars => Life'
  BY LifeStep
<1>3. TypeInv /\ RequestsAreSound /\ Life /\ NoRecordIsFinal /\ [Next]_vars
         => NoRecordIsFinal'
  BY NoRecordStep
<1> QED
  BY <1>1, <1>2, <1>3, NoRecordInit, LifeInit, TypeInit, TypeStep, SoundInit, SoundStep, PTL
     DEF Spec

\* A write is refused because of another project or another delete, never
\* because of an earlier attempt of its own whose answer was lost.
THEOREM RefusalsAreByOthers ==
    ASSUME RestoreAllowed = FALSE, ReusableIds = {}
    PROVE  Spec => RefusedByAnother
<1> DEFINE ByAnother ==
             \A r \in Requests :
                 /\ (req[r].call # "nameTaken" /\ req'[r].call = "nameTaken") =>
                       \E p \in ProjectIds \ {req[r].id} :
                           Live(p) /\ NameKeyOf[records[p].name] = KeyOf(r)
                 /\ (req[r].call # "noRecord" /\ req'[r].call = "noRecord") =>
                       \E d \in Requests \ {r} :
                           req[d].op = "delete" /\ req[d].applied /\ req[d].id = req[r].id
<1>1. TypeInv /\ NamesConsistent /\ Life /\ [Next]_vars => [ByAnother]_vars
  <2> SUFFICES ASSUME TypeInv, NamesConsistent, Life, [Next]_vars,
                      NEW r \in Requests, req'[r].call # req[r].call
               PROVE  /\ req'[r].call = "nameTaken" =>
                            \E p \in ProjectIds \ {req[r].id} :
                                Live(p) /\ NameKeyOf[records[p].name] = KeyOf(r)
                      /\ req'[r].call = "noRecord" =>
                            \E d \in Requests \ {r} :
                                req[d].op = "delete" /\ req[d].applied /\ req[d].id = req[r].id
    OBVIOUS
  <2>1. CASE req'[r].call = "nameTaken"
    <3>1. /\ req[r].op = "create" /\ ~NameIsFree(r) /\ OnItsWay(r) /\ ~req[r].applied
      BY <2>1, WhoseVerdict
    <3>2. KeyOf(r) \in NameKeys
      BY <3>1, OnItsWayIsComplete, NameKeyOfType DEF KeyOf
    <3> DEFINE p == reservations[KeyOf(r)]
    <3>3. p \in ProjectIds /\ Live(p) /\ NameKeyOf[records[p].name] = KeyOf(r)
      BY <3>1, <3>2
         DEF NameIsFree, NamesConsistent, EveryReservationIsHeld, TypeInv, TypeOK
    <3>4. p # req[r].id
      BY <3>1, <3>3 DEF Life, RecordsStemFromCreates, OneCreatePerId, Created
    <3> QED
      BY <2>1, <3>3, <3>4
  <2>2. CASE req'[r].call = "noRecord"
    <3>1. /\ req[r].op = "delete" /\ ~RecordIsOwned(r) /\ OnItsWay(r) /\ ~req[r].applied
      BY <2>2, WhoseVerdict
    <3> QED
      BY <2>2, <3>1, NoRecordMeansDeleted
  <2> QED
    BY <2>1, <2>2
<1>2. TypeInv /\ RequestsAreSound /\ Life /\ [Next]_vars => Life'
  BY LifeStep
<1>3. Spec => []NamesConsistent
  BY NamesStayConsistent
<1> QED
  BY <1>1, <1>2, <1>3, LifeInit, TypeInit, TypeStep, SoundInit, SoundStep, PTL
     DEF Spec, RefusedByAnother

\* The "name reservation does not point at the project being deleted" branch
\* of delete is never taken: as long as the record is there, it has the name
\* the delete has read, and so its reservation.
THEOREM NoMismatchIsSeen ==
    ASSUME RestoreAllowed = FALSE, ReusableIds = {}
    PROVE  Spec => []MismatchNeverSeen
<1>1. TypeInv /\ RequestsAreSound /\ Life /\ [Next]_vars => Life'
  BY LifeStep
<1>2. TypeInv /\ NamesConsistent /\ [Next]_vars => NamesConsistent'
  BY NamesStep
<1>3. Init => NamesConsistent /\ MismatchNeverSeen
  BY DEF Init, NamesConsistent, EveryProjectHoldsItsName, EveryReservationIsHeld,
         MismatchNeverSeen, IdleRequest, Begun
<1>4. TypeInv /\ NamesConsistent /\ Life /\ MismatchNeverSeen /\ [Next]_vars => MismatchNeverSeen'
  <2> SUFFICES ASSUME TypeInv, NamesConsistent, Life, MismatchNeverSeen, [Next]_vars,
                      NEW r \in Requests, req'[r].call = "mismatch"
               PROVE  FALSE
    BY DEF MismatchNeverSeen
  <2>1. /\ req[r].op = "delete" /\ OnItsWay(r)
        /\ RecordIsOwned(r) /\ ~NameIsReserved(r)
    BY WhoseVerdict DEF MismatchNeverSeen
  <2>2. req[r].id \in ProjectIds /\ req[r].name # Absent /\ Live(req[r].id)
    BY <2>1, OnItsWayIsComplete, AbsentIsNoItem DEF RecordIsOwned, OwnedBy
  <2>3. records[req[r].id].name = req[r].name
    BY <2>1, <2>2 DEF Life, DeletesStemFromCreates, RecordsStemFromCreates, OneCreatePerId, Created
  <2> QED
    BY <2>1, <2>2, <2>3 DEF NamesConsistent, EveryProjectHoldsItsName, NameIsReserved, KeyOf
<1> QED
  BY <1>1, <1>2, <1>3, <1>4, LifeInit, TypeInit, TypeStep, SoundInit, SoundStep, PTL DEF Spec

\* A project that was acknowledged is found by its owner until a delete of it
\* takes effect: the read is consistent, and the record is there.
THEOREM ReadsSeeCreates ==
    ASSUME RestoreAllowed = FALSE, ReusableIds = {}
    PROVE  Spec => ReadYourCreate
<1> DEFINE Seen ==
             \A g, c \in Requests :
                 (/\ req[g].pc = "read" /\ req'[g].answer = "notFound"
                  /\ req[c].answer = "created" /\ req[c].id = req[g].id
                  /\ req[c].caller = req[g].caller) => WasDeleted(req[c].id)
<1>1. TypeInv /\ RequestsAreSound /\ AckedCreateIsDurable /\ [Next]_vars => [Seen]_vars
  <2> SUFFICES ASSUME TypeInv, RequestsAreSound, AckedCreateIsDurable, [Next]_vars,
                      NEW g \in Requests, NEW c \in Requests,
                      req[g].pc = "read", req'[g].answer = "notFound",
                      req[c].answer = "created", req[c].id = req[g].id,
                      req[c].caller = req[g].caller, ~WasDeleted(req[c].id)
               PROVE  FALSE
    OBVIOUS
  <2>1. OwnedBy(req[g].id, req[g].caller)
    BY DEF AckedCreateIsDurable, OwnedBy
  <2>2. /\ req[g] \in Request /\ req[g].answer = "none" /\ ~OnItsWay(g)
        /\ req \in [Requests -> Request]
    BY DEF TypeInv, TypeOK, RequestsAreSound, SoundRequest, ReadsAreComplete,
           LateOnesAreEarlier, OnItsWay
  <2>3. PICK r \in Requests : Handler(r) \/ Environment(r)
    BY <2>2 DEF Next, vars
  <2>4. ~EvaluateCreate(r) /\ ~EvaluateDelete(r) /\ ~Conflict(r)
    <3>1. ASSUME NEW verdict \in Verdicts, Evaluated(r, verdict), OnItsWay(r)
          PROVE  FALSE
      <4>1. r # g
        BY <2>2, <3>1
      <4> QED
        BY <2>2, <3>1, <4>1, EvaluatedDoes
    <3> QED
      BY <3>1 DEF EvaluateCreate, EvaluateDelete, ApplyCreate, ApplyDelete, Conflict, Overlap,
                  Verdicts
  <2>5. ReadRecord(g) \/ ReadFails(g) \/ Crash(g)
    <3>1. r = g
      BY <2>2, <2>3, <2>4 DEF Handler, Environment, StartCreate, StartById, ReadRecord,
         ReadFails, Receive, Retry, GiveUp, Crash, RestoreRecord, RestoreReservation
    <3> QED
      BY <2>2, <2>3, <2>4, <3>1 DEF Handler, Environment, StartCreate, StartById, Receive,
         Retry, GiveUp, RestoreRecord, RestoreReservation
  <2> QED
    BY <2>1, <2>2, <2>5 DEF ReadRecord, ReadFails, Crash, Request, TypeInv, TypeOK
<1>2. Spec => []AckedCreateIsDurable
  BY AckedCreatesStay
<1> QED
  BY <1>1, <1>2, TypeInit, TypeStep, SoundInit, SoundStep, PTL DEF Spec, ReadYourCreate

-----------------------------------------------------------------------------
(***************************************************************************)
(* The registry: items, reservations, transactions and answers implement   *)
(* ProjectRegistry.                                                        *)
(***************************************************************************)

\* Only the mapped fields of the request that takes a step change.
LEMMA BarsFollow ==
    ASSUME TypeInv, NEW r \in Requests, NEW q, req' = [req EXCEPT ![r] = q]
    PROVE  /\ AskedBar' = [AskedBar EXCEPT ![r] = AskedOf(q)]
           /\ DoneBar' = IF q.applied THEN DoneBar \cup {r} ELSE DoneBar \ {r}
           /\ RefusedBar' = IF IsRefused(q) THEN RefusedBar \cup {r} ELSE RefusedBar \ {r}
           /\ RepeatedBar' = IF q.attempts > 1 THEN RepeatedBar \cup {r} ELSE RepeatedBar \ {r}
           /\ SaidBar' = [SaidBar EXCEPT ![r] = SaidOf(q)]
           /\ AskedOf(q) = AskedOf(req[r]) => AskedBar' = AskedBar
           /\ (q.applied <=> req[r].applied) => DoneBar' = DoneBar
           /\ (IsRefused(q) <=> IsRefused(req[r])) => RefusedBar' = RefusedBar
           /\ (q.attempts > 1 <=> req[r].attempts > 1) => RepeatedBar' = RepeatedBar
           /\ SaidOf(q) = SaidOf(req[r]) => SaidBar' = SaidBar
<1>1. \A s \in Requests : req'[s] = IF s = r THEN q ELSE req[s]
  BY DEF TypeInv, TypeOK
<1>2. /\ AskedBar' = [AskedBar EXCEPT ![r] = AskedOf(q)]
      /\ AskedOf(q) = AskedOf(req[r]) => AskedBar' = AskedBar
  <2>1. \A s \in Requests : AskedBar'[s] = IF s = r THEN AskedOf(q) ELSE AskedBar[s]
    BY <1>1 DEF AskedBar, AskedOf
  <2>2. /\ DOMAIN AskedBar = Requests /\ AskedBar = [s \in Requests |-> AskedBar[s]]
        /\ AskedBar' = [s \in Requests |-> AskedBar'[s]]
        /\ AskedBar[r] = AskedOf(req[r])
    BY DEF AskedBar
  <2> QED
    BY <2>1, <2>2
<1>3. /\ DoneBar' = IF q.applied THEN DoneBar \cup {r} ELSE DoneBar \ {r}
      /\ (q.applied <=> req[r].applied) => DoneBar' = DoneBar
  BY <1>1 DEF DoneBar
<1>4. /\ RefusedBar' = IF IsRefused(q) THEN RefusedBar \cup {r} ELSE RefusedBar \ {r}
      /\ (IsRefused(q) <=> IsRefused(req[r])) => RefusedBar' = RefusedBar
  BY <1>1 DEF RefusedBar, IsRefused
<1>5. /\ RepeatedBar' = IF q.attempts > 1 THEN RepeatedBar \cup {r} ELSE RepeatedBar \ {r}
      /\ (q.attempts > 1 <=> req[r].attempts > 1) => RepeatedBar' = RepeatedBar
  BY <1>1 DEF RepeatedBar
<1>6. /\ SaidBar' = [SaidBar EXCEPT ![r] = SaidOf(q)]
      /\ SaidOf(q) = SaidOf(req[r]) => SaidBar' = SaidBar
  <2>1. \A s \in Requests : SaidBar'[s] = IF s = r THEN SaidOf(q) ELSE SaidBar[s]
    BY <1>1 DEF SaidBar, SaidOf
  <2>2. /\ DOMAIN SaidBar = Requests /\ SaidBar = [s \in Requests |-> SaidBar[s]]
        /\ SaidBar' = [s \in Requests |-> SaidBar'[s]]
        /\ SaidBar[r] = SaidOf(req[r])
    BY DEF SaidBar
  <2> QED
    BY <2>1, <2>2
<1> QED
  BY <1>2, <1>3, <1>4, <1>5, <1>6

\* A step that leaves the mapped fields and the records alone is a stutter.
LEMMA Stutters ==
    ASSUME TypeInv, NEW r \in Requests, NEW q, req' = [req EXCEPT ![r] = q],
           AskedOf(q) = AskedOf(req[r]), q.applied <=> req[r].applied,
           IsRefused(q) <=> IsRefused(req[r]), q.attempts > 1 <=> req[r].attempts > 1,
           SaidOf(q) = SaidOf(req[r]), UNCHANGED records
    PROVE  UNCHANGED Registry!vars
<1>1. ProjectsBar' = ProjectsBar
  BY DEF ProjectsBar
<1>2. /\ AskedBar' = AskedBar /\ DoneBar' = DoneBar /\ RefusedBar' = RefusedBar
      /\ RepeatedBar' = RepeatedBar /\ SaidBar' = SaidBar
  BY BarsFollow
<1> QED
  BY <1>1, <1>2 DEF Registry!vars

\* The registry's ownership test is that of the table.
LEMMA OwnedIsOwnedBy ==
    ASSUME TypeInv, NEW r \in Requests
    PROVE  Registry!Owned(r) <=> req[r].id \in ProjectIds /\ OwnedBy(req[r].id, req[r].caller)
<1>1. AskedBar[r].id = req[r].id /\ AskedBar[r].caller = req[r].caller
  BY DEF AskedBar, AskedOf
<1>2. ASSUME NEW p \in ProjectIds
      PROVE  /\ ProjectsBar[p] # Absent <=> Live(p)
             /\ Live(p) => ProjectsBar[p].owner = records[p].owner
  <2>1. Live(p) => [owner |-> records[p].owner, name |-> records[p].name]
                       \in [owner: Owners, name: Names]
    BY DEF TypeInv, TypeOK, ProjectItem
  <2> QED
    BY <2>1, AbsentIsNoProject DEF ProjectsBar, ProjectOf
<1> QED
  BY <1>1, <1>2 DEF Registry!Owned, OwnedBy

\* An id is free in the registry when it is in the table.
LEMMA IdsAreFreeTogether ==
    ASSUME TypeInv, NEW p \in ProjectIds
    PROVE  ProjectsBar[p] = Absent <=> ~Live(p)
<1>1. Live(p) => [owner |-> records[p].owner, name |-> records[p].name]
                     \in [owner: Owners, name: Names]
  BY DEF TypeInv, TypeOK, ProjectItem
<1> QED
  BY <1>1, AbsentIsNoProject DEF ProjectsBar, ProjectOf

\* A name is taken in the registry when its reservation is.
LEMMA TakenIsReserved ==
    ASSUME TypeInv, NamesConsistent, NEW name \in Names
    PROVE  Registry!NameIsTaken(name) <=> reservations[NameKeyOf[name]] # Absent
<1>1. ASSUME NEW p \in ProjectIds
      PROVE  /\ ProjectsBar[p] # Absent <=> Live(p)
             /\ Live(p) => ProjectsBar[p].name = records[p].name
  <2>1. Live(p) => [owner |-> records[p].owner, name |-> records[p].name]
                       \in [owner: Owners, name: Names]
    BY DEF TypeInv, TypeOK, ProjectItem
  <2> QED
    BY <2>1, AbsentIsNoProject DEF ProjectsBar, ProjectOf
<1>2. NameKeyOf[name] \in NameKeys
  BY NameKeyOfType
<1>3. ASSUME Registry!NameIsTaken(name)
      PROVE  reservations[NameKeyOf[name]] # Absent
  BY <1>1, <1>3, AbsentIsNoItem
     DEF Registry!NameIsTaken, NamesConsistent, EveryProjectHoldsItsName
<1>4. ASSUME reservations[NameKeyOf[name]] # Absent
      PROVE  Registry!NameIsTaken(name)
  <2>1. reservations[NameKeyOf[name]] \in ProjectIds
    BY <1>2, <1>4 DEF TypeInv, TypeOK
  <2> QED
    BY <1>1, <1>2, <1>4, <2>1
       DEF Registry!NameIsTaken, NamesConsistent, EveryReservationIsHeld
<1> QED
  BY <1>3, <1>4

-----------------------------------------------------------------------------
(***************************************************************************)
(* Answers.  A request that is answered while it reads or writes maps to   *)
(* what the registry says to its client.                                   *)
(***************************************************************************)
\* Nothing but what was said changes.
LEMMA ReplyIsSaid ==
    ASSUME TypeInv, RequestsAreSound, NEW r \in Requests, NEW answer \in Answers,
           Reply(r, answer), req[r].pc \in {"read", "write"}, UNCHANGED records
    PROVE  /\ UNCHANGED <<ProjectsBar, AskedBar, DoneBar, RefusedBar, RepeatedBar>>
           /\ SaidBar' = [SaidBar EXCEPT ![r] = SaidOf([answer |-> answer])]
           /\ SaidBar[r] = "nothing"
           /\ AskedBar[r] # Registry!Unasked
<1> DEFINE q == [req[r] EXCEPT !.pc = "done", !.answer = answer]
<1>1. req[r] \in Request /\ req[r].answer = "none"
      /\ req[r].op \in {"create", "get", "delete"}
  BY DEF TypeInv, TypeOK, RequestsAreSound, SoundRequest, CallsAreComplete, ReadsAreComplete
<1>2. req' = [req EXCEPT ![r] = q]
  OBVIOUS
<1>3. /\ AskedOf(q) = AskedOf(req[r]) /\ q.applied = req[r].applied
      /\ IsRefused(q) <=> IsRefused(req[r])
      /\ q.attempts = req[r].attempts
      /\ SaidOf(q) = SaidOf([answer |-> answer])
  BY <1>1 DEF AskedOf, IsRefused, SaidOf, Request
<1>4. ProjectsBar' = ProjectsBar
  BY DEF ProjectsBar
<1> HIDE DEF q
<1>5. /\ AskedBar' = AskedBar /\ DoneBar' = DoneBar /\ RefusedBar' = RefusedBar
      /\ RepeatedBar' = RepeatedBar /\ SaidBar' = [SaidBar EXCEPT ![r] = SaidOf(q)]
  BY <1>2, <1>3, BarsFollow
<1>6. SaidBar[r] = "nothing"
  BY <1>1 DEF SaidBar, SaidOf
<1>7. AskedBar[r] # Registry!Unasked
  BY <1>1 DEF AskedBar, AskedOf, Registry!Unasked
<1> QED
  BY <1>3, <1>4, <1>5, <1>6, <1>7

\* An error or a lost answer tells the client nothing definite.
LEMMA ErrorsSayUnknown ==
    ASSUME TypeInv, RequestsAreSound, NEW r \in Requests, NEW answer \in {"error", "lost"},
           Reply(r, answer), req[r].pc \in {"read", "write"}, UNCHANGED records
    PROVE  Registry!SayUnknown(r)
<1>1. answer \in Answers /\ SaidOf([answer |-> answer]) = "unknown"
  BY DEF Answers, SaidOf
<1>2. /\ UNCHANGED <<ProjectsBar, AskedBar, DoneBar, RefusedBar, RepeatedBar>>
      /\ SaidBar' = [SaidBar EXCEPT ![r] = SaidOf([answer |-> answer])]
      /\ SaidBar[r] = "nothing"
      /\ AskedBar[r] # Registry!Unasked
  BY <1>1, ReplyIsSaid
<1> QED
  BY <1>1, <1>2 DEF Registry!SayUnknown

\* A definite answer is a yes or a no, if the registry could give it.
LEMMA RepliesSayYes ==
    ASSUME TypeInv, RequestsAreSound, NEW r \in Requests,
           NEW answer \in {"created", "found", "deleted"},
           Reply(r, answer), req[r].pc \in {"read", "write"}, UNCHANGED records,
           r \in DoneBar \/ (AskedBar[r].op = "get" /\ Registry!Owned(r))
    PROVE  Registry!SayYes(r)
<1>1. answer \in Answers /\ SaidOf([answer |-> answer]) = "yes"
  BY DEF Answers, SaidOf
<1>2. /\ UNCHANGED <<ProjectsBar, AskedBar, DoneBar, RefusedBar, RepeatedBar>>
      /\ SaidBar' = [SaidBar EXCEPT ![r] = SaidOf([answer |-> answer])]
      /\ SaidBar[r] = "nothing"
  BY <1>1, ReplyIsSaid
<1> QED
  BY <1>1, <1>2 DEF Registry!SayYes

LEMMA RepliesSayNo ==
    ASSUME TypeInv, RequestsAreSound, NEW r \in Requests,
           NEW answer \in {"nameTaken", "notFound"},
           Reply(r, answer), req[r].pc \in {"read", "write"}, UNCHANGED records,
           r \in RefusedBar \/ (r \notin DoneBar /\ Registry!Hopeless(r))
    PROVE  Registry!SayNo(r)
<1>1. answer \in Answers /\ SaidOf([answer |-> answer]) = "no"
  BY DEF Answers, SaidOf
<1>2. /\ UNCHANGED <<ProjectsBar, AskedBar, DoneBar, RefusedBar, RepeatedBar>>
      /\ SaidBar' = [SaidBar EXCEPT ![r] = SaidOf([answer |-> answer])]
      /\ SaidBar[r] = "nothing"
      /\ AskedBar[r] # Registry!Unasked
  BY <1>1, ReplyIsSaid
<1> QED
  BY <1>1, <1>2 DEF Registry!SayNo

\* Reading: an answer, or a delete that goes on unnoticed.
LEMMA ReadRefines ==
    ASSUME TypeInv, RequestsAreSound, NEW r \in Requests, ReadRecord(r)
    PROVE  Registry!SayNo(r) \/ Registry!SayYes(r) \/ UNCHANGED Registry!vars
<1>1. /\ req[r] \in Request /\ req[r].pc = "read" /\ req[r].call = "none"
      /\ req[r].applied = FALSE /\ req[r].op \in {"get", "delete"} /\ req[r].id \in ProjectIds
      /\ UNCHANGED records
  BY DEF ReadRecord, TypeInv, TypeOK, RequestsAreSound, SoundRequest, ReadsAreComplete, Request
<1>2. AskedBar[r].op = req[r].op /\ r \notin DoneBar
  BY <1>1 DEF AskedBar, AskedOf, DoneBar
<1>3. CASE ~OwnedBy(req[r].id, req[r].caller) /\ Reply(r, "notFound")
  <2>1. Registry!Hopeless(r)
    BY <1>1, <1>2, <1>3, OwnedIsOwnedBy DEF Registry!Hopeless
  <2> QED
    BY <1>1, <1>2, <1>3, <2>1, RepliesSayNo
<1>4. CASE OwnedBy(req[r].id, req[r].caller) /\ req[r].op = "get" /\ Reply(r, "found")
  <2>1. Registry!Owned(r)
    BY <1>1, <1>4, OwnedIsOwnedBy
  <2> QED
    BY <1>1, <1>2, <1>4, <2>1, RepliesSayYes
<1>5. CASE req[r].op = "delete"
           /\ req' = [req EXCEPT ![r].name = records[req[r].id].name,
                        ![r].pc = "write", ![r].call = "sent", ![r].attempts = 1]
  <2> DEFINE q == [req[r] EXCEPT !.name = records[req[r].id].name,
                     !.pc = "write", !.call = "sent", !.attempts = 1]
  <2>1. req' = [req EXCEPT ![r] = q]
    BY <1>5, Zenon
  <2>2. req[r].attempts = 0
    BY <1>1 DEF TypeInv, LateOnesAreEarlier
  <2>3. /\ AskedOf(q) = AskedOf(req[r]) /\ q.applied = req[r].applied
        /\ IsRefused(q) <=> IsRefused(req[r])
        /\ q.attempts > 1 <=> req[r].attempts > 1
        /\ SaidOf(q) = SaidOf(req[r])
    BY <1>1, <1>5, <2>2 DEF AskedOf, IsRefused, SaidOf, Request
  <2> QED
    BY <1>1, <2>1, <2>3, Stutters
<1> QED
  BY <1>3, <1>4, <1>5 DEF ReadRecord

-----------------------------------------------------------------------------
(***************************************************************************)
(* The table's evaluation of an attempt is the moment of the effect.       *)
(***************************************************************************)

\* An evaluation that writes nothing is a refusal, if it is of the last
\* attempt and of a condition on what was asked, and else goes unnoticed.
LEMMA VerdictRefines ==
    ASSUME TypeInv, NEW r \in Requests, NEW verdict \in Verdicts, Evaluated(r, verdict),
           verdict = "applied" => req[r].applied,
           verdict \in {"nameTaken", "idTaken", "noRecord"} =>
               ~req[r].applied /\ Registry!Hopeless(r),
           UNCHANGED records
    PROVE  Registry!Refuse(r) \/ UNCHANGED Registry!vars
<1> DEFINE q == req'[r]
<1>1. /\ req' = [req EXCEPT ![r] = q]
      /\ q.op = req[r].op /\ q.caller = req[r].caller /\ q.id = req[r].id
      /\ q.name = req[r].name /\ q.answer = req[r].answer
      /\ q.attempts = req[r].attempts
      /\ \/ req[r].call = "sent" /\ q.call = verdict
         \/ q.call = req[r].call
  BY EvaluatedDoes
<1>2. q.applied = req[r].applied
  <2>1. /\ req[r] \in Request /\ q \in Request
        /\ q.applied <=> (req[r].applied \/ verdict = "applied")
    BY EvaluatedDoes DEF TypeInv, TypeOK
  <2> QED
    BY <2>1 DEF Request
<1>3. AskedOf(q) = AskedOf(req[r]) /\ SaidOf(q) = SaidOf(req[r])
      /\ (q.attempts > 1 <=> req[r].attempts > 1)
  BY <1>1 DEF AskedOf, SaidOf
<1> HIDE DEF q
<1>4. CASE IsRefused(q) <=> IsRefused(req[r])
  BY <1>1, <1>2, <1>3, <1>4, Stutters
<1>5. CASE ~(IsRefused(q) <=> IsRefused(req[r]))
  <2>1. /\ req[r].call = "sent" /\ q.call = verdict
        /\ verdict \in {"nameTaken", "idTaken", "noRecord"}
    BY <1>1, <1>5 DEF IsRefused
  <2>2. r \notin DoneBar /\ r \notin RefusedBar /\ Registry!Hopeless(r)
    BY <2>1 DEF DoneBar, RefusedBar, IsRefused
  <2>3. IsRefused(q)
    BY <2>1 DEF IsRefused
  <2>4. /\ AskedBar' = AskedBar /\ DoneBar' = DoneBar /\ RepeatedBar' = RepeatedBar
        /\ SaidBar' = SaidBar /\ RefusedBar' = RefusedBar \cup {r}
    BY <1>1, <1>2, <1>3, <2>3, BarsFollow
  <2>5. ProjectsBar' = ProjectsBar
    BY DEF ProjectsBar
  <2> QED
    BY <2>2, <2>3, <2>4, <2>5 DEF Registry!Refuse
<1> QED
  BY <1>4, <1>5

\* Applying a transaction is the effect of its request, and changes nothing
\* else about it.
LEMMA ApplyIsDone ==
    ASSUME TypeInv, NEW r \in Requests, ~req[r].applied, Evaluated(r, "applied")
    PROVE  /\ UNCHANGED <<AskedBar, RefusedBar, RepeatedBar, SaidBar>>
           /\ DoneBar' = DoneBar \cup {r}
           /\ r \notin DoneBar
<1> DEFINE q == req'[r]
<1>0. "applied" \in Verdicts
  BY DEF Verdicts
<1>1. /\ req' = [req EXCEPT ![r] = q] /\ q \in Request
      /\ q.op = req[r].op /\ q.caller = req[r].caller /\ q.id = req[r].id
      /\ q.name = req[r].name /\ q.answer = req[r].answer
      /\ q.attempts = req[r].attempts /\ q.applied
      /\ \/ req[r].call = "sent" /\ q.call = "applied"
         \/ q.call = req[r].call
  BY <1>0, EvaluatedDoes
<1>3. /\ AskedOf(q) = AskedOf(req[r]) /\ SaidOf(q) = SaidOf(req[r])
      /\ (q.attempts > 1 <=> req[r].attempts > 1)
      /\ IsRefused(q) <=> IsRefused(req[r])
  BY <1>1 DEF AskedOf, SaidOf, IsRefused
<1>4. r \notin DoneBar
  BY DEF DoneBar
<1> HIDE DEF q
<1>5. /\ AskedBar' = AskedBar /\ RefusedBar' = RefusedBar /\ RepeatedBar' = RepeatedBar
      /\ SaidBar' = SaidBar /\ DoneBar' = DoneBar \cup {r}
  BY <1>1, <1>3, BarsFollow
<1> QED
  BY <1>4, <1>5

\* A create is registered when it is applied, and refused when its name or
\* its id is taken.  One that was refused before is applied only by an
\* attempt that is late, so it had been sent again.
LEMMA CreateRefines ==
    ASSUME TypeInv, RequestsAreSound, NamesConsistent, NEW r \in Requests, EvaluateCreate(r)
    PROVE  Registry!Register(r) \/ Registry!Refuse(r) \/ UNCHANGED Registry!vars
<1> DEFINE new == req[r].id
<1>1. /\ req[r] \in Request /\ req[r].op = "create" /\ req[r].call # "none"
      /\ new \in ProjectIds /\ req[r].name \in Names /\ req[r].caller \in Owners
  BY OnItsWayIsComplete DEF EvaluateCreate
<1>2. AskedBar[r] = [op |-> "create", caller |-> req[r].caller, id |-> new, name |-> req[r].name]
  BY <1>1 DEF AskedBar, AskedOf
<1>3. Registry!NameIsTaken(req[r].name) <=> ~NameIsFree(r)
  BY <1>1, TakenIsReserved DEF NameIsFree, KeyOf
<1>4. ProjectsBar[new] = Absent <=> IdIsFree(r)
  BY <1>1, IdsAreFreeTogether DEF IdIsFree
<1>5. CASE ~TokenSeen(r) /\ NameIsFree(r) /\ IdIsFree(r) /\ ApplyCreate(r)
  <2>1. ProjectsBar' = [ProjectsBar EXCEPT ![new] =
                          [owner |-> req[r].caller, name |-> req[r].name]]
    <3>1. \A p \in ProjectIds :
              records'[p] = IF p = new THEN NewProject(req[r].caller, req[r].name)
                                       ELSE records[p]
      BY <1>1, <1>5 DEF ApplyCreate, TypeInv, TypeOK
    <3>2. ProjectOf(NewProject(req[r].caller, req[r].name))
             = [owner |-> req[r].caller, name |-> req[r].name]
      BY <1>1, NewProjectType, AbsentIsNoItem DEF ProjectOf, NewProject
    <3> QED
      BY <3>1, <3>2 DEF ProjectsBar, ProjectOf
  <2>2. /\ UNCHANGED <<AskedBar, RefusedBar, RepeatedBar, SaidBar>>
        /\ DoneBar' = DoneBar \cup {r} /\ r \notin DoneBar
    BY <1>5, ApplyIsDone DEF ApplyCreate, TokenSeen
  <2>3. r \in RefusedBar \/ SaidBar[r] = "no" => r \in RepeatedBar
    <3>1. SaidBar[r] = "no" => r \in RefusedBar
      BY <1>1 DEF SaidBar, SaidOf, RefusedBar, IsRefused, RequestsAreSound, SoundRequest, Request
    <3>2. r \in RefusedBar => req[r].late > 0 /\ req[r].late < req[r].attempts
      BY <1>1 DEF RefusedBar, IsRefused, EvaluateCreate, OnItsWay, TypeInv, LateOnesAreEarlier
    <3>3. r \in RefusedBar => req[r].attempts > 1
      BY <1>1, <3>2 DEF Request
    <3> QED
      BY <3>1, <3>3 DEF RepeatedBar
  <2> QED
    BY <1>2, <1>3, <1>4, <1>5, <2>1, <2>2, <2>3 DEF Registry!Register
<1>6. CASE UNCHANGED records /\ \E verdict \in {"nameTaken", "idTaken"} :
              /\ Evaluated(r, verdict) /\ ~TokenSeen(r)
              /\ ~NameIsFree(r) \/ ~IdIsFree(r)
  <2>1. Registry!Hopeless(r)
    BY <1>2, <1>3, <1>4, <1>6 DEF Registry!Hopeless
  <2> QED
    BY <1>6, <2>1, VerdictRefines DEF TokenSeen, Verdicts
<1>7. CASE TokenSeen(r) /\ Evaluated(r, "applied") /\ UNCHANGED records
  BY <1>7, VerdictRefines DEF TokenSeen, Verdicts
<1> QED
  BY <1>5, <1>6, <1>7 DEF EvaluateCreate

\* A delete removes when it is applied, and is refused without the record;
\* it is never applied after that.
LEMMA DeleteRefines ==
    ASSUME TypeInv, RequestsAreSound, Life, NoRecordIsFinal, NEW r \in Requests,
           EvaluateDelete(r)
    PROVE  Registry!Remove(r) \/ Registry!Refuse(r) \/ UNCHANGED Registry!vars
<1> DEFINE old == req[r].id
<1>1. /\ req[r] \in Request /\ req[r].op = "delete" /\ req[r].call # "none"
      /\ old \in ProjectIds
  BY OnItsWayIsComplete DEF EvaluateDelete
<1>2. AskedBar[r].op = "delete" /\ AskedBar[r].id = old
  BY <1>1 DEF AskedBar, AskedOf
<1>3. Registry!Owned(r) <=> RecordIsOwned(r)
  BY <1>1, OwnedIsOwnedBy DEF RecordIsOwned
<1>4. CASE ~TokenSeen(r) /\ RecordIsOwned(r) /\ ApplyDelete(r)
  <2>1. ProjectsBar' = [ProjectsBar EXCEPT ![old] = Absent]
    <3>1. \A p \in ProjectIds : records'[p] = IF p = old THEN Absent ELSE records[p]
      BY <1>1, <1>4 DEF ApplyDelete, TypeInv, TypeOK
    <3> QED
      BY <3>1 DEF ProjectsBar, ProjectOf
  <2>2. /\ UNCHANGED <<AskedBar, RefusedBar, RepeatedBar, SaidBar>>
        /\ DoneBar' = DoneBar \cup {r} /\ r \notin DoneBar
    BY <1>4, ApplyIsDone DEF ApplyDelete, TokenSeen
  <2>3. r \notin RefusedBar /\ SaidBar[r] # "no"
    <3>1. req[r].call # "noRecord"
      BY <1>4 DEF NoRecordIsFinal, WasDeleted, Life, GoneMeansDeleted, Deleted, RecordIsOwned,
                  OwnedBy
    <3>2. req[r].call \notin {"nameTaken", "idTaken", "noRecord"}
          /\ req[r].answer \notin {"nameTaken", "notFound"}
      BY <1>1, <3>1 DEF RequestsAreSound, SoundRequest
    <3> QED
      BY <1>1, <3>2 DEF RefusedBar, IsRefused, SaidBar, SaidOf
  <2> QED
    BY <1>2, <1>3, <1>4, <2>1, <2>2, <2>3 DEF Registry!Remove
<1>5. CASE ~TokenSeen(r) /\ ~RecordIsOwned(r) /\ Evaluated(r, "noRecord") /\ UNCHANGED records
  <2>1. Registry!Hopeless(r)
    BY <1>2, <1>3, <1>5 DEF Registry!Hopeless
  <2> QED
    BY <1>5, <2>1, VerdictRefines DEF TokenSeen, Verdicts
<1>6. CASE TokenSeen(r) /\ Evaluated(r, "applied") /\ UNCHANGED records
  BY <1>6, VerdictRefines DEF TokenSeen, Verdicts
<1>7. CASE Evaluated(r, "mismatch") /\ UNCHANGED records
  BY <1>7, VerdictRefines DEF Verdicts
<1> QED
  BY <1>4, <1>5, <1>6, <1>7 DEF EvaluateDelete

-----------------------------------------------------------------------------
\* The handler gets its verdict: the client is told, or nothing is certain.
LEMMA ReceiveRefines ==
    ASSUME TypeInv, RequestsAreSound, NEW r \in Requests, Receive(r)
    PROVE  Registry!SayYes(r) \/ Registry!SayNo(r) \/ Registry!SayUnknown(r)
<1>1. PICK listed \in BOOLEAN : Reply(r, AnswerTo(r, listed))
  BY DEF Receive
<1> DEFINE answer == AnswerTo(r, listed)
<1>2. /\ req[r] \in Request /\ SoundRequest(req[r]) /\ req[r].pc = "write"
      /\ req[r].op \in {"create", "delete"} /\ UNCHANGED records
  BY DEF Receive, TypeInv, TypeOK, RequestsAreSound, CallsAreComplete
<1>3. \/ answer \in {"created", "deleted"} /\ req[r].call = "applied"
      \/ answer \in {"nameTaken", "notFound"}
         /\ req[r].call \in {"nameTaken", "idTaken", "noRecord"}
      \/ answer = "error"
  BY <1>2 DEF AnswerTo
<1> HIDE DEF answer
<1>4. Reply(r, answer)
  BY <1>1 DEF answer
<1>5. CASE answer \in {"created", "deleted"} /\ req[r].call = "applied"
  <2>1. r \in DoneBar
    BY <1>2, <1>5 DEF DoneBar, SoundRequest
  <2> QED
    BY <1>2, <1>4, <1>5, <2>1, RepliesSayYes
<1>6. CASE answer \in {"nameTaken", "notFound"}
           /\ req[r].call \in {"nameTaken", "idTaken", "noRecord"}
  <2>1. r \in RefusedBar
    BY <1>6 DEF RefusedBar, IsRefused
  <2> QED
    BY <1>2, <1>4, <1>6, <2>1, RepliesSayNo
<1>7. CASE answer = "error"
  BY <1>2, <1>4, <1>7, ErrorsSayUnknown
<1> QED
  BY <1>3, <1>5, <1>6, <1>7

\* Sending the call again is asking again, whatever became of it so far.
LEMMA RetryRefines ==
    ASSUME TypeInv, RequestsAreSound, NEW r \in Requests, Retry(r)
    PROVE  Registry!Repeat(r)
<1> DEFINE q == [req[r] EXCEPT !.call = "sent", !.attempts = req[r].attempts + 1,
                   !.late = LateNow(r)]
<1>1. /\ req[r] \in Request /\ SoundRequest(req[r]) /\ req[r].pc = "write"
      /\ req[r].op \in {"create", "delete"} /\ UNCHANGED records
      /\ req[r].attempts \in Nat /\ req[r].attempts > 0
  BY DEF Retry, TypeInv, TypeOK, CallsAreComplete, LateOnesAreEarlier, RequestsAreSound,
         SoundRequest, Request
<1>2. req' = [req EXCEPT ![r] = q]
  BY Zenon DEF Retry
<1>3. /\ AskedOf(q) = AskedOf(req[r]) /\ SaidOf(q) = SaidOf(req[r])
      /\ q.applied = req[r].applied /\ SaidOf(req[r]) = "nothing"
      /\ ~IsRefused(q) /\ q.attempts > 1
  BY <1>1 DEF AskedOf, SaidOf, IsRefused, Request, SoundRequest
<1>4. AskedBar[r].op \in {"create", "delete"} /\ SaidBar[r] = "nothing"
  BY <1>1, <1>3 DEF AskedBar, AskedOf, SaidBar
<1>5. ProjectsBar' = ProjectsBar
  BY <1>1 DEF ProjectsBar
<1> HIDE DEF q
<1>6. /\ AskedBar' = AskedBar /\ SaidBar' = SaidBar /\ DoneBar' = DoneBar
      /\ RefusedBar' = RefusedBar \ {r} /\ RepeatedBar' = RepeatedBar \cup {r}
  BY <1>2, <1>3, BarsFollow
<1> QED
  BY <1>3, <1>4, <1>5, <1>6 DEF Registry!Repeat

\* A request that starts is one that is asked for; a malformed id is refused.
LEMMA StartRefines ==
    ASSUME TypeInv, RequestsAreSound, NEW r \in Requests, StartCreate(r) \/ StartById(r)
    PROVE  Registry!AskCreate(r) \/ Registry!AskById(r)
<1>1. req[r] = IdleRequest /\ UNCHANGED records
  BY DEF StartCreate, StartById, RequestsAreSound, SoundRequest
<1>2. /\ AskedBar[r] = Registry!Unasked /\ SaidBar[r] = "nothing"
      /\ req[r].applied = FALSE /\ ~IsRefused(req[r]) /\ ~(req[r].attempts > 1)
      /\ SaidOf(req[r]) = "nothing"
      /\ ProjectsBar' = ProjectsBar
  BY <1>1 DEF IdleRequest, Begun, AskedBar, AskedOf, SaidBar, SaidOf, IsRefused,
              Registry!Unasked, ProjectsBar
<1>3. CASE StartCreate(r)
  <2>1. PICK caller \in Owners, name \in Names, id \in FreshIds :
            req' = [req EXCEPT ![r] = Begun("create", caller, id, name, "write")]
    BY <1>3 DEF StartCreate
  <2> DEFINE q == Begun("create", caller, id, name, "write")
  <2>r. req' = [req EXCEPT ![r] = q]
    BY <2>1
  <2>2. id \in ProjectIds
    BY ReusableIdsType DEF FreshIds
  <2>3. AskedOf(q) = [op |-> "create", caller |-> caller, id |-> id, name |-> name]
        /\ q.applied = FALSE /\ ~IsRefused(q) /\ ~(q.attempts > 1) /\ SaidOf(q) = "nothing"
    BY DEF Begun, AskedOf, IsRefused, SaidOf
  <2>4. AskedBar' = [AskedBar EXCEPT ![r] =
                       [op |-> "create", caller |-> caller, id |-> id, name |-> name]]
        /\ UNCHANGED <<DoneBar, RefusedBar, RepeatedBar, SaidBar>>
    <3> HIDE DEF q
    <3>1. AskedBar' = [AskedBar EXCEPT ![r] = AskedOf(q)]
      BY <2>r, BarsFollow
    <3>2. DoneBar' = DoneBar
      BY <1>2, <2>r, <2>3, BarsFollow
    <3>3. RefusedBar' = RefusedBar
      BY <1>2, <2>r, <2>3, BarsFollow
    <3>4. RepeatedBar' = RepeatedBar
      BY <1>2, <2>r, <2>3, BarsFollow
    <3>5. SaidBar' = SaidBar
      BY <1>2, <2>r, <2>3, BarsFollow
    <3> QED
      BY <2>3, <3>1, <3>2, <3>3, <3>4, <3>5
  <2> QED
    BY <1>2, <2>2, <2>4 DEF Registry!AskCreate
<1>4. CASE StartById(r)
  <2>1. PICK caller \in Owners, id \in ProjectIds \cup {Absent}, op \in {"get", "delete"} :
            req' = [req EXCEPT ![r] =
                      Begun(op, caller, id, Absent,
                            IF IsValidProjectId(id) THEN "read" ELSE "done")]
    BY <1>4 DEF StartById
  <2> DEFINE q == Begun(op, caller, id, Absent,
                        IF IsValidProjectId(id) THEN "read" ELSE "done")
  <2>r. req' = [req EXCEPT ![r] = q]
    BY <2>1
  <2>2. AskedOf(q) = [op |-> op, caller |-> caller, id |-> id, name |-> Absent]
        /\ q.applied = FALSE /\ ~IsRefused(q) /\ ~(q.attempts > 1)
    BY DEF Begun, AskedOf, IsRefused
  <2>3. SaidOf(q) = IF id = Absent THEN "no" ELSE "nothing"
    BY AbsentIsNoItem DEF Begun, SaidOf, IsValidProjectId
  <2>4. AskedBar' = [AskedBar EXCEPT ![r] =
                       [op |-> op, caller |-> caller, id |-> id, name |-> Absent]]
        /\ UNCHANGED <<DoneBar, RefusedBar, RepeatedBar>>
        /\ SaidBar' = IF id = Absent THEN [SaidBar EXCEPT ![r] = "no"] ELSE SaidBar
    <3>s. [SaidBar EXCEPT ![r] = "nothing"] = SaidBar
      BY <1>2 DEF SaidBar
    <3> HIDE DEF q
    <3>1. /\ AskedBar' = [AskedBar EXCEPT ![r] = AskedOf(q)]
          /\ SaidBar' = [SaidBar EXCEPT ![r] = SaidOf(q)]
      BY <2>r, BarsFollow
    <3>2. DoneBar' = DoneBar
      BY <1>2, <2>r, <2>2, BarsFollow
    <3>3. RefusedBar' = RefusedBar
      BY <1>2, <2>r, <2>2, BarsFollow
    <3>4. RepeatedBar' = RepeatedBar
      BY <1>2, <2>r, <2>2, BarsFollow
    <3> QED
      BY <2>2, <2>3, <3>s, <3>1, <3>2, <3>3, <3>4
  <2> QED
    BY <1>2, <2>4 DEF Registry!AskById
<1> QED
  BY <1>3, <1>4

-----------------------------------------------------------------------------
\* No request has been made, and there are no projects.
LEMMA RegistryInit == Init => Registry!Init
<1> SUFFICES ASSUME Init PROVE Registry!Init
  OBVIOUS
<1>1. \A r \in Requests :
          /\ AskedOf(req[r]) = Registry!Unasked /\ SaidOf(req[r]) = "nothing"
          /\ req[r].applied = FALSE /\ ~IsRefused(req[r]) /\ ~(req[r].attempts > 1)
  BY DEF Init, AskedOf, IsRefused, SaidOf, IdleRequest, Begun, Registry!Unasked
<1>2. ProjectsBar = [p \in ProjectIds |-> Absent]
  BY DEF Init, ProjectsBar, ProjectOf
<1>3. AskedBar = [r \in Requests |-> Registry!Unasked]
      /\ SaidBar = [r \in Requests |-> "nothing"]
  BY <1>1 DEF AskedBar, SaidBar
<1>4. DoneBar = {} /\ RefusedBar = {} /\ RepeatedBar = {}
  BY <1>1 DEF DoneBar, RefusedBar, RepeatedBar
<1> QED
  BY <1>2, <1>3, <1>4 DEF Registry!Init

\* Every step of a request is one of the registry, or changes nothing there.
LEMMA RegistryStep ==
    ASSUME RestoreAllowed = FALSE
    PROVE  TypeInv /\ RequestsAreSound /\ NamesConsistent /\ Life /\ NoRecordIsFinal
              /\ [Next]_vars => [Registry!Next]_(Registry!vars)
<1> SUFFICES ASSUME TypeInv, RequestsAreSound, NamesConsistent, Life, NoRecordIsFinal,
                    [Next]_vars
             PROVE  Registry!Next \/ UNCHANGED Registry!vars
  OBVIOUS
<1>1. CASE UNCHANGED vars
  BY <1>1 DEF vars, Registry!vars, ProjectsBar, AskedBar, DoneBar, RefusedBar, RepeatedBar,
              SaidBar
<1> SUFFICES ASSUME NEW r \in Requests, Handler(r) \/ Environment(r)
             PROVE  Registry!Next \/ UNCHANGED Registry!vars
  BY <1>1 DEF Next
<1>2. CASE StartCreate(r) \/ StartById(r)
  BY <1>2, StartRefines DEF Registry!Next
<1>3. CASE ReadRecord(r)
  BY <1>3, ReadRefines DEF Registry!Next
<1>4. CASE ReadFails(r) \/ GiveUp(r) \/ Crash(r)
  BY <1>4, ErrorsSayUnknown DEF ReadFails, GiveUp, Crash, Registry!Next
<1>5. CASE EvaluateCreate(r)
  BY <1>5, CreateRefines DEF Registry!Next
<1>6. CASE EvaluateDelete(r)
  BY <1>6, DeleteRefines DEF Registry!Next
<1>7. CASE Conflict(r)
  BY <1>7, VerdictRefines DEF Conflict, Verdicts, Registry!Next
<1>8. CASE Receive(r)
  BY <1>8, ReceiveRefines DEF Registry!Next
<1>9. CASE Retry(r)
  BY <1>9, RetryRefines DEF Registry!Next
<1>10. ~RestoreRecord(r) /\ ~RestoreReservation(r)
  BY DEF RestoreRecord, RestoreReservation
<1> QED
  BY <1>2, <1>3, <1>4, <1>5, <1>6, <1>7, <1>8, <1>9, <1>10 DEF Handler, Environment

\* Every behaviour of the API is one of the registry: each request takes
\* effect at most once and at one moment, whatever attempts are late, and
\* every answer is one that the registry could have given.
THEOREM RepositoryImplementsRegistry ==
    ASSUME RestoreAllowed = FALSE, ReusableIds = {}
    PROVE  Spec => ImplementsRegistry
<1>1. TypeInv /\ RequestsAreSound /\ NamesConsistent /\ Life /\ NoRecordIsFinal
         /\ [Next]_vars => [Registry!Next]_(Registry!vars)
  BY RegistryStep
<1>2. TypeInv /\ RequestsAreSound /\ Life /\ [Next]_vars => Life'
  BY LifeStep
<1>3. TypeInv /\ RequestsAreSound /\ Life /\ NoRecordIsFinal /\ [Next]_vars
         => NoRecordIsFinal'
  BY NoRecordStep
<1>4. Spec => []NamesConsistent
  BY NamesStayConsistent
<1> QED
  BY <1>1, <1>2, <1>3, <1>4, RegistryInit, NoRecordInit, LifeInit, TypeInit, TypeStep,
     SoundInit, SoundStep, PTL
     DEF Spec, ImplementsRegistry, Registry!Spec
=============================================================================
