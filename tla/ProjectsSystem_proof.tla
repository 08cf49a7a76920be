------------------------ MODULE ProjectsSystem_proof ------------------------
(***************************************************************************)
(* Proofs about both Lambdas on their one table, for any numbers of        *)
(* requests and workers and any faults of the provisioner: a status update *)
(* leaves alone what the API's own guarantees rest on.                     *)
(***************************************************************************)
EXTENDS ProjectsSystem, ProjectRepository_proof, SequenceTheorems

USE DEF Live, Reply

-----------------------------------------------------------------------------
(***************************************************************************)
(* What the provisioner does to the table.                                 *)
(***************************************************************************)
RunFields == {"pc", "at", "last", "failed", "got"}

\* What provision() returned is an outcome that an item may have.
GotsAreOutcomes ==
    /\ DOMAIN runs = Workers
    /\ \A w \in Workers :
          DOMAIN runs[w] = RunFields /\ runs[w].got \in {"none", "endpoint"}

\* So is what a late update writes.
IsItemUpdate(u) ==
    /\ u.target \in ProjectStatus
    /\ u.outcome \in {"none", "endpoint", "failureReason"}

LateOnesFitItems == \A u \in late : IsItemUpdate(u)

\* The same projects exist, with their owners and names.
SameProjects ==
    \A p \in ProjectIds :
        /\ records'[p] = Absent <=> records[p] = Absent
        /\ records[p] # Absent => /\ records'[p].owner = records[p].owner
                                  /\ records'[p].name = records[p].name

TableType == records \in [ProjectIds -> ProjectItem \cup {Absent}]

\* A status update keeps items items, and changes no project's owner or name,
\* whether its invocation waits for it or not.
LEMMA WriteLeaves ==
    ASSUME TableType, NEW p, NEW target \in ProjectStatus,
           NEW outcome \in {"none", "endpoint", "failureReason"}, NEW expected,
           \/ records' = records
           \/ Prov!Expected(p, expected) /\ records' = Prov!Written(p, target, outcome)
    PROVE  TableType' /\ SameProjects
<1>1. ASSUME Prov!Expected(p, expected), records' = Prov!Written(p, target, outcome),
             p \in ProjectIds
      PROVE  TableType' /\ SameProjects
  <2> DEFINE item == [records[p] EXCEPT !.status = target, !.outcome = outcome]
  <2>1. records[p] \in ProjectItem
    BY <1>1 DEF Prov!Expected, Prov!Live, TableType
  <2>2. /\ item \in ProjectItem
        /\ item.owner = records[p].owner /\ item.name = records[p].name
    BY <2>1 DEF ProjectItem
  <2>3. records' = [records EXCEPT ![p] = item]
    BY <1>1 DEF Prov!Written, TableType
  <2>4. item # Absent
    BY <2>2, AbsentIsNoItem
  <2> HIDE DEF item
  <2>5. records'[p] = item /\ \A q \in ProjectIds \ {p} : records'[q] = records[q]
    BY <1>1, <2>3 DEF TableType
  <2>6. TableType'
    BY <2>2, <2>3 DEF TableType
  <2> QED
    BY <1>1, <2>1, <2>2, <2>4, <2>5, <2>6, AbsentIsNoItem DEF SameProjects
<1>2. ASSUME records' = Prov!Written(p, target, outcome), p \notin ProjectIds
      PROVE  records' = records
  BY <1>2 DEF Prov!Written, TableType
<1>3. ASSUME records' = records PROVE TableType' /\ SameProjects
  BY <1>3 DEF TableType, SameProjects
<1> QED
  BY <1>1, <1>2, <1>3

LEMMA UpdateLeaves ==
    ASSUME TableType, LateOnesFitItems, NEW p, NEW target \in ProjectStatus,
           NEW outcome \in {"none", "endpoint", "failureReason"}, NEW answer, NEW expected,
           Prov!Transition(p, expected, target, outcome, answer)
    PROVE  TableType' /\ SameProjects /\ LateOnesFitItems'
<1>1. \/ records' = records
      \/ Prov!Expected(p, expected) /\ records' = Prov!Written(p, target, outcome)
  BY DEF Prov!Transition
<1>2. TableType' /\ SameProjects
  BY <1>1, WriteLeaves
<1>3. IsItemUpdate(Prov!Update(p, expected, target, outcome))
  BY DEF IsItemUpdate, Prov!Update
<1>4. late' = late \/ late' = late \cup {Prov!Update(p, expected, target, outcome)}
  BY DEF Prov!Transition, Prov!NowLate
<1> QED
  BY <1>2, <1>3, <1>4 DEF LateOnesFitItems

\* After a record an invocation goes on with no outcome at hand.
LEMMA NextRecordHasNone ==
    ASSUME NEW run, NEW raised, DOMAIN run = RunFields
    PROVE  /\ DOMAIN Prov!NextRecord(run, raised) = RunFields
           /\ Prov!NextRecord(run, raised).got = "none"
  BY DEF Prov!NextRecord, RunFields

\* Changing the run of one worker keeps the others' outcomes.
LEMMA OneRun ==
    ASSUME GotsAreOutcomes, NEW w \in Workers, NEW run, runs' = [runs EXCEPT ![w] = run],
           DOMAIN run = RunFields, run.got \in {"none", "endpoint"}
    PROVE  GotsAreOutcomes'
  BY DEF GotsAreOutcomes

\* Whatever the provisioner and its mapping do, the projects stay.
LEMMA ProvisionerLeaves ==
    ASSUME TableType, GotsAreOutcomes, LateOnesFitItems, Prov!Consumer
    PROVE  /\ TableType' /\ SameProjects /\ stream' = stream
           /\ GotsAreOutcomes' /\ LateOnesFitItems'
<1>0. ASSUME records' = records PROVE TableType' /\ SameProjects
  BY <1>0 DEF TableType, SameProjects
<1>a. ASSUME NEW u \in late, Prov!Arrive(u)
      PROVE  /\ TableType' /\ SameProjects /\ stream' = stream
             /\ GotsAreOutcomes' /\ LateOnesFitItems'
  <2>1. /\ records' = IF Prov!Expected(u.project, u.expected)
                      THEN Prov!Written(u.project, u.target, u.outcome) ELSE records
        /\ late' \subseteq late /\ UNCHANGED <<stream, runs>>
    BY <1>a DEF Prov!Arrive
  <2>2. IsItemUpdate(u)
    BY DEF LateOnesFitItems
  <2>3. PICK p, e : p = u.project /\ e = u.expected
    OBVIOUS
  <2>t. PICK t \in ProjectStatus : t = u.target
    BY <2>2 DEF IsItemUpdate
  <2>o. PICK o \in {"none", "endpoint", "failureReason"} : o = u.outcome
    BY <2>2 DEF IsItemUpdate
  <2>4. \/ records' = records
        \/ Prov!Expected(p, e) /\ records' = Prov!Written(p, t, o)
    BY <2>1, <2>3, <2>t, <2>o
  <2>5. TableType' /\ SameProjects
    BY <2>4, WriteLeaves
  <2> QED
    BY <2>1, <2>5 DEF GotsAreOutcomes, LateOnesFitItems
<1>l. ASSUME late' = late PROVE LateOnesFitItems'
  BY <1>l DEF LateOnesFitItems
<1> SUFFICES ASSUME NEW w \in Workers,
                    \/ Prov!Invocation(w) \/ Prov!Deliver(w)
                    \/ Prov!Crash(w) \/ Prov!Abandon(w)
             PROVE  /\ TableType' /\ SameProjects /\ stream' = stream
                    /\ GotsAreOutcomes' /\ LateOnesFitItems'
  BY <1>a DEF Prov!Consumer
<1>w. DOMAIN runs[w] = RunFields /\ runs[w].got \in {"none", "endpoint"}
  BY DEF GotsAreOutcomes
<1>i. DOMAIN Prov!Idle = RunFields /\ Prov!Idle.got = "none"
  BY DEF Prov!Idle, RunFields
<1>s. {"PROVISIONING", "READY", "FAILED"} \subseteq ProjectStatus
  BY DEF ProjectStatus
<1>p. PICK p : p = Prov!ProjectAt(w)
  OBVIOUS
<1>1. CASE Prov!Begin(w)
  <2>1. PICK answer \in Prov!Answers :
          /\ Prov!Transition(Prov!ProjectAt(w), "CREATED", "PROVISIONING", "none", answer)
          /\ runs' = [runs EXCEPT ![w] =
                        IF answer = "true" THEN [@ EXCEPT !.pc = "provision"]
                        ELSE Prov!NextRecord(@, answer = "raised")]
    BY <1>1 DEF Prov!Begin
  <2>2. PICK run : run = IF answer = "true" THEN [runs[w] EXCEPT !.pc = "provision"]
                         ELSE Prov!NextRecord(runs[w], answer = "raised")
    OBVIOUS
  <2>3. DOMAIN run = RunFields /\ run.got \in {"none", "endpoint"}
    BY <1>w, <2>2, NextRecordHasNone DEF RunFields
  <2>4. runs' = [runs EXCEPT ![w] = run]
    BY <2>1, <2>2 DEF GotsAreOutcomes
  <2>5. Prov!Transition(p, "CREATED", "PROVISIONING", "none", answer)
    BY <1>p, <2>1
  <2>6. TableType' /\ SameProjects /\ LateOnesFitItems'
    BY <1>s, <2>5, UpdateLeaves
  <2> QED
    BY <1>1, <2>3, <2>4, <2>6, OneRun DEF Prov!Begin
<1>2. CASE Prov!Provision(w)
  <2>1. PICK got \in Prov!Successes \cup {Prov!Raised} :
          runs' = [runs EXCEPT
                     ![w].pc = IF got = Prov!Raised THEN "fail" ELSE "complete",
                     ![w].got = IF got = Prov!Raised THEN "none" ELSE got]
    BY <1>2 DEF Prov!Provision
  <2>2. PICK run : run = [runs[w] EXCEPT
                     !.pc = IF got = Prov!Raised THEN "fail" ELSE "complete",
                     !.got = IF got = Prov!Raised THEN "none" ELSE got]
    OBVIOUS
  <2>3. DOMAIN run = RunFields /\ run.got \in {"none", "endpoint"}
    BY <1>w, <2>2 DEF RunFields, Prov!Successes, Prov!Raised
  <2>4. runs' = [runs EXCEPT ![w] = run]
    BY <2>1, <2>2 DEF GotsAreOutcomes
  <2> QED
    BY <1>0, <1>2, <1>l, <2>3, <2>4, OneRun DEF Prov!Provision
<1>3. CASE Prov!Complete(w)
  <2>1. PICK answer \in Prov!Answers :
          /\ Prov!Transition(Prov!ProjectAt(w), "PROVISIONING", "READY", runs[w].got, answer)
          /\ runs' = [runs EXCEPT ![w] = Prov!NextRecord(@, answer = "raised")]
    BY <1>3 DEF Prov!Complete
  <2>2. PICK run : run = Prov!NextRecord(runs[w], answer = "raised")
    OBVIOUS
  <2>3. DOMAIN run = RunFields /\ run.got \in {"none", "endpoint"}
    BY <1>w, <2>2, NextRecordHasNone
  <2>4. runs' = [runs EXCEPT ![w] = run]
    BY <2>1, <2>2 DEF GotsAreOutcomes
  <2>5. PICK got \in {"none", "endpoint"} : got = runs[w].got
    BY <1>w
  <2>6. Prov!Transition(p, "PROVISIONING", "READY", got, answer)
    BY <1>p, <2>1, <2>5
  <2>7. TableType' /\ SameProjects /\ LateOnesFitItems'
    BY <1>s, <2>6, UpdateLeaves
  <2> QED
    BY <1>3, <2>3, <2>4, <2>7, OneRun DEF Prov!Complete
<1>4. CASE Prov!Fail(w)
  <2>1. PICK answer \in Prov!Answers :
          /\ Prov!Transition(Prov!ProjectAt(w), "PROVISIONING", "FAILED", "failureReason", answer)
          /\ runs' = [runs EXCEPT ![w] = Prov!NextRecord(@, answer = "raised")]
    BY <1>4 DEF Prov!Fail
  <2>2. PICK run : run = Prov!NextRecord(runs[w], answer = "raised")
    OBVIOUS
  <2>3. DOMAIN run = RunFields /\ run.got \in {"none", "endpoint"}
    BY <1>w, <2>2, NextRecordHasNone
  <2>4. runs' = [runs EXCEPT ![w] = run]
    BY <2>1, <2>2 DEF GotsAreOutcomes
  <2>5. Prov!Transition(p, "PROVISIONING", "FAILED", "failureReason", answer)
    BY <1>p, <2>1
  <2>6. TableType' /\ SameProjects /\ LateOnesFitItems'
    BY <1>s, <2>5, UpdateLeaves
  <2> QED
    BY <1>4, <2>3, <2>4, <2>6, OneRun DEF Prov!Fail
<1>5. CASE Prov!Respond(w)
  <2>1. PICK run : run = Prov!Idle
    OBVIOUS
  <2>2. runs' = [runs EXCEPT ![w] = run] /\ UNCHANGED <<records, stream, late>>
    BY <1>5, <2>1 DEF Prov!Respond
  <2> QED
    BY <1>0, <1>i, <1>l, <2>1, <2>2, OneRun
<1>6. CASE Prov!Crash(w)
  <2>1. PICK run : run = Prov!Idle
    OBVIOUS
  <2>2. runs' = [runs EXCEPT ![w] = run] /\ records' = records /\ stream' = stream
    BY <1>6, <2>1 DEF Prov!Crash
  <2>3. IsItemUpdate(Prov!UpdateOf(w)) \/ late' = late
    BY <1>6, <1>s, <1>w DEF Prov!Crash, Prov!UpdateOf, Prov!Update, IsItemUpdate
  <2>4. late' = late \/ late' = late \cup {Prov!UpdateOf(w)}
    BY <1>6 DEF Prov!Crash, Prov!NowLate
  <2>5. LateOnesFitItems'
    BY <2>3, <2>4 DEF LateOnesFitItems
  <2> QED
    BY <1>0, <1>i, <2>1, <2>2, <2>5, OneRun
<1>7. CASE Prov!Deliver(w)
  <2>1. PICK last :
          runs' = [runs EXCEPT ![w] =
                     [Prov!Idle EXCEPT !.pc = "begin", !.at = esm.next, !.last = last]]
    BY <1>7 DEF Prov!Deliver
  <2>2. PICK run : run = [Prov!Idle EXCEPT !.pc = "begin", !.at = esm.next, !.last = last]
    OBVIOUS
  <2>3. DOMAIN run = RunFields /\ run.got = "none"
    BY <2>2 DEF Prov!Idle, RunFields
  <2>4. runs' = [runs EXCEPT ![w] = run]
    BY <2>1, <2>2
  <2> QED
    BY <1>0, <1>7, <1>l, <2>3, <2>4, OneRun DEF Prov!Deliver
<1>8. CASE Prov!Abandon(w)
  BY <1>0, <1>8, <1>l DEF Prov!Abandon, GotsAreOutcomes
<1> QED
  BY <1>1, <1>2, <1>3, <1>4, <1>5, <1>6, <1>7, <1>8 DEF Prov!Invocation

-----------------------------------------------------------------------------
(***************************************************************************)
(* The API's own invariants on the shared table.                           *)
(***************************************************************************)
ApiInv == TypeInv /\ RequestsAreSound /\ Life /\ NamesConsistent /\ NoRecordIsFinal

\* They know nothing of a project's status.
LEMMA StatusIsNothingToApi ==
    ASSUME ApiInv, TableType', SameProjects, UNCHANGED <<reservations, issued, req>>
    PROVE  ApiInv' /\ UNCHANGED Registry!vars
<1>1. TypeInv' /\ RequestsAreSound'
  BY DEF ApiInv, TypeInv, TypeOK, CallsAreComplete, ReadsAreComplete, LateOnesAreEarlier,
         RequestsAreSound, TableType
<1>2. reservations \in [NameKeys -> ProjectIds \cup {Absent}]
  BY DEF ApiInv, TypeInv, TypeOK
<1>3. NamesConsistent'
  BY <1>2 DEF ApiInv, NamesConsistent, EveryProjectHoldsItsName, EveryReservationIsHeld,
              SameProjects
<1>4. \A r \in Requests : Deleted(r) => req[r].id \in ProjectIds
  BY DEF ApiInv, TypeInv, CallsAreComplete, Deleted
<1>5. \A r \in Requests : Created(r) => req[r].id \in ProjectIds
  BY DEF ApiInv, TypeInv, CallsAreComplete, Created
<1>6. OneCreatePerId' /\ DeletesStemFromCreates' /\ DeletedOnce'
  BY DEF ApiInv, Life, OneCreatePerId, DeletesStemFromCreates, DeletedOnce, Created
<1>7. RecordsStemFromCreates'
  BY DEF ApiInv, Life, RecordsStemFromCreates, Created, SameProjects
<1>8. GoneMeansDeleted'
  BY <1>4, <1>5 DEF ApiInv, Life, GoneMeansDeleted, WasDeleted, Created, Deleted, SameProjects
<1>9. UNCHANGED Registry!vars
  <2>1. \A p \in ProjectIds : ProjectOf(records'[p]) = ProjectOf(records[p])
    BY DEF SameProjects, ProjectOf
  <2>2. ProjectsBar' = ProjectsBar
    BY <2>1 DEF ProjectsBar
  <2> QED
    BY <2>2 DEF Registry!vars, AskedBar, DoneBar, RefusedBar, RepeatedBar, SaidBar
<1>10. NoRecordIsFinal'
  BY DEF ApiInv, NoRecordIsFinal, WasDeleted
<1> QED
  BY <1>1, <1>3, <1>6, <1>7, <1>8, <1>9, <1>10 DEF ApiInv, Life

\* A transaction that meets a status update is cancelled, as one that meets
\* another transaction is.
LEMMA MeetingIsQuiet ==
    ASSUME ApiInv, NEW r \in Requests, MeetsStatusUpdate(r)
    PROVE  ApiInv' /\ [Registry!Next]_(Registry!vars) /\ SameEssence
<1>1. /\ Evaluated(r, "conflict") /\ OnItsWay(r) /\ "conflict" \in Verdicts
      /\ UNCHANGED <<records, reservations, issued>>
  BY DEF MeetsStatusUpdate, Verdicts
<1>q. req[r] \in Request /\ TypeInv
  BY DEF ApiInv, TypeInv, TypeOK
<1>2. RequestsAreSound'
  BY <1>1, VerdictIsSound DEF ApiInv
<1>3. /\ \A s \in Requests \ {r} : req'[s] = req[s]
      /\ req'[r] \in Request
      /\ req'[r].op = req[r].op /\ req'[r].caller = req[r].caller
      /\ req'[r].id = req[r].id /\ req'[r].name = req[r].name
      /\ req'[r].applied <=> req[r].applied
      /\ req'[r].call = "noRecord" => req[r].call = "noRecord"
  BY <1>1, <1>q, EvaluatedDoes
<1>4. SameEssence
  <2>1. req'[r].applied = req[r].applied
    BY <1>3, <1>q DEF Request
  <2> QED
    BY <1>3, <2>1 DEF SameEssence, Essence
<1>5. Life'
  BY <1>1, <1>4, QuietStepKeepsLife DEF ApiInv
<1>6. NamesConsistent'
  BY <1>1 DEF ApiInv, NamesConsistent, EveryProjectHoldsItsName, EveryReservationIsHeld
<1>7. TypeInv'
  BY <1>1, <1>q, EvaluatedKeepsType DEF TypeInv, TypeOK
<1>8. NoRecordIsFinal'
  <2>1. \A d \in Requests :
          /\ req'[d].op = req[d].op /\ req'[d].id = req[d].id
          /\ req'[d].applied <=> req[d].applied
          /\ req'[d].call = "noRecord" => req[d].call = "noRecord"
    BY <1>3
  <2> QED
    BY <2>1 DEF ApiInv, NoRecordIsFinal, WasDeleted
<1>9. [Registry!Next]_(Registry!vars)
  <2>1. Registry!Refuse(r) \/ UNCHANGED Registry!vars
    BY <1>1, VerdictRefines DEF ApiInv
  <2> QED
    BY <2>1 DEF Registry!Next
<1> QED
  BY <1>2, <1>4, <1>5, <1>6, <1>7, <1>8, <1>9 DEF ApiInv

-----------------------------------------------------------------------------
(***************************************************************************)
(* What the API does, as the provisioner sees it.                          *)
(***************************************************************************)
CreatesNew(p) ==
    /\ ~Live(p)
    /\ \A c \in Requests : Created(c) => req[c].id # p
    /\ \E owner \in Owners, name \in Names :
          records' = [records EXCEPT ![p] = NewProject(owner, name)]
    /\ \E c \in Requests : Created(c)' /\ req'[c].id = p

Removes(p) == Live(p) /\ records' = [records EXCEPT ![p] = Absent]

CreatesStay == \A c \in Requests : Created(c) => Created(c)' /\ req'[c].id = req[c].id

\* A step of a request creates a project that never was, removes one, or leaves
\* the records alone.
LEMMA ApiChanges ==
    ASSUME RestoreAllowed = FALSE, ApiInv, [Next]_vars
    PROVE  /\ CreatesStay
           /\ \/ records' = records
              \/ \E p \in ProjectIds : CreatesNew(p)
              \/ \E p \in ProjectIds : Removes(p)
<1>0. TypeInv /\ \A r \in Requests : req[r] \in Request
  BY DEF ApiInv, TypeInv, TypeOK
<1>1. CASE SameEssence /\ UNCHANGED <<records, reservations, issued>>
  <2>1. CreatesStay
    BY <1>1 DEF SameEssence, Essence, CreatesStay, Created
  <2> QED
    BY <1>1, <2>1
<1> SUFFICES ASSUME NEW r \in Requests,
                    \/ StartCreate(r)
                    \/ StartById(r)
                    \/ ReadRecord(r) /\ req'[r].pc = "write"
                    \/ EvaluateCreate(r) /\ ~TokenSeen(r) /\ IdIsFree(r) /\ ApplyCreate(r)
                    \/ EvaluateDelete(r) /\ ~TokenSeen(r) /\ RecordIsOwned(r) /\ ApplyDelete(r)
             PROVE  /\ CreatesStay
                    /\ \/ records' = records
                       \/ \E p \in ProjectIds : CreatesNew(p)
                       \/ \E p \in ProjectIds : Removes(p)
  BY <1>0, <1>1, WhatSteps
<1>s. SoundRequest(req[r]) /\ req[r] \in Request
  BY <1>0 DEF ApiInv, RequestsAreSound
<1>v. "applied" \in Verdicts
  BY DEF Verdicts
<1>o. \A s \in Requests \ {r} : req'[s] = req[s]
  <2>1. CASE StartCreate(r) \/ StartById(r) \/ ReadRecord(r)
    BY <1>0, <2>1 DEF StartCreate, StartById, ReadRecord, TypeInv, TypeOK
  <2>2. CASE ApplyCreate(r) \/ ApplyDelete(r)
    BY <1>0, <1>v, <2>2, EvaluatedDoes DEF ApplyCreate, ApplyDelete
  <2> QED
    BY <2>1, <2>2
<1>2. CASE StartCreate(r) \/ StartById(r)
  <2>1. ~Created(r)
    BY <1>2, <1>s DEF StartCreate, StartById, SoundRequest, IdleRequest, Begun, Created
  <2>2. CreatesStay
    BY <1>o, <2>1 DEF CreatesStay, Created
  <2> QED
    BY <1>2, <2>2 DEF StartCreate, StartById
<1>3. CASE ReadRecord(r)
  <2>1. ~Created(r)
    BY <1>0, <1>3 DEF ReadRecord, TypeInv, ReadsAreComplete, Created, ApiInv,
                      RequestsAreSound, SoundRequest
  <2>2. CreatesStay
    BY <1>o, <2>1 DEF CreatesStay, Created
  <2> QED
    BY <1>3, <2>2 DEF ReadRecord
<1>4. CASE EvaluateCreate(r) /\ ~TokenSeen(r) /\ IdIsFree(r) /\ ApplyCreate(r)
  <2>1. /\ req[r].op = "create" /\ req[r].id \in ProjectIds /\ ~req[r].applied
        /\ req[r].caller \in Owners /\ req[r].name \in Names /\ ~Live(req[r].id)
    BY <1>0, <1>4, OnItsWayIsComplete DEF EvaluateCreate, TokenSeen, IdIsFree
  <2>2. req'[r].op = "create" /\ req'[r].applied /\ req'[r].id = req[r].id
    BY <1>0, <1>4, <1>v, <2>1, EvaluatedDoes DEF ApplyCreate
  <2>3. CreatesStay
    BY <1>o, <2>2 DEF CreatesStay, Created
  <2>4. \A c \in Requests : Created(c) => req[c].id # req[r].id
    BY <2>1 DEF Created, ApiInv, Life, OneCreatePerId
  <2>5. PICK p \in ProjectIds : p = req[r].id
    BY <2>1
  <2>6. records' = [records EXCEPT ![p] = NewProject(req[r].caller, req[r].name)]
    BY <1>4, <2>5 DEF ApplyCreate
  <2>7. CreatesNew(p)
    BY <2>1, <2>2, <2>4, <2>5, <2>6 DEF CreatesNew, Created
  <2> QED
    BY <2>3, <2>7
<1>5. CASE EvaluateDelete(r) /\ ~TokenSeen(r) /\ RecordIsOwned(r) /\ ApplyDelete(r)
  <2>1. req[r].op = "delete" /\ req[r].id \in ProjectIds /\ Live(req[r].id)
    BY <1>0, <1>5, OnItsWayIsComplete DEF EvaluateDelete, RecordIsOwned, OwnedBy
  <2>2. CreatesStay
    BY <1>o, <2>1 DEF CreatesStay, Created
  <2>3. Removes(req[r].id)
    BY <1>5, <2>1 DEF Removes, ApplyDelete
  <2> QED
    BY <2>1, <2>2, <2>3
<1> QED
  BY <1>2, <1>3, <1>4, <1>5

\* An id on the stream is one that was given to an applied create.
StreamStemsFromCreates ==
    /\ stream \in Seq(ProjectIds)
    /\ \A i \in 1 .. Len(stream) : \E c \in Requests : Created(c) /\ req[c].id = stream[i]

\* What is put on the stream is what was created.
LEMMA PublishIsCreate ==
    ASSUME ApiInv, StreamStemsFromCreates, CreatesStay, Publish,
           UNCHANGED <<esm, dlq, runs, result, late>>,
           \/ records' = records
           \/ \E p \in ProjectIds : CreatesNew(p)
           \/ \E p \in ProjectIds : Removes(p)
    PROVE  StreamStemsFromCreates' /\ [Prov!Next]_(Prov!vars)
<1>0. TableType
  BY DEF ApiInv, TypeInv, TypeOK, TableType
<1>1. \A p : (\E c \in Requests : Created(c) /\ req[c].id = p)
             => (\E c \in Requests : Created(c)' /\ req'[c].id = p)
  BY DEF CreatesStay
<1>2. ASSUME stream' = stream PROVE StreamStemsFromCreates'
  <2>1. \A i \in 1 .. Len(stream) :
          \E c \in Requests : Created(c)' /\ req'[c].id = stream[i]
    BY <1>1 DEF StreamStemsFromCreates
  <2> QED
    BY <1>2, <2>1 DEF StreamStemsFromCreates
<1>3. CASE records' = records
  <2>1. stream' = stream
    BY <1>3 DEF Publish, Inserted
  <2> QED
    BY <1>2, <1>3, <2>1 DEF Prov!vars
<1>4. ASSUME NEW p \in ProjectIds, CreatesNew(p)
      PROVE  StreamStemsFromCreates' /\ Prov!Create(p)
  <2>1. PICK owner \in Owners, name \in Names :
          records' = [records EXCEPT ![p] = NewProject(owner, name)]
    BY <1>4 DEF CreatesNew
  <2>2. NewProject(owner, name) # Absent
    BY NewProjectType, AbsentIsNoItem
  <2>3. records'[p] # Absent /\ \A q \in ProjectIds \ {p} : records'[q] = records[q]
    BY <1>0, <2>1, <2>2 DEF TableType
  <2>4. Inserted = {p}
    BY <1>4, <2>3 DEF Inserted, CreatesNew
  <2>5. stream' = Append(stream, p)
    BY <2>4 DEF Publish
  <2>6. stream \in Seq(ProjectIds) /\ p \notin {stream[i] : i \in Prov!Positions}
    BY <1>4 DEF StreamStemsFromCreates, CreatesNew, Prov!Positions
  <2>7. Prov!Create(p)
    BY <2>1, <2>5, <2>6 DEF Prov!Create, Prov!NewProject, NewProject
  <2>8. /\ stream' \in Seq(ProjectIds) /\ Len(stream') = Len(stream) + 1
        /\ Len(stream) \in Nat /\ stream'[Len(stream) + 1] = p
        /\ \A i \in 1 .. Len(stream) : stream'[i] = stream[i]
    BY <2>5, <2>6
  <2>9. ASSUME NEW i \in 1 .. Len(stream')
        PROVE  \E c \in Requests : Created(c)' /\ req'[c].id = stream'[i]
    <3>1. CASE i \in 1 .. Len(stream)
      BY <1>1, <2>8, <3>1 DEF StreamStemsFromCreates
    <3>2. CASE i = Len(stream) + 1
      BY <1>4, <2>8, <3>2 DEF CreatesNew
    <3> QED
      BY <2>8, <3>1, <3>2
  <2> QED
    BY <2>7, <2>8, <2>9 DEF StreamStemsFromCreates
<1>5. ASSUME NEW p \in ProjectIds, Removes(p)
      PROVE  StreamStemsFromCreates' /\ Prov!Delete(p)
  <2>1. \A q \in ProjectIds : records'[q] = IF q = p THEN Absent ELSE records[q]
    BY <1>0, <1>5 DEF TableType, Removes
  <2>2. Inserted = {}
    BY <2>1 DEF Inserted
  <2>3. stream' = stream
    BY <2>2 DEF Publish
  <2> QED
    BY <1>2, <1>5, <2>3 DEF Removes, Prov!Delete, Prov!Live
<1> QED
  BY <1>3, <1>4, <1>5 DEF Prov!Next, Prov!Api

\* The record of every project is on the stream.
ProjectsAreStreamed ==
    \A p \in ProjectIds : Live(p) => \E i \in 1 .. Len(stream) : stream[i] = p

LEMMA PublishStreams ==
    ASSUME TableType, stream \in Seq(ProjectIds), ProjectsAreStreamed, Publish,
           \/ records' = records
           \/ \E p \in ProjectIds : CreatesNew(p)
           \/ \E p \in ProjectIds : Removes(p)
    PROVE  ProjectsAreStreamed'
<1>1. ASSUME NEW p \in ProjectIds, NEW q \in ProjectIds, p \in Inserted, q \in Inserted
      PROVE  p = q
  <2>1. records' # records /\ ~(\E r \in ProjectIds : Removes(r))
    BY <1>1 DEF TableType, Inserted, Removes
  <2>2. PICK r \in ProjectIds : CreatesNew(r)
    BY <2>1
  <2>3. \A x \in ProjectIds \ {r} : records'[x] = records[x]
    BY <2>2 DEF CreatesNew, TableType
  <2> QED
    BY <1>1, <2>3 DEF Inserted
<1>2. ASSUME NEW p \in ProjectIds, Live(p)'
      PROVE  \E i \in 1 .. Len(stream') : stream'[i] = p
  <2>1. CASE Live(p)
    <3>1. PICK i \in 1 .. Len(stream) : stream[i] = p
      BY <2>1 DEF ProjectsAreStreamed
    <3>2. stream' = stream \/ \E q \in ProjectIds : stream' = Append(stream, q)
      BY DEF Publish, Inserted
    <3>3. i \in 1 .. Len(stream') /\ stream'[i] = p
      BY <3>1, <3>2
    <3> QED
      BY <3>3
  <2>2. CASE ~Live(p)
    <3>1. p \in Inserted
      BY <1>2, <2>2 DEF Inserted
    <3>2. stream' = Append(stream, p)
      BY <1>1, <3>1 DEF Publish, Inserted
    <3>3. Len(stream) + 1 \in 1 .. Len(stream') /\ stream'[Len(stream) + 1] = p
      BY <3>2
    <3> QED
      BY <3>3
  <2> QED
    BY <2>1, <2>2
<1> QED
  BY <1>2 DEF ProjectsAreStreamed

-----------------------------------------------------------------------------
(***************************************************************************)
(* The system.                                                             *)
(***************************************************************************)
SysInv ==
    /\ ApiInv
    /\ GotsAreOutcomes /\ LateOnesFitItems
    /\ StreamStemsFromCreates /\ ProjectsAreStreamed

\* Both halves start with nothing.
LEMMA SysInvInit == SysInit => SysInv
<1> SUFFICES ASSUME SysInit PROVE SysInv
  OBVIOUS
<1>1. TypeInv /\ RequestsAreSound /\ Life /\ NoRecordIsFinal
  BY TypeInit, SoundInit, LifeInit, NoRecordInit DEF SysInit
<1>2. NamesConsistent
  BY DEF SysInit, Init, NamesConsistent, EveryProjectHoldsItsName, EveryReservationIsHeld
<1>3. GotsAreOutcomes /\ LateOnesFitItems
  BY DEF SysInit, Prov!Init, Prov!Idle, GotsAreOutcomes, RunFields, LateOnesFitItems
<1>4. stream = <<>>
  BY DEF SysInit, Prov!Init
<1>5. StreamStemsFromCreates
  BY <1>4 DEF StreamStemsFromCreates
<1>6. ProjectsAreStreamed
  BY DEF SysInit, Init, ProjectsAreStreamed
<1> QED
  BY <1>1, <1>2, <1>3, <1>5, <1>6 DEF SysInv, ApiInv

\* Every step keeps the invariant, and is one of the registry and one of the
\* provisioner with its environment, or changes nothing there.
LEMMA SysStep ==
    ASSUME RestoreAllowed = FALSE, ReusableIds = {}, SysInv, [SysNext]_sysVars
    PROVE  /\ SysInv'
           /\ [Registry!Next]_(Registry!vars)
           /\ [Prov!Next]_(Prov!vars)
<1>1. CASE UNCHANGED sysVars
  <2>1. UNCHANGED <<records, reservations, issued, req, stream, esm, dlq, runs, result, late>>
    BY <1>1 DEF sysVars, vars, provVars
  <2>2. UNCHANGED vars /\ TableType'
    BY <2>1 DEF vars, SysInv, ApiInv, TypeInv, TypeOK, TableType
  <2>3. ApiInv' /\ UNCHANGED Registry!vars
    BY <2>1, <2>2, StatusIsNothingToApi DEF SysInv, SameProjects
  <2> QED
    BY <2>1, <2>3 DEF SysInv, GotsAreOutcomes, LateOnesFitItems, StreamStemsFromCreates,
       Created, ProjectsAreStreamed, Prov!vars
<1>2. ASSUME NEW r \in Requests, ApiStep(r)
      PROVE  /\ SysInv'
             /\ [Registry!Next]_(Registry!vars)
             /\ [Prov!Next]_(Prov!vars)
  <2>1. [Next]_vars /\ Publish /\ UNCHANGED <<esm, dlq, runs, result, late>>
    BY <1>2 DEF ApiStep, Next
  <2>2. ApiInv'
    BY <2>1, TypeStep, SoundStep, LifeStep, NamesStep, NoRecordStep DEF SysInv, ApiInv
  <2>3. [Registry!Next]_(Registry!vars)
    BY <2>1, RegistryStep DEF SysInv, ApiInv
  <2>4. StreamStemsFromCreates' /\ [Prov!Next]_(Prov!vars)
    BY <2>1, ApiChanges, PublishIsCreate DEF SysInv
  <2>5. GotsAreOutcomes' /\ LateOnesFitItems'
    BY <2>1 DEF SysInv, GotsAreOutcomes, LateOnesFitItems
  <2>6. ProjectsAreStreamed'
    <3>1. TableType /\ stream \in Seq(ProjectIds) /\ ProjectsAreStreamed
      BY DEF SysInv, ApiInv, TypeInv, TypeOK, TableType, StreamStemsFromCreates
    <3> QED
      BY <2>1, <3>1, ApiChanges, PublishStreams DEF SysInv
  <2> QED
    BY <2>2, <2>3, <2>4, <2>5, <2>6 DEF SysInv
<1>3. ASSUME NEW r \in Requests, MeetsStatusUpdate(r)
      PROVE  /\ SysInv'
             /\ [Registry!Next]_(Registry!vars)
             /\ UNCHANGED Prov!vars
  <2>1. UNCHANGED <<records, stream, esm, dlq, runs, result, late>>
    BY <1>3 DEF MeetsStatusUpdate, provVars
  <2>2. ApiInv' /\ [Registry!Next]_(Registry!vars) /\ SameEssence
    BY <1>3, MeetingIsQuiet DEF SysInv
  <2>3. StreamStemsFromCreates'
    BY <2>1, <2>2 DEF SysInv, StreamStemsFromCreates, SameEssence, Essence, Created
  <2>4. GotsAreOutcomes' /\ LateOnesFitItems'
    BY <2>1 DEF SysInv, GotsAreOutcomes, LateOnesFitItems
  <2>5. ProjectsAreStreamed'
    BY <2>1 DEF SysInv, ProjectsAreStreamed
  <2> QED
    BY <2>1, <2>2, <2>3, <2>4, <2>5 DEF SysInv, Prov!vars
<1>4. ASSUME ProvisionerStep
      PROVE  SysInv' /\ UNCHANGED Registry!vars /\ Prov!Next
  <2>1. Prov!Consumer /\ UNCHANGED <<reservations, issued, req>>
    BY <1>4 DEF ProvisionerStep
  <2>2. /\ TableType' /\ SameProjects /\ stream' = stream
        /\ GotsAreOutcomes' /\ LateOnesFitItems'
    BY <2>1, ProvisionerLeaves DEF SysInv, ApiInv, TypeInv, TypeOK, TableType
  <2>3. ApiInv' /\ UNCHANGED Registry!vars
    BY <2>1, <2>2, StatusIsNothingToApi DEF SysInv
  <2>4. StreamStemsFromCreates'
    BY <2>1, <2>2 DEF SysInv, StreamStemsFromCreates, Created
  <2>5. ProjectsAreStreamed'
    BY <2>2 DEF SysInv, ProjectsAreStreamed, SameProjects
  <2> QED
    BY <2>1, <2>2, <2>3, <2>4, <2>5 DEF SysInv, Prov!Next
<1> QED
  BY <1>1, <1>2, <1>3, <1>4 DEF SysNext

\* The same as one formula, for the temporal steps below.
LEMMA SysInvStep ==
    ASSUME RestoreAllowed = FALSE, ReusableIds = {}
    PROVE  SysInv /\ [SysNext]_sysVars =>
              SysInv' /\ [Registry!Next]_(Registry!vars) /\ [Prov!Next]_(Prov!vars)
  BY SysStep

\* A delete that was answered 204 is final: no status update under way brings
\* the record or the reservation back.
THEOREM DeletedStaysGone ==
    ASSUME RestoreAllowed = FALSE, ReusableIds = {}
    PROVE  SysSpec => []DeletedIsGone
<1>1. SysInv => DeletedIsGone
  <2> SUFFICES ASSUME SysInv, NEW d \in Requests, req[d].answer = "deleted"
               PROVE  /\ ~Live(req[d].id)
                      /\ \A k \in NameKeys : reservations[k] # req[d].id
    BY DEF DeletedIsGone
  <2>1. Deleted(d) /\ req[d].id \in ProjectIds
    BY DEF SysInv, ApiInv, RequestsAreSound, SoundRequest, Deleted, TypeInv, CallsAreComplete
  <2>2. ~Live(req[d].id)
    BY <2>1 DEF SysInv, ApiInv, Life, GoneMeansDeleted
  <2> QED
    BY <2>1, <2>2, AbsentIsNoItem DEF SysInv, ApiInv, NamesConsistent, EveryReservationIsHeld
<1>2. SysInv /\ [SysNext]_sysVars => SysInv'
  BY SysInvStep
<1> QED
  BY <1>1, <1>2, SysInvInit, PTL DEF SysSpec

\* The API, with its own creates and deletes, is the environment that the
\* provisioner's own guarantees assume.
THEOREM SystemImplementsProvisioner ==
    ASSUME RestoreAllowed = FALSE, ReusableIds = {}
    PROVE  SysSpec => ProvisionerIsImplemented
<1>1. SysInv /\ [SysNext]_sysVars => SysInv' /\ [Prov!Next]_(Prov!vars)
  BY SysInvStep
<1>2. SysInit => Prov!Init
  BY DEF SysInit
<1> QED
  BY <1>1, <1>2, SysInvInit, PTL DEF SysSpec, ProvisionerIsImplemented, Prov!Spec

\* The registry's promise to clients holds with the provisioner at work on the
\* same items.
THEOREM SystemImplementsRegistry ==
    ASSUME RestoreAllowed = FALSE, ReusableIds = {}
    PROVE  SysSpec => ImplementsRegistry
<1>1. SysInv /\ [SysNext]_sysVars => SysInv' /\ [Registry!Next]_(Registry!vars)
  BY SysInvStep
<1>2. SysInit => Registry!Init
  BY RegistryInit DEF SysInit
<1> QED
  BY <1>1, <1>2, SysInvInit, PTL DEF SysSpec, ImplementsRegistry, Registry!Spec

-----------------------------------------------------------------------------
(***************************************************************************)
(* The theorems of Provisioner_proof, of the whole system.  ProvProof      *)
(* speaks of an instance of Provisioner of its own; it is the same one.    *)
(***************************************************************************)
ProvProof == INSTANCE Provisioner_proof

LEMMA SameOperators ==
    /\ Prov!vars = ProvProof!vars
    /\ Prov!Idle = ProvProof!Idle /\ Prov!Positions = ProvProof!Positions
    /\ Prov!BatchEnds = ProvProof!BatchEnds
    /\ \A p : Prov!Live(p) <=> ProvProof!Live(p)
    /\ \A p, s : Prov!Expected(p, s) <=> ProvProof!Expected(p, s)
    /\ \A w : Prov!ProjectAt(w) = ProvProof!ProjectAt(w)
    /\ \A run, raised : Prov!NextRecord(run, raised) = ProvProof!NextRecord(run, raised)
    /\ \A run : Prov!FirstFailed(run) = ProvProof!FirstFailed(run)
    /\ \A p, t, o : Prov!Written(p, t, o) = ProvProof!Written(p, t, o)
    /\ \A p, e, t, o : Prov!Update(p, e, t, o) = ProvProof!Update(p, e, t, o)
    /\ \A w : Prov!UpdateOf(w) = ProvProof!UpdateOf(w)
    /\ \A u : Prov!NowLate(u) <=> ProvProof!NowLate(u)
<1>1. Prov!vars = ProvProof!vars
  BY DEF Prov!vars, ProvProof!vars
<1>2. Prov!Idle = ProvProof!Idle /\ Prov!Positions = ProvProof!Positions
  BY DEF Prov!Idle, ProvProof!Idle, Prov!Positions, ProvProof!Positions
<1>3. Prov!BatchEnds = ProvProof!BatchEnds
  BY <1>2 DEF Prov!BatchEnds, ProvProof!BatchEnds
<1>4. \A p : Prov!Live(p) <=> ProvProof!Live(p)
  BY DEF Prov!Live, ProvProof!Live
<1>5. \A p, s : Prov!Expected(p, s) <=> ProvProof!Expected(p, s)
  BY <1>4 DEF Prov!Expected, ProvProof!Expected
<1>6. \A w : Prov!ProjectAt(w) = ProvProof!ProjectAt(w)
  BY DEF Prov!ProjectAt, ProvProof!ProjectAt
<1>7. \A run, raised : Prov!NextRecord(run, raised) = ProvProof!NextRecord(run, raised)
  BY DEF Prov!NextRecord, ProvProof!NextRecord
<1>8. \A run : Prov!FirstFailed(run) = ProvProof!FirstFailed(run)
  BY DEF Prov!FirstFailed, ProvProof!FirstFailed
<1>9. \A p, t, o : Prov!Written(p, t, o) = ProvProof!Written(p, t, o)
  BY DEF Prov!Written, ProvProof!Written
<1>10. \A p, e, t, o : Prov!Update(p, e, t, o) = ProvProof!Update(p, e, t, o)
  BY DEF Prov!Update, ProvProof!Update
<1>11. \A w : Prov!UpdateOf(w) = ProvProof!UpdateOf(w)
  BY <1>6, <1>10 DEF Prov!UpdateOf, ProvProof!UpdateOf
<1>12. \A u : Prov!NowLate(u) <=> ProvProof!NowLate(u)
  BY DEF Prov!NowLate, ProvProof!NowLate, Prov!Cardinality, ProvProof!Cardinality
<1> QED
  BY <1>1, <1>2, <1>3, <1>4, <1>5, <1>6, <1>7, <1>8, <1>9, <1>10, <1>11, <1>12

LEMMA SameActions ==
    /\ \A p : Prov!Create(p) <=> ProvProof!Create(p)
    /\ \A p : Prov!Delete(p) <=> ProvProof!Delete(p)
    /\ \A w : Prov!Begin(w) <=> ProvProof!Begin(w)
    /\ \A w : Prov!Provision(w) <=> ProvProof!Provision(w)
    /\ \A w : Prov!Complete(w) <=> ProvProof!Complete(w)
    /\ \A w : Prov!Fail(w) <=> ProvProof!Fail(w)
    /\ \A w : Prov!Deliver(w) <=> ProvProof!Deliver(w)
    /\ \A w : Prov!Respond(w) <=> ProvProof!Respond(w)
    /\ \A w : Prov!Crash(w) <=> ProvProof!Crash(w)
    /\ \A w : Prov!Abandon(w) <=> ProvProof!Abandon(w)
    /\ \A u : Prov!Arrive(u) <=> ProvProof!Arrive(u)
<1>1. \A p : Prov!Create(p) <=> ProvProof!Create(p)
  BY SameOperators DEF Prov!Create, ProvProof!Create, Prov!NewProject,
     ProvProof!NewProject
<1>2. \A p : Prov!Delete(p) <=> ProvProof!Delete(p)
  BY SameOperators DEF Prov!Delete, ProvProof!Delete
<1>3. \A p, e, t, o, a : Prov!Transition(p, e, t, o, a) <=> ProvProof!Transition(p, e, t, o, a)
  BY SameOperators DEF Prov!Transition, ProvProof!Transition
<1>4. Prov!Answers = ProvProof!Answers
  BY DEF Prov!Answers, ProvProof!Answers
<1>5. \A w : Prov!Begin(w) <=> ProvProof!Begin(w)
  BY <1>3, <1>4, SameOperators DEF Prov!Begin, ProvProof!Begin
<1>6. \A w : Prov!Provision(w) <=> ProvProof!Provision(w)
  BY SameOperators DEF Prov!Provision, ProvProof!Provision, Prov!Successes,
     ProvProof!Successes, Prov!Raised, ProvProof!Raised
<1>7. \A w : Prov!Complete(w) <=> ProvProof!Complete(w)
  BY <1>3, <1>4, SameOperators DEF Prov!Complete, ProvProof!Complete
<1>8. \A w : Prov!Fail(w) <=> ProvProof!Fail(w)
  BY <1>3, <1>4, SameOperators DEF Prov!Fail, ProvProof!Fail
<1>9. \A w : Prov!Deliver(w) <=> ProvProof!Deliver(w)
  BY SameOperators DEF Prov!Deliver, ProvProof!Deliver
<1>10. Prov!Advance <=> ProvProof!Advance
  BY DEF Prov!Advance, ProvProof!Advance
<1>11. \A i : Prov!RetryOrDiscard(i) <=> ProvProof!RetryOrDiscard(i)
  BY <1>10 DEF Prov!RetryOrDiscard, ProvProof!RetryOrDiscard, Prov!Half,
     ProvProof!Half
<1>12. \A w : Prov!Respond(w) <=> ProvProof!Respond(w)
  BY <1>10, <1>11, SameOperators DEF Prov!Respond, ProvProof!Respond
<1>13. \A w : Prov!Crash(w) <=> ProvProof!Crash(w)
  BY <1>11, SameOperators DEF Prov!Crash, ProvProof!Crash
<1>14. \A w : Prov!Abandon(w) <=> ProvProof!Abandon(w)
  BY <1>11 DEF Prov!Abandon, ProvProof!Abandon
<1>15. \A u : Prov!Arrive(u) <=> ProvProof!Arrive(u)
  BY SameOperators DEF Prov!Arrive, ProvProof!Arrive
<1> QED
  BY <1>1, <1>2, <1>5, <1>6, <1>7, <1>8, <1>9, <1>12, <1>13, <1>14, <1>15

LEMMA SameSpecification ==
    ProvisionerIsImplemented => ProvProof!Spec
<1>1. Prov!Init => ProvProof!Init
  BY SameOperators DEF Prov!Init, ProvProof!Init
<1>2. Prov!Next <=> ProvProof!Next
  BY SameActions DEF Prov!Next, ProvProof!Next, Prov!Api, ProvProof!Api,
     Prov!Consumer, ProvProof!Consumer, Prov!Invocation, ProvProof!Invocation
<1>3. [Prov!Next]_(Prov!vars) => [ProvProof!Next]_(ProvProof!vars)
  BY <1>2 DEF Prov!vars, ProvProof!vars
<1> QED
  BY <1>1, <1>3, PTL DEF ProvisionerIsImplemented, Prov!Spec, ProvProof!Spec

LEMMA SamePromises ==
    /\ ProvProof!ProvisionedOnce => Prov!ProvisionedOnce
    /\ ProvProof!StatusMovesForward => Prov!StatusMovesForward
    /\ ProvProof!DeletedStaysDeleted => Prov!DeletedStaysDeleted
    /\ ProvProof!StuckOnlyByFailure => Prov!StuckOnlyByFailure
    /\ []ProvProof!StatusIsTruthful => []Prov!StatusIsTruthful
    /\ []ProvProof!NothingSkipped => []Prov!NothingSkipped
<1>1. ProvProof!ProvisionedOnce => Prov!ProvisionedOnce
  BY DEF Prov!ProvisionedOnce, ProvProof!ProvisionedOnce, Prov!vars,
     ProvProof!vars
<1>2. ProvProof!StatusMovesForward => Prov!StatusMovesForward
  BY DEF Prov!StatusMovesForward, ProvProof!StatusMovesForward,
     Prov!StatusOrder, ProvProof!StatusOrder, Prov!Live, ProvProof!Live,
     Prov!vars, ProvProof!vars
<1>3. ProvProof!DeletedStaysDeleted => Prov!DeletedStaysDeleted
  BY DEF Prov!DeletedStaysDeleted, ProvProof!DeletedStaysDeleted, Prov!Live,
     ProvProof!Live, Prov!Positions, ProvProof!Positions, Prov!vars,
     ProvProof!vars
<1>4. ProvProof!StuckOnlyByFailure => Prov!StuckOnlyByFailure
  BY DEF Prov!StuckOnlyByFailure, ProvProof!StuckOnlyByFailure, Prov!Stuck,
     ProvProof!Stuck, Prov!Expected, ProvProof!Expected, Prov!Live,
     ProvProof!Live, Prov!Update, ProvProof!Update, Prov!ProjectAt, ProvProof!ProjectAt, Prov!vars,
     ProvProof!vars
<1>5. ProvProof!StatusIsTruthful => Prov!StatusIsTruthful
  BY DEF Prov!StatusIsTruthful, ProvProof!StatusIsTruthful, Prov!Live,
     ProvProof!Live, Prov!Raised, ProvProof!Raised
<1>6. ProvProof!NothingSkipped => Prov!NothingSkipped
  BY SameOperators DEF Prov!NothingSkipped, ProvProof!NothingSkipped
<1> QED
  BY <1>1, <1>2, <1>3, <1>4, <1>5, <1>6, PTL

\* The constants, as Provisioner and its proofs take them.
ProvisionerConstants ==
    /\ BatchSize \in Nat \ {0} /\ MaxRetries \in Nat /\ MaxLate \in Nat
    /\ Faults \subseteq Prov!FaultKinds /\ Absent \notin Workers

LEMMA SameConstants ==
    ASSUME ProvisionerConstants
    PROVE  /\ BatchSize \in Nat \ {0} /\ MaxRetries \in Nat /\ MaxLate \in Nat
           /\ Faults \subseteq ProvProof!FaultKinds /\ Absent \notin Workers
           /\ NameKeyOf \in [Names -> NameKeys]
           /\ Absent \notin ProjectIds /\ Absent \notin Names /\ Absent \notin Owners
           /\ Absent \notin ProvProof!ProjectItem
<1>1. Absent \notin ProvProof!ProjectItem
  BY AbsentIsNoItem DEF ProjectItem, ProjectStatus, ProvProof!ProjectItem, ProvProof!ProjectStatus
<1>2. Faults \subseteq ProvProof!FaultKinds
  BY DEF ProvisionerConstants, Prov!FaultKinds, ProvProof!FaultKinds
<1> QED
  BY <1>1, <1>2, AbsentIsNoItem, NameKeyOfType DEF ProvisionerConstants

\* In the whole system, with the API's creates and deletes: provision() runs at
\* most once for a project, statuses tell the truth and move forward only, no
\* update resurrects an item, no record is skipped, and a project gets stuck
\* only by a failure.
THEOREM SystemKeepsProvisionersPromises ==
    ASSUME RestoreAllowed = FALSE, ReusableIds = {}, ProvisionerConstants
    PROVE  SysSpec => /\ Prov!ProvisionedOnce /\ Prov!StatusMovesForward
                      /\ Prov!DeletedStaysDeleted /\ Prov!StuckOnlyByFailure
                      /\ []Prov!StatusIsTruthful /\ []Prov!NothingSkipped
<1>1. SysSpec => ProvisionerIsImplemented
  BY SystemImplementsProvisioner
<1>2. ProvProof!Spec => ProvProof!ProvisionedOnce
  BY SameConstants, ProvProof!ProvisionsOnce
<1>3. ProvProof!Spec => ProvProof!StatusMovesForward
  BY SameConstants, ProvProof!StatusesMoveForward
<1>4. ProvProof!Spec => ProvProof!DeletedStaysDeleted
  BY SameConstants, ProvProof!StaysDeleted
<1>5. ProvProof!Spec => ProvProof!StuckOnlyByFailure
  BY SameConstants, ProvProof!FailuresStick
<1>6. ProvProof!Spec => []ProvProof!StatusIsTruthful
  BY SameConstants, ProvProof!StatusTellsTruth
<1>7. ProvProof!Spec => []ProvProof!NothingSkipped
  BY SameConstants, ProvProof!SkipsNothing
<1> QED
  BY <1>1, <1>2, <1>3, <1>4, <1>5, <1>6, <1>7, SameSpecification, SamePromises, PTL

\* A project that is still CREATED has its record on the stream, not yet behind
\* the mapping, or in the dead-letter queue, whatever fails.
THEOREM NewProjectsStayNoticed ==
    ASSUME RestoreAllowed = FALSE, ReusableIds = {}, ProvisionerConstants
    PROVE  SysSpec => []NewProjectsAreNoticed
<1>1. SysInv /\ Prov!NothingSkipped /\ ProvProof!TypeOK => NewProjectsAreNoticed
  <2> SUFFICES ASSUME SysInv, Prov!NothingSkipped, ProvProof!TypeOK,
                      NEW p \in ProjectIds, Prov!Expected(p, "CREATED")
               PROVE  \E i \in 1 .. Len(stream) :
                         stream[i] = p /\ (i >= esm.next \/ i \in dlq)
    BY DEF NewProjectsAreNoticed
  <2>1. PICK i \in 1 .. Len(stream) : stream[i] = p
    BY DEF SysInv, ProjectsAreStreamed, Prov!Expected, Prov!Live
  <2>2. i < esm.next => i \in dlq
    BY <2>1 DEF Prov!NothingSkipped, Prov!Positions
  <2>3. esm.next \in Nat
    BY DEF ProvProof!TypeOK
  <2> QED
    BY <2>1, <2>2, <2>3
<1>2. SysInv /\ [SysNext]_sysVars => SysInv'
  BY SysInvStep
<1>3. SysSpec => []SysInv
  BY <1>2, SysInvInit, PTL DEF SysSpec
<1>4. SysSpec => []Prov!NothingSkipped
  BY SystemKeepsProvisionersPromises, PTL
<1>5. ProvProof!Spec => []ProvProof!TypeOK
  BY SameConstants, ProvProof!TypeCorrect
<1>6. SysSpec => ProvisionerIsImplemented
  BY SystemImplementsProvisioner
<1> QED
  BY <1>1, <1>3, <1>4, <1>5, <1>6, SameSpecification, PTL
=============================================================================
