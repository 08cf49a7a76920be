----------------------------- MODULE Provisioner -----------------------------
(***************************************************************************)
(* The stream consumer: the provisioner Lambda and the event source        *)
(* mapping that feeds it.                                                  *)
(*                                                                         *)
(* Creating a project puts a record on the table's stream.  The mapping    *)
(* hands the function one batch at a time and waits for its response; when *)
(* the batch fails it is delivered again, from the first failed record on, *)
(* until the retries are used up and it goes to the dead-letter queue.     *)
(* The mapping may give up on an invocation that is still running, so two  *)
(* invocations can work on the same records at once.                       *)
(*                                                                         *)
(* The mapping's filter passes only INSERTs of PROJECT items, and those    *)
(* are always inserted as CREATED, so the checks record_handler repeats on *)
(* the image never skip a record here.                                     *)
(***************************************************************************)
EXTENDS ProjectsTable, Naturals, Sequences, FiniteSets

CONSTANTS
    Workers,      \* execution environments of the provisioner Lambda
    BatchSize,    \* batch_size = 10
    MaxRetries,   \* maximum_retry_attempts = 3
    Faults,       \* what may go wrong: a subset of FaultKinds
    MaxLate       \* how many updates may be late at a time

(***************************************************************************)
(* "refused":    every attempt of an UpdateItem fails, the item untouched. *)
(* "answerLost": an UpdateItem is applied, but its answer does not arrive. *)
(* "crash":      an invocation dies, or runs into the function timeout.    *)
(* "abandoned":  the mapping gives up on an invocation that goes on.       *)
(***************************************************************************)
FaultKinds == {"refused", "answerLost", "crash", "abandoned"}

ASSUME BatchSizeType == BatchSize \in Nat \ {0}
ASSUME MaxRetriesType == MaxRetries \in Nat
ASSUME FaultsType == Faults \subseteq FaultKinds
ASSUME MaxLateType == MaxLate \in Nat
ASSUME NobodyIsNoWorker == Absent \notin Workers

VARIABLES
    records,   \* the META items, by project id
    stream,    \* the stream: the ids of the inserted projects, in order
    esm,       \* the mapping: the window of the stream it is working on
    dlq,       \* the stream positions sent to the dead-letter queue
    runs,      \* the invocation each worker is running
    result,    \* what provision() returned or raised for a project
    late       \* the updates still on their way that nobody waits for

vars == <<records, stream, esm, dlq, runs, result, late>>

\* What a Provisioner made of a project: it raised, or it succeeded and
\* returned an endpoint or none.
Raised == "raised"
Successes == {"none", "endpoint"}

Positions == 1 .. Len(stream)

\* The conditional UpdateItems that ProjectStatusStore._transition sends.
Updates == [project: ProjectIds, expected: ProjectStatus, target: ProjectStatus,
            outcome: {"none", "endpoint", "failureReason"}]

Update(p, expected, target, outcome) ==
    [project |-> p, expected |-> expected, target |-> target, outcome |-> outcome]

Idle == [pc |-> "idle", at |-> 0, last |-> 0, failed |-> {}, got |-> "none"]

TypeOK ==
    /\ records \in [ProjectIds -> ProjectItem \cup {Absent}]
    /\ stream \in Seq(ProjectIds)
    /\ esm \in [next: 1 .. Len(stream) + 1, last: 0 .. Len(stream),
                retries: 0 .. MaxRetries, worker: Workers \cup {Absent}]
    /\ dlq \subseteq 1 .. esm.next - 1
    /\ \A w \in Workers :
          /\ runs[w].pc \in {"idle", "begin", "provision", "complete", "fail", "respond"}
          /\ runs[w].pc # "idle" =>
                /\ 1 <= runs[w].at /\ runs[w].at <= runs[w].last
                /\ runs[w].last <= Len(stream)
                /\ runs[w].failed \subseteq 1 .. runs[w].at
    /\ result \in [ProjectIds -> {"notRun", Raised} \cup Successes]
    /\ late \subseteq Updates

Init ==
    /\ records = [p \in ProjectIds |-> Absent]
    /\ stream = <<>>
    /\ esm = [next |-> 1, last |-> 0, retries |-> 0, worker |-> Absent]
    /\ dlq = {}
    /\ runs = [w \in Workers |-> Idle]
    /\ result = [p \in ProjectIds |-> "notRun"]
    /\ late = {}

-----------------------------------------------------------------------------
Live(p) == records[p] # Absent

\* The project of the stream record worker w is at.
ProjectAt(w) == stream[runs[w].at]

-----------------------------------------------------------------------------
(***************************************************************************)
(* What the API does to the table, seen from here.                         *)
(***************************************************************************)
Create(p) ==
    /\ p \notin {stream[i] : i \in Positions}
    /\ \E owner \in Owners, name \in Names :
          records' = [records EXCEPT ![p] = NewProject(owner, name)]
    /\ stream' = Append(stream, p)
    /\ UNCHANGED <<esm, dlq, runs, result, late>>

Delete(p) ==
    /\ Live(p)
    /\ records' = [records EXCEPT ![p] = Absent]
    /\ UNCHANGED <<stream, esm, dlq, runs, result, late>>

-----------------------------------------------------------------------------
(***************************************************************************)
(* ProjectStatusStore._transition: UpdateItem with the condition that the  *)
(* status is the expected one.  It answers TRUE or FALSE or raises.  boto3 *)
(* retries an UpdateItem whose answer is lost; the update carries no       *)
(* request token, so the retry meets the status the first attempt set and  *)
(* fails its condition -- unless its answer, too, is lost.                 *)
(***************************************************************************)
\* Mutant: the update has no condition on the status.
MutExpected(p, status) == Live(p)

Expected(p, status) == Live(p) /\ records[p].status = status

Written(p, target, outcome) ==
    [records EXCEPT ![p].status = target, ![p].outcome = outcome]

\* Mutant: an unconditional UpdateItem, which creates a missing item.
MutTransition(p, expected, target, outcome, answer) ==
    /\ answer = "true"
    /\ late' = late
    /\ records' =
          IF Live(p) THEN Written(p, target, outcome)
          ELSE [records EXCEPT ![p] =
                  [owner |-> CHOOSE o \in Owners : TRUE, name |-> CHOOSE n \in Names : TRUE,
                   status |-> target, outcome |-> outcome]]

\* The invocation stops waiting for u, which is still on its way to the table.
NowLate(u) ==
    /\ Cardinality(late) < MaxLate
    /\ late' = late \cup {u}

Transition(p, expected, target, outcome, answer) ==
    \/ /\ answer = "true"
       /\ Expected(p, expected)
       /\ records' = Written(p, target, outcome)
       /\ late' = late
    \/ /\ answer = "false"
       /\ ~Expected(p, expected)
       /\ UNCHANGED <<records, late>>
    \/ /\ "refused" \in Faults
       /\ answer = "raised"
       /\ UNCHANGED <<records, late>>
    \/ /\ "answerLost" \in Faults
       /\ answer \in {"false", "raised"}
       /\ Expected(p, expected)
       /\ records' = Written(p, target, outcome)
       /\ late' = late
    \/ /\ answer = "raised"
       /\ NowLate(Update(p, expected, target, outcome))
       /\ records' = records

Answers == {"true", "false", "raised"}

-----------------------------------------------------------------------------
(***************************************************************************)
(* record_handler, for the stream record at runs[w].at.  BatchProcessor    *)
(* notes a record whose handler raised and goes on with the next one.      *)
(***************************************************************************)
\* Mutants: a raised error is swallowed; the loop runs past the batch.
MutNextRecordSwallows(run, raised) ==
    [run EXCEPT !.pc = IF run.at < run.last THEN "begin" ELSE "respond",
                !.at = IF run.at < run.last THEN @ + 1 ELSE @,
                !.got = "none"]

MutNextRecordOffByOne(run, raised) ==
    [run EXCEPT !.failed = IF raised THEN @ \cup {run.at} ELSE @,
                !.pc = IF run.at <= run.last THEN "begin" ELSE "respond",
                !.at = @ + 1,
                !.got = "none"]

NextRecord(run, raised) ==
    [run EXCEPT !.failed = IF raised THEN @ \cup {run.at} ELSE @,
                !.pc = IF run.at < run.last THEN "begin" ELSE "respond",
                !.at = IF run.at < run.last THEN @ + 1 ELSE @,
                !.got = "none"]

\* CREATED -> PROVISIONING; FALSE means the record is handled: skip it.
Begin(w) ==
    /\ runs[w].pc = "begin"
    /\ \E answer \in Answers :
          /\ Transition(ProjectAt(w), "CREATED", "PROVISIONING", "none", answer)
          /\ runs' = [runs EXCEPT ![w] =
                        IF answer = "true" THEN [@ EXCEPT !.pc = "provision"]
                        ELSE NextRecord(@, answer = "raised")]
    /\ UNCHANGED <<stream, esm, dlq, result>>

\* Mutants: an exception of the provisioner counts as success; it propagates
\* out of the record handler.
MutProvisionIgnores(w) ==
    /\ runs[w].pc = "provision"
    /\ \E got \in Successes \cup {Raised} :
          /\ result' = [result EXCEPT ![ProjectAt(w)] = got]
          /\ runs' = [runs EXCEPT ![w].pc = "complete",
                        ![w].got = IF got = Raised THEN "none" ELSE got]
    /\ UNCHANGED <<records, stream, esm, dlq, late>>

MutProvisionPropagates(w) ==
    /\ runs[w].pc = "provision"
    /\ \E got \in Successes \cup {Raised} :
          /\ result' = [result EXCEPT ![ProjectAt(w)] = got]
          /\ runs' = [runs EXCEPT ![w] =
                        IF got = Raised THEN NextRecord(@, TRUE)
                        ELSE [@ EXCEPT !.pc = "complete", !.got = got]]
    /\ UNCHANGED <<records, stream, esm, dlq, late>>

Provision(w) ==
    /\ runs[w].pc = "provision"
    /\ \E got \in Successes \cup {Raised} :
          /\ result' = [result EXCEPT ![ProjectAt(w)] = got]
          /\ runs' = [runs EXCEPT
                        ![w].pc = IF got = Raised THEN "fail" ELSE "complete",
                        ![w].got = IF got = Raised THEN "none" ELSE got]
    /\ UNCHANGED <<records, stream, esm, dlq, late>>

\* PROVISIONING -> READY.  TRUE and FALSE both count as processed.
Complete(w) ==
    /\ runs[w].pc = "complete"
    /\ \E answer \in Answers :
          /\ Transition(ProjectAt(w), "PROVISIONING", "READY", runs[w].got, answer)
          /\ runs' = [runs EXCEPT ![w] = NextRecord(@, answer = "raised")]
    /\ UNCHANGED <<stream, esm, dlq, result>>

\* PROVISIONING -> FAILED, with the reason.
Fail(w) ==
    /\ runs[w].pc = "fail"
    /\ \E answer \in Answers :
          /\ Transition(ProjectAt(w), "PROVISIONING", "FAILED", "failureReason", answer)
          /\ runs' = [runs EXCEPT ![w] = NextRecord(@, answer = "raised")]
    /\ UNCHANGED <<stream, esm, dlq, result>>

-----------------------------------------------------------------------------
(***************************************************************************)
(* The event source mapping.                                               *)
(***************************************************************************)
Advance == esm' = [next |-> esm.last + 1, last |-> 0, retries |-> 0, worker |-> Absent]

(***************************************************************************)
(* The records from position `from` on were not processed.  They are tried *)
(* again, possibly only their first half (bisect_batch_on_function_error;  *)
(* the other half follows later), or else given to the dead-letter queue.  *)
(***************************************************************************)
Half(from) == (from + esm.last) \div 2

\* Mutant: no dead-letter queue.
MutRetryOrDiscard(from) ==
    /\ dlq' = dlq
    /\ \/ /\ esm.retries < MaxRetries
          /\ esm' = [next |-> from, last |-> esm.last,
                     retries |-> esm.retries + 1, worker |-> Absent]
       \/ esm.retries = MaxRetries /\ Advance

RetryOrDiscard(from) ==
    \/ /\ esm.retries < MaxRetries
       /\ \E last \in {esm.last, Half(from)} :
             esm' = [next |-> from, last |-> last,
                     retries |-> esm.retries + 1, worker |-> Absent]
       /\ dlq' = dlq
    \/ /\ esm.retries = MaxRetries
       /\ Advance
       /\ dlq' = dlq \cup (from .. esm.last)

\* A new batch is whatever has been collected, up to BatchSize records; a
\* batch that is tried again is the rest of the old one.
BatchEnds ==
    IF esm.last >= esm.next THEN {esm.last}
    ELSE {i \in Positions : esm.next <= i /\ i < esm.next + BatchSize}

Deliver(w) ==
    /\ esm.worker = Absent
    /\ runs[w].pc = "idle"
    /\ \E last \in BatchEnds :
          /\ esm' = [esm EXCEPT !.last = last, !.worker = w]
          /\ runs' = [runs EXCEPT ![w] =
                        [Idle EXCEPT !.pc = "begin", !.at = esm.next, !.last = last]]
    /\ UNCHANGED <<records, stream, dlq, result, late>>

(***************************************************************************)
(* The batch response.  The mapping takes up again at the first failed     *)
(* record; when every record failed BatchProcessor raises, which fails the *)
(* batch from its first record on.                                         *)
(***************************************************************************)
FirstFailed(run) == CHOOSE i \in run.failed : \A j \in run.failed : i <= j

Respond(w) ==
    /\ runs[w].pc = "respond"
    /\ runs' = [runs EXCEPT ![w] = Idle]
    /\ \/ /\ esm.worker # w
          /\ UNCHANGED <<esm, dlq>>
       \/ /\ esm.worker = w
          /\ runs[w].failed = {}
          /\ Advance
          /\ dlq' = dlq
       \/ /\ esm.worker = w
          /\ runs[w].failed # {}
          /\ RetryOrDiscard(FirstFailed(runs[w]))
    /\ UNCHANGED <<records, stream, result, late>>

\* The update the invocation of w is about.
UpdateOf(w) ==
    CASE runs[w].pc = "begin" -> Update(ProjectAt(w), "CREATED", "PROVISIONING", "none")
      [] runs[w].pc = "complete" ->
            Update(ProjectAt(w), "PROVISIONING", "READY", runs[w].got)
      [] runs[w].pc = "fail" ->
            Update(ProjectAt(w), "PROVISIONING", "FAILED", "failureReason")

Crash(w) ==
    /\ "crash" \in Faults
    /\ runs[w].pc # "idle"
    /\ runs' = [runs EXCEPT ![w] = Idle]
    /\ \/ esm.worker = w /\ RetryOrDiscard(esm.next)
       \/ esm.worker # w /\ UNCHANGED <<esm, dlq>>
    /\ \/ late' = late
       \/ /\ runs[w].pc \in {"begin", "complete", "fail"}
          /\ NowLate(UpdateOf(w))
    /\ UNCHANGED <<records, stream, result>>

Abandon(w) ==
    /\ "abandoned" \in Faults
    /\ esm.worker = w
    /\ RetryOrDiscard(esm.next)
    /\ UNCHANGED <<records, stream, runs, result, late>>

\* An update that nobody waits for any more gets to the table.
Arrive(u) ==
    /\ late' = late \ {u}
    /\ records' = IF Expected(u.project, u.expected)
                  THEN Written(u.project, u.target, u.outcome) ELSE records
    /\ UNCHANGED <<stream, esm, dlq, runs, result>>

-----------------------------------------------------------------------------
\* What an invocation that is under way does by itself.
Invocation(w) ==
    Begin(w) \/ Provision(w) \/ Complete(w) \/ Fail(w) \/ Respond(w)

Consumer ==
    \/ \E w \in Workers : Invocation(w) \/ Deliver(w) \/ Crash(w) \/ Abandon(w)
    \/ \E u \in late : Arrive(u)

Api == \E p \in ProjectIds : Create(p) \/ Delete(p)

Next == Consumer \/ Api

Spec == Init /\ [][Next]_vars

\* An invocation runs until it ends, and the mapping keeps polling.
Fairness ==
    /\ \A w \in Workers : WF_vars(Invocation(w))
    /\ WF_vars(\E w \in Workers : Deliver(w))

FairSpec == Spec /\ Fairness
-----------------------------------------------------------------------------
(***************************************************************************)
(* Safety.                                                                 *)
(***************************************************************************)

\* No stream record is lost: one the mapping has moved past was handled --
\* its project has left CREATED or is gone -- or is in the dead-letter queue.
NothingSkipped ==
    \A i \in Positions :
        (i < esm.next /\ i \notin dlq) => ~Expected(stream[i], "CREATED")

\* The status tells what the provisioner did: READY, with the endpoint it
\* returned, only if it succeeded; FAILED only if it raised.
StatusIsTruthful ==
    \A p \in ProjectIds :
        Live(p) =>
            CASE records[p].status = "READY"  -> records[p].outcome = result[p]
              [] records[p].status = "FAILED" ->
                    result[p] = Raised /\ records[p].outcome = "failureReason"
              [] records[p].status = "CREATED" -> result[p] = "notRun"
              [] OTHER -> records[p].outcome = "none"

-----------------------------------------------------------------------------
(***************************************************************************)
(* What no step may do.                                                    *)
(***************************************************************************)

\* provision() is called at most once for a project, however often its
\* stream record is delivered and however many invocations hold it (a second
\* call would be free to come to another result).
ProvisionedOnce ==
    [][\A p \in ProjectIds : result[p] # "notRun" => result'[p] = result[p]]_vars

StatusOrder == [CREATED |-> 0, PROVISIONING |-> 1, READY |-> 2, FAILED |-> 2]

\* A project's status only moves forward, and the final ones stay: a stale
\* replay never overwrites a later state.
StatusMovesForward ==
    [][\A p \in ProjectIds :
          (Live(p) /\ records'[p] # Absent) =>
              \/ records'[p] = records[p]
              \/ StatusOrder[records'[p].status] = StatusOrder[records[p].status] + 1]_vars

\* A project deleted while it is provisioned stays deleted: no transition
\* writes a record for it again.
DeletedStaysDeleted ==
    [][\A p \in ProjectIds :
          (~Live(p) /\ records'[p] # Absent) => p \notin {stream[i] : i \in Positions}]_vars

\* In PROVISIONING with no invocation working on it: no delivery of its stream
\* record will take it up again.
Stuck(p) ==
    /\ Expected(p, "PROVISIONING")
    /\ \A w \in Workers :
          runs[w].pc \in {"provision", "complete", "fail"} => ProjectAt(w) # p

\* A project gets stuck in PROVISIONING only when the invocation that moved it
\* there dies, its last status update fails, or the update to PROVISIONING took
\* effect without its invocation hearing of it -- never because provisioning
\* raises, a record is delivered twice, or the mapping gives up on an invocation.
StuckOnlyByFailure ==
    [][\A p \in ProjectIds :
          (~Stuck(p) /\ Stuck(p)') =>
              \/ \E w \in Workers :
                    /\ runs[w].pc \in {"provision", "complete", "fail"}
                    /\ ProjectAt(w) = p
                    /\ \/ runs'[w].pc = "idle"
                       \/ runs[w].pc # "provision" /\ runs[w].at \in runs'[w].failed
              \/ \E w \in Workers :
                    /\ runs[w].pc = "begin" /\ ProjectAt(w) = p
                    /\ Expected(p, "CREATED") /\ runs'[w].pc # "provision"
              \/ Update(p, "CREATED", "PROVISIONING", "none") \in late \ late']_vars

-----------------------------------------------------------------------------
(***************************************************************************)
(* Liveness.                                                               *)
(***************************************************************************)
InDlq(p) == \E i \in dlq : stream[i] = p

\* Whatever goes wrong, no project waits in CREATED for ever unless its
\* stream record is in the dead-letter queue.
NoneWaitsUnnoticed ==
    \A p \in ProjectIds :
        []<>(Expected(p, "CREATED") => InDlq(p))

-----------------------------------------------------------------------------
(***************************************************************************)
(* A claim of the documentation.                                           *)
(***************************************************************************)

\* The handler's docstring, of a failed condition: "another invocation
\* already handled this record: skip" -- a record that is skipped had left
\* CREATED before this invocation tried it.
SkippedWasHandled ==
    [][\A w \in Workers :
          (/\ runs[w].pc = "begin"
           /\ runs'[w].pc \in {"begin", "respond"}
           /\ runs[w].at \notin runs'[w].failed) =>
               ~Expected(ProjectAt(w), "CREATED")]_vars
=============================================================================
