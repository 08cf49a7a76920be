-------------------------- MODULE ProjectRepository --------------------------
(***************************************************************************)
(* The API side of the table: POST, GET and DELETE /v1/projects, from the  *)
(* route down to the DynamoDB calls of ProjectRepository.                  *)
(*                                                                         *)
(* Each element of Requests is one HTTP request, run by one Lambda         *)
(* invocation; any number of them run at once.  A write is one             *)
(* TransactWriteItems call which boto3 attempts up to MaxAttempts times:   *)
(* a request or an answer may be lost, or late, so the table evaluates an  *)
(* attempt (EvaluateCreate, EvaluateDelete), and the invocation sees the   *)
(* result (Receive), at different moments.  By the time an attempt gets to *)
(* the table the invocation may have sent another, or be gone.             *)
(***************************************************************************)
EXTENDS ProjectsTable, Naturals, FiniteSets

CONSTANTS
    Requests,        \* the HTTP requests of a behaviour
    MaxAttempts,     \* boto3 retries={"max_attempts": 5}
    ReusableIds,     \* ids uuid4 may produce a second time ({} in practice)
    RestoreAllowed   \* whether an operator copies back single items

ASSUME MaxAttemptsType == MaxAttempts \in Nat \ {0}
ASSUME ReusableIdsType == ReusableIds \subseteq ProjectIds
ASSUME RestoreAllowedType == RestoreAllowed \in BOOLEAN

VARIABLES
    records,        \* the META items, by project id
    reservations,   \* the NAME#<key>/RESERVATION items: the projectId they hold
    issued,         \* the ids Project.new has handed out
    req             \* the requests, with the state of their handler

vars == <<records, reservations, issued, req>>

\* What the table made of an attempt: cancellation reasons, or "applied".
Verdicts == {"applied", "nameTaken", "idTaken", "noRecord", "mismatch", "conflict"}

\* What the client was told; "error" is a 500, "lost" a gateway 502/504.
Answers == {"created", "found", "deleted", "nameTaken", "notFound", "error", "lost"}

(***************************************************************************)
(* `call` is the last attempt: "sent", or what the table made of it.  The  *)
(* earlier attempts that are still on their way are all alike, so `late`   *)
(* counts them; one that is lost is never evaluated.                       *)
(***************************************************************************)
Request ==
    [op: {"none", "create", "get", "delete"},
     caller: Owners \cup {Absent},
     id: ProjectIds \cup {Absent},
     name: Names \cup {Absent},
     pc: {"idle", "read", "write", "done"},
     call: Verdicts \cup {"none", "sent"},
     attempts: 0 .. MaxAttempts,
     late: 0 .. MaxAttempts,
     applied: BOOLEAN,
     answer: Answers \cup {"none"}]

\* A request that has just begun, with its first call under way if it writes
\* and its answer given if it is malformed.
Begun(op, caller, id, name, pc) ==
    [op |-> op, caller |-> caller, id |-> id, name |-> name, pc |-> pc,
     call |-> IF pc = "write" THEN "sent" ELSE "none",
     attempts |-> IF pc = "write" THEN 1 ELSE 0,
     late |-> 0,
     applied |-> FALSE,
     answer |-> IF pc = "done" THEN "notFound" ELSE "none"]

IdleRequest == Begun("none", Absent, Absent, Absent, "idle")

TypeOK ==
    /\ records \in [ProjectIds -> ProjectItem \cup {Absent}]
    /\ reservations \in [NameKeys -> ProjectIds \cup {Absent}]
    /\ issued \in SUBSET ProjectIds
    /\ req \in [Requests -> Request]

Init ==
    /\ records = [p \in ProjectIds |-> Absent]
    /\ reservations = [k \in NameKeys |-> Absent]
    /\ issued = {}
    /\ req = [r \in Requests |-> IdleRequest]

-----------------------------------------------------------------------------
Live(p) == records[p] # Absent

KeyOf(r) == NameKeyOf[req[r].name]

\* uuid4().hex: an id nobody has had, except for those a run lets collide.
FreshIds == (ProjectIds \ issued) \cup ReusableIds

IsValidProjectId(id) == id \in ProjectIds

Reply(r, answer) ==
    req' = [req EXCEPT ![r].pc = "done", ![r].answer = answer]

OnItsWay(r) == req[r].call = "sent" \/ req[r].late > 0

(***************************************************************************)
(* The table has evaluated an attempt of r: the last one, of which the     *)
(* invocation may hear, or an earlier one, of which nobody will.           *)
(***************************************************************************)
Evaluated(r, verdict) ==
    LET applied == req[r].applied \/ verdict = "applied"
    IN  \/ /\ req[r].call = "sent"
           /\ req' = [req EXCEPT ![r].call = verdict, ![r].applied = applied]
        \/ /\ req[r].late > 0
           /\ req' = [req EXCEPT ![r].late = @ - 1, ![r].applied = applied]

-----------------------------------------------------------------------------
(***************************************************************************)
(* create_project: build the project, then send the transaction.           *)
(***************************************************************************)
StartCreate(r) ==
    /\ req[r].pc = "idle"
    /\ \E caller \in Owners, name \in Names, id \in FreshIds :
          /\ req' = [req EXCEPT ![r] = Begun("create", caller, id, name, "write")]
          /\ issued' = issued \cup {id}
    /\ UNCHANGED <<records, reservations>>

(***************************************************************************)
(* get_project and delete_project: any id text may be asked for; Absent    *)
(* stands for text that is not a project id, answered without the table.   *)
(***************************************************************************)
StartById(r) ==
    /\ req[r].pc = "idle"
    /\ \E caller \in Owners, id \in ProjectIds \cup {Absent}, op \in {"get", "delete"} :
          req' = [req EXCEPT ![r] =
                    Begun(op, caller, id, Absent,
                          IF IsValidProjectId(id) THEN "read" ELSE "done")]
    /\ UNCHANGED <<records, reservations, issued>>

\* Mutant: the owner is not compared.
MutOwnedBy(p, owner) == Live(p)

\* The ownership test of get_project and of ProjectRepository.delete, and of
\* the delete transaction's condition: a missing item and another owner's
\* item are told apart nowhere.
OwnedBy(p, owner) == Live(p) /\ records[p].owner = owner

\* Mutant: an eventually consistent read may miss a recent create.
MutReadRecord(r) ==
    /\ req[r].pc = "read"
    /\ \/ Reply(r, "notFound")
       \/ OwnedBy(req[r].id, req[r].caller) /\ Reply(r, "found")
    /\ UNCHANGED <<records, reservations, issued>>

(***************************************************************************)
(* ProjectRepository.get, a consistent read; delete goes on with the name  *)
(* it read, from which it computes the reservation's key.                  *)
(***************************************************************************)
ReadRecord(r) ==
    /\ req[r].pc = "read"
    /\ \/ /\ ~OwnedBy(req[r].id, req[r].caller)
          /\ Reply(r, "notFound")
       \/ /\ OwnedBy(req[r].id, req[r].caller)
          /\ req[r].op = "get"
          /\ Reply(r, "found")
       \/ /\ OwnedBy(req[r].id, req[r].caller)
          /\ req[r].op = "delete"
          /\ req' = [req EXCEPT ![r].name = records[req[r].id].name,
                       ![r].pc = "write", ![r].call = "sent", ![r].attempts = 1]
    /\ UNCHANGED <<records, reservations, issued>>

\* GetItem failed on every attempt: the error propagates and becomes a 500.
ReadFails(r) ==
    /\ req[r].pc = "read"
    /\ Reply(r, "error")
    /\ UNCHANGED <<records, reservations, issued>>

-----------------------------------------------------------------------------
(***************************************************************************)
(* The table evaluates an attempt that is on its way.  boto3 gives every   *)
(* TransactWriteItems call a ClientRequestToken that all its attempts      *)
(* carry: one that was applied is answered again, never applied again.     *)
(* One that was cancelled may still be applied, by another attempt.        *)
(***************************************************************************)
\* Mutant: the attempts of one call carry no token.
MutTokenSeen(r) == FALSE

TokenSeen(r) == req[r].applied

\* Mutant: the reservation is put unconditionally.
MutNameIsFree(r) == TRUE

NameIsFree(r) == reservations[KeyOf(r)] = Absent

\* Mutant: the record is put unconditionally.
MutIdIsFree(r) == TRUE

IdIsFree(r) == ~Live(req[r].id)

ApplyCreate(r) ==
    /\ reservations' = [reservations EXCEPT ![KeyOf(r)] = req[r].id]
    /\ records' = [records EXCEPT ![req[r].id] = NewProject(req[r].caller, req[r].name)]
    /\ Evaluated(r, "applied")

EvaluateCreate(r) ==
    /\ OnItsWay(r)
    /\ req[r].op = "create"
    /\ \/ /\ TokenSeen(r)
          /\ Evaluated(r, "applied")
          /\ UNCHANGED <<records, reservations>>
       \/ /\ ~TokenSeen(r) /\ NameIsFree(r) /\ IdIsFree(r)
          /\ ApplyCreate(r)
       \/ /\ ~TokenSeen(r) /\ ~NameIsFree(r)
          /\ Evaluated(r, "nameTaken")
          /\ UNCHANGED <<records, reservations>>
       \/ /\ ~TokenSeen(r) /\ NameIsFree(r) /\ ~IdIsFree(r)
          /\ Evaluated(r, "idTaken")
          /\ UNCHANGED <<records, reservations>>
    /\ UNCHANGED issued

\* Mutant: the record is deleted without a condition.
MutRecordIsOwned(r) == TRUE

\* Condition [0] of the delete transaction, on the record.
RecordIsOwned(r) == OwnedBy(req[r].id, req[r].caller)

\* Mutant: the reservation is deleted without a condition.
MutNameIsReserved(r) == TRUE

\* Condition [1], on the reservation of the name read before.
NameIsReserved(r) == reservations[KeyOf(r)] = req[r].id

\* Mutant: the reservation is left behind.
MutApplyDelete(r) ==
    /\ records' = [records EXCEPT ![req[r].id] = Absent]
    /\ Evaluated(r, "applied")
    /\ UNCHANGED reservations

ApplyDelete(r) ==
    /\ reservations' = [reservations EXCEPT ![KeyOf(r)] = Absent]
    /\ records' = [records EXCEPT ![req[r].id] = Absent]
    /\ Evaluated(r, "applied")

\* Mutant: neither delete has a condition.
MutEvaluateDelete(r) ==
    /\ OnItsWay(r) /\ req[r].op = "delete"
    /\ ApplyDelete(r)
    /\ UNCHANGED issued

EvaluateDelete(r) ==
    /\ OnItsWay(r)
    /\ req[r].op = "delete"
    /\ \/ /\ TokenSeen(r)
          /\ Evaluated(r, "applied")
          /\ UNCHANGED <<records, reservations>>
       \/ /\ ~TokenSeen(r) /\ RecordIsOwned(r) /\ NameIsReserved(r)
          /\ ApplyDelete(r)
       \/ /\ ~TokenSeen(r) /\ ~RecordIsOwned(r)
          /\ Evaluated(r, "noRecord")
          /\ UNCHANGED <<records, reservations>>
       \/ /\ ~TokenSeen(r) /\ RecordIsOwned(r) /\ ~NameIsReserved(r)
          /\ Evaluated(r, "mismatch")
          /\ UNCHANGED <<records, reservations>>
    /\ UNCHANGED issued

(***************************************************************************)
(* DynamoDB cancels a transaction that meets another one under way on one  *)
(* of its items (reason TransactionConflict).                              *)
(***************************************************************************)
Overlap(r, q) ==
    /\ OnItsWay(r)
    /\ OnItsWay(q)
    /\ req[r].id = req[q].id \/ KeyOf(r) = KeyOf(q)

Conflict(r) ==
    /\ \E q \in Requests \ {r} : Overlap(r, q)
    /\ Evaluated(r, "conflict")
    /\ UNCHANGED <<records, reservations, issued>>

-----------------------------------------------------------------------------
\* Mutant: cancellations that are not about the name are swallowed.
MutAnswerTo(r, listed) ==
    CASE req[r].call = "nameTaken" -> "nameTaken"
      [] req[r].call = "noRecord" -> "notFound"
      [] req[r].op = "create" -> "created"
      [] OTHER -> "deleted"

(***************************************************************************)
(* The invocation gets the answer to its attempt.  Only a failed condition *)
(* [0] has a meaning for the client; every other cancellation is re-raised.*)
(* An error that does not list the cancellation reasons tells create only  *)
(* that one of its conditions failed, and delete nothing.                  *)
(***************************************************************************)
AnswerTo(r, listed) ==
    CASE req[r].call = "applied" /\ req[r].op = "create" -> "created"
      [] req[r].call = "applied" /\ req[r].op = "delete" -> "deleted"
      [] req[r].call = "nameTaken" -> "nameTaken"
      [] req[r].call = "idTaken" /\ ~listed -> "nameTaken"
      [] req[r].call = "noRecord" /\ listed -> "notFound"
      [] OTHER -> "error"

Receive(r) ==
    /\ req[r].pc = "write"
    /\ req[r].call \in Verdicts
    /\ \E listed \in BOOLEAN : Reply(r, AnswerTo(r, listed))
    /\ UNCHANGED <<records, reservations, issued>>

\* An attempt whose answer has not come may still be on its way.
LateNow(r) == IF req[r].call = "sent" THEN req[r].late + 1 ELSE req[r].late

\* Mutants: one attempt too many; attempts that are not counted.
MutRetryOnceMore(r) ==
    /\ req[r].pc = "write"
    /\ req[r].attempts <= MaxAttempts
    /\ req' = [req EXCEPT ![r].call = "sent", ![r].attempts = @ + 1,
                  ![r].late = LateNow(r)]
    /\ UNCHANGED <<records, reservations, issued>>

MutRetryForever(r) ==
    /\ req[r].pc = "write"
    /\ req[r].attempts < MaxAttempts
    /\ req' = [req EXCEPT ![r].call = "sent"]
    /\ UNCHANGED <<records, reservations, issued>>

\* The attempt or its answer was lost, or is late: boto3 sends the same call
\* again, and hears no more of the attempts before.
Retry(r) ==
    /\ req[r].pc = "write"
    /\ req[r].attempts < MaxAttempts
    /\ req' = [req EXCEPT ![r].call = "sent", ![r].attempts = @ + 1,
                  ![r].late = LateNow(r)]
    /\ UNCHANGED <<records, reservations, issued>>

\* The last attempt was lost too: the error propagates and becomes a 500.
\* Attempts still on their way may be evaluated later.
GiveUp(r) ==
    /\ req[r].pc = "write"
    /\ req[r].attempts = MaxAttempts
    /\ Reply(r, "error")
    /\ UNCHANGED <<records, reservations, issued>>

\* The invocation dies or runs into the function timeout.
Crash(r) ==
    /\ req[r].pc \in {"read", "write"}
    /\ Reply(r, "lost")
    /\ UNCHANGED <<records, reservations, issued>>

(***************************************************************************)
(* An operator copies one item of a deleted project back from a restored   *)
(* table, never over an existing item.  The two items are two puts, so one *)
(* may come back without the other.                                        *)
(***************************************************************************)
RestoreRecord(c) ==
    /\ RestoreAllowed
    /\ req[c].op = "create" /\ req[c].applied
    /\ ~Live(req[c].id)
    /\ records' = [records EXCEPT ![req[c].id] = NewProject(req[c].caller, req[c].name)]
    /\ UNCHANGED <<reservations, issued, req>>

RestoreReservation(c) ==
    /\ RestoreAllowed
    /\ req[c].op = "create" /\ req[c].applied
    /\ reservations[KeyOf(c)] = Absent
    /\ reservations' = [reservations EXCEPT ![KeyOf(c)] = req[c].id]
    /\ UNCHANGED <<records, issued, req>>

-----------------------------------------------------------------------------
\* What the invocation of r does by itself.
Handler(r) ==
    \/ ReadRecord(r) \/ ReadFails(r) \/ Receive(r) \/ Retry(r) \/ GiveUp(r)

\* What the client, the table and the platform do to r.
Environment(r) ==
    \/ StartCreate(r) \/ StartById(r)
    \/ EvaluateCreate(r) \/ EvaluateDelete(r) \/ Conflict(r)
    \/ Crash(r)
    \/ RestoreRecord(r) \/ RestoreReservation(r)

Next == \E r \in Requests : Handler(r) \/ Environment(r)

Spec == Init /\ [][Next]_vars
-----------------------------------------------------------------------------
(***************************************************************************)
(* Safety.                                                                 *)
(***************************************************************************)

\* Every project holds the reservation of its own name key: create writes
\* both items or neither, so no project can lose its name to another.
EveryProjectHoldsItsName ==
    \A p \in ProjectIds :
        Live(p) => reservations[NameKeyOf[records[p].name]] = p

\* Every reservation points at a live project of that name key: delete takes
\* both items or neither, so no name stays blocked by a project that is gone.
EveryReservationIsHeld ==
    \A k \in NameKeys :
        reservations[k] # Absent =>
            /\ Live(reservations[k])
            /\ NameKeyOf[records[reservations[k]].name] = k

\* A name is either fully owned or fully free, whatever requests race, fail
\* half way or are retried (ADR 0003); it makes project names unique.
NamesConsistent == EveryProjectHoldsItsName /\ EveryReservationIsHeld

\* What the client was told is what happened: 201 and 204 only for a write
\* that took effect; 404 only for one that did not and never will; 409, too,
\* if the create was sent once.  (A create that was sent again may be applied
\* after its 409, by an earlier attempt, once the name is free.)
AnswersAreTrue ==
    \A r \in Requests :
        /\ req[r].answer \in {"created", "deleted"} => req[r].applied
        /\ req[r].answer = "notFound" => ~req[r].applied
        /\ req[r].answer = "nameTaken" /\ req[r].attempts = 1 => ~req[r].applied

\* A delete of p has taken effect.
WasDeleted(p) ==
    \E d \in Requests : req[d].op = "delete" /\ req[d].applied /\ req[d].id = p

\* A project whose creation was acknowledged stays, with its owner, its name
\* and its reservation, until a delete of it takes effect.
AckedCreateIsDurable ==
    \A c \in Requests :
        (req[c].answer = "created" /\ ~WasDeleted(req[c].id)) =>
            /\ Live(req[c].id)
            /\ records[req[c].id].owner = req[c].caller
            /\ records[req[c].id].name = req[c].name
            /\ reservations[KeyOf(c)] = req[c].id

\* Two deletes of one project never both take effect, so at most one is
\* answered 204, although both may have read the record before either wrote.
DeletedOnce ==
    \A d, e \in Requests :
        (/\ d # e /\ req[d].op = "delete" /\ req[e].op = "delete"
         /\ req[d].applied /\ req[e].applied) => req[d].id # req[e].id

\* The branch of delete that logs "name reservation does not point at the
\* project being deleted" is never taken: a delete that lost a race finds the
\* record gone (404), not its reservation reassigned (500).
MismatchNeverSeen == \A r \in Requests : req[r].call # "mismatch"

-----------------------------------------------------------------------------
(***************************************************************************)
(* What no step may do.                                                    *)
(***************************************************************************)

\* A write is never refused because of itself: when a create finds its name
\* taken, another project has it, and when a delete finds its record gone,
\* another delete took it -- not an earlier attempt of the same request whose
\* answer was lost.
RefusedByAnother ==
    [][\A r \in Requests :
          /\ (req[r].call # "nameTaken" /\ req'[r].call = "nameTaken") =>
                \E p \in ProjectIds \ {req[r].id} :
                    Live(p) /\ NameKeyOf[records[p].name] = KeyOf(r)
          /\ (req[r].call # "noRecord" /\ req'[r].call = "noRecord") =>
                \E d \in Requests \ {r} :
                    req[d].op = "delete" /\ req[d].applied /\ req[d].id = req[r].id]_vars

\* Only a delete asked for by its owner removes a project.
OnlyItsOwnerRemovesAProject ==
    [][\A p \in ProjectIds :
          (Live(p) /\ records'[p] = Absent) =>
              \E d \in Requests :
                  /\ req[d].op = "delete" /\ req[d].id = p
                  /\ req[d].caller = records[p].owner
                  /\ ~req[d].applied /\ req'[d].applied]_vars

\* A reservation is released only together with the record of the project it
\* points at, even when a restored project has lost its reservation and its
\* name has been taken by another project since (the reservation's condition).
OnlyOwnNameIsReleased ==
    [][\A k \in NameKeys :
          (reservations[k] # Absent /\ reservations'[k] # reservations[k]) =>
              /\ reservations'[k] = Absent
              /\ Live(reservations[k])
              /\ records'[reservations[k]] = Absent]_vars

\* A create whose id collides with a project that exists is an error, never
\* a silent overwrite of that project.
NoOverwrite ==
    [][\A p \in ProjectIds :
          (Live(p) /\ records'[p] # Absent) =>
              /\ records'[p].owner = records[p].owner
              /\ records'[p].name = records[p].name]_vars

\* Read your own create: a GET or DELETE that reads after the 201 was sent,
\* by the owner and before any delete took effect, is never answered 404.
ReadYourCreate ==
    [][\A g, c \in Requests :
          (/\ req[g].pc = "read" /\ req'[g].answer = "notFound"
           /\ req[c].answer = "created" /\ req[c].id = req[g].id
           /\ req[c].caller = req[g].caller) => WasDeleted(req[c].id)]_vars

-----------------------------------------------------------------------------
(***************************************************************************)
(* Liveness.                                                               *)
(***************************************************************************)

\* Every request that was started is answered, however many attempts are
\* lost: the attempts are bounded and no handler waits for another.
EveryRequestIsAnswered ==
    \A r \in Requests : []<>(req[r].pc # "idle" => req[r].pc = "done")

-----------------------------------------------------------------------------
(***************************************************************************)
(* A claim of the documentation.                                           *)
(***************************************************************************)

\* ADR 0003: "Concurrent creates of the same name yield exactly one 201 and
\* the rest 409" -- stated for requests whose only attempt was answered.
OneCreatedTheRestConflict ==
    (/\ \A r, q \in Requests :
            /\ req[r].op = "create" /\ req[q].op = "create"
            /\ KeyOf(r) = KeyOf(q)
     /\ \A r \in Requests :
            req[r].pc = "done" /\ req[r].attempts = 1 /\ req[r].answer # "lost") =>
        \E winner \in Requests :
            /\ req[winner].answer = "created"
            /\ \A r \in Requests \ {winner} : req[r].answer = "nameTaken"
=============================================================================
