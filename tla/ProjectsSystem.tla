---------------------------- MODULE ProjectsSystem ----------------------------
(***************************************************************************)
(* The API Lambda and the provisioner Lambda on the one table they share.  *)
(* They never call each other: a create puts a record on the table's       *)
(* stream, which the provisioner consumes, and both write the META items.  *)
(***************************************************************************)
EXTENDS ProjectRepositoryRefinement, Sequences

CONSTANTS Workers, BatchSize, MaxRetries, Faults, MaxLate

VARIABLES stream, esm, dlq, runs, result, late

Prov == INSTANCE Provisioner

provVars == <<stream, esm, dlq, runs, result, late>>

sysVars == <<vars, provVars>>

SysInit == Init /\ Prov!Init

-----------------------------------------------------------------------------
\* The stream carries every item that is put where there was none.
Inserted == {p \in ProjectIds : ~Live(p) /\ records'[p] # Absent}

\* Mutant: without the filter the provisioner is sent every change of an item.
MutPublish ==
    \/ records' = records /\ stream' = stream
    \/ \E p \in ProjectIds :
          records'[p] # records[p] /\ stream' = Append(stream, p)

Publish ==
    \/ Inserted = {} /\ stream' = stream
    \/ \E p \in Inserted : stream' = Append(stream, p)

\* A request, with what the table's stream makes of it.
ApiStep(r) ==
    /\ Handler(r) \/ Environment(r)
    /\ Publish
    /\ UNCHANGED <<esm, dlq, runs, result, late>>

\* A transaction is cancelled, too, when it meets a status update of its
\* project (the update, if it loses, is refused: a fault of Provisioner).
MeetsStatusUpdate(r) ==
    /\ OnItsWay(r)
    /\ \/ \E w \in Workers :
             /\ runs[w].pc \in {"begin", "complete", "fail"}
             /\ Prov!ProjectAt(w) = req[r].id
       \/ \E u \in late : u.project = req[r].id
    /\ Evaluated(r, "conflict")
    /\ UNCHANGED <<records, reservations, issued, provVars>>

ProvisionerStep == Prov!Consumer /\ UNCHANGED <<reservations, issued, req>>

SysNext ==
    \/ \E r \in Requests : ApiStep(r) \/ MeetsStatusUpdate(r)
    \/ ProvisionerStep

SysSpec == SysInit /\ [][SysNext]_sysVars

\* Both Lambdas run what they have started, and the mapping keeps polling;
\* neither the clients nor the table owe anybody a step.
Deliver ==
    /\ \E w \in Workers : Prov!Deliver(w)
    /\ UNCHANGED <<reservations, issued, req>>

Invocation(w) == Prov!Invocation(w) /\ UNCHANGED <<reservations, issued, req>>

SysFairSpec ==
    /\ SysSpec
    /\ \A r \in Requests : WF_sysVars(ApiStep(r) /\ Handler(r))
    /\ \A w \in Workers : WF_sysVars(Invocation(w))
    /\ WF_sysVars(Deliver)
-----------------------------------------------------------------------------
\* The API as the provisioner sees it is the one Provisioner assumes: ids are
\* put on the stream once, and only creates and deletes touch the items.
ProvisionerIsImplemented == Prov!Spec

\* A delete that was answered 204 is final: no status update that was under
\* way brings the record back, and its name is held by it no longer.
DeletedIsGone ==
    \A d \in Requests :
        req[d].answer = "deleted" =>
            /\ ~Live(req[d].id)
            /\ \A k \in NameKeys : reservations[k] # req[d].id

\* A project that is still CREATED is one the provisioner will come to, or one
\* that operators find: its record on the stream is not behind the mapping yet,
\* or it is in the dead-letter queue.
NewProjectsAreNoticed ==
    \A p \in ProjectIds :
        Prov!Expected(p, "CREATED") =>
            \E i \in 1 .. Len(stream) : stream[i] = p /\ (i >= esm.next \/ i \in dlq)

\* README: a new project is moved "to READY, or FAILED" -- every project whose
\* creation was acknowledged gets there, unless it is deleted, as long as the
\* provisioner's calls succeed.
AckedProjectSettles ==
    \A p \in ProjectIds :
        []<>((Live(p) /\ \E c \in Requests : req[c].id = p /\ req[c].answer = "created")
                => records[p].status \in {"READY", "FAILED"})
=============================================================================
