--------------------- MODULE ProjectRepositoryRefinement ---------------------
(***************************************************************************)
(* ProjectRepository implements ProjectRegistry: the registry's projects   *)
(* are the META items, and the reservation items, the transactions and     *)
(* their attempts are invisible to clients.                                *)
(***************************************************************************)
EXTENDS ProjectRepository

\* Absent is told apart from the projects of the registry, too.
ASSUME AbsentIsNoProject == Absent \notin [owner: Owners, name: Names]

ProjectOf(item) ==
    IF item = Absent THEN Absent ELSE [owner |-> item.owner, name |-> item.name]

\* The name a delete reads from the record is not part of what was asked.
AskedOf(q) ==
    [op |-> q.op, caller |-> q.caller, id |-> q.id,
     name |-> IF q.op = "create" THEN q.name ELSE Absent]

\* The last attempt was cancelled because of a condition on what was asked.
IsRefused(q) == q.call \in {"nameTaken", "idTaken", "noRecord"}

SaidOf(q) ==
    CASE q.answer = "none" -> "nothing"
      [] q.answer \in {"created", "found", "deleted"} -> "yes"
      [] q.answer \in {"nameTaken", "notFound"} -> "no"
      [] OTHER -> "unknown"

ProjectsBar == [p \in ProjectIds |-> ProjectOf(records[p])]
AskedBar == [r \in Requests |-> AskedOf(req[r])]
DoneBar == {r \in Requests : req[r].applied}
RefusedBar == {r \in Requests : IsRefused(req[r])}
RepeatedBar == {r \in Requests : req[r].attempts > 1}
SaidBar == [r \in Requests |-> SaidOf(req[r])]

Registry ==
    INSTANCE ProjectRegistry
        WITH projects <- ProjectsBar, asked <- AskedBar, done <- DoneBar,
             refused <- RefusedBar, repeated <- RepeatedBar, said <- SaidBar

\* Every behaviour of the API is one the registry allows: each request takes
\* effect once and at one moment, names are unique, and every answer is one the
\* registry could have given.
ImplementsRegistry == Registry!Spec
=============================================================================
