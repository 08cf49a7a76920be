--------------------------- MODULE ProjectRegistry ---------------------------
(***************************************************************************)
(* What the projects API promises, without a table, reservations, retries  *)
(* or transactions: a registry of projects with globally unique names, in  *)
(* which every request takes effect at most once.  A client that is told   *)
(* "yes" has had its effect; one that is told "no" asked for something     *)
(* that could not be granted at some moment before, and it never will be   *)
(* granted -- except a create that its handler had to repeat, which may    *)
(* still be; one that is told neither may have its effect later or never.  *)
(***************************************************************************)
CONSTANTS Requests, ProjectIds, Owners, Names, NameKeyOf, Absent

VARIABLES
    projects,   \* the projects that exist: [owner, name], by id
    asked,      \* what each request asks for
    done,       \* the requests that have taken effect
    refused,    \* those that have been found impossible
    repeated,   \* those that their handlers have sent more than once
    said        \* what its client was told: "nothing", "yes", "no", "unknown"

vars == <<projects, asked, done, refused, repeated, said>>

Unasked == [op |-> "none", caller |-> Absent, id |-> Absent, name |-> Absent]

Init ==
    /\ projects = [p \in ProjectIds |-> Absent]
    /\ asked = [r \in Requests |-> Unasked]
    /\ done = {}
    /\ refused = {}
    /\ repeated = {}
    /\ said = [r \in Requests |-> "nothing"]

NameIsTaken(name) ==
    \E p \in ProjectIds :
        projects[p] # Absent /\ NameKeyOf[projects[p].name] = NameKeyOf[name]

Owned(r) ==
    /\ asked[r].id \in ProjectIds
    /\ projects[asked[r].id] # Absent
    /\ projects[asked[r].id].owner = asked[r].caller

\* The request cannot be granted as things stand.
Hopeless(r) ==
    \/ /\ asked[r].op = "create"
       /\ NameIsTaken(asked[r].name) \/ projects[asked[r].id] # Absent
    \/ asked[r].op \in {"get", "delete"} /\ ~Owned(r)

AskCreate(r) ==
    /\ asked[r] = Unasked
    /\ \E caller \in Owners, id \in ProjectIds, name \in Names :
          asked' = [asked EXCEPT ![r] =
              [op |-> "create", caller |-> caller, id |-> id, name |-> name]]
    /\ UNCHANGED <<projects, done, refused, repeated, said>>

\* A malformed id is refused at once.
AskById(r) ==
    /\ asked[r] = Unasked
    /\ \E caller \in Owners, id \in ProjectIds \cup {Absent}, op \in {"get", "delete"} :
          /\ asked' = [asked EXCEPT ![r] =
                 [op |-> op, caller |-> caller, id |-> id, name |-> Absent]]
          /\ said' = IF id = Absent THEN [said EXCEPT ![r] = "no"] ELSE said
    /\ UNCHANGED <<projects, done, refused, repeated>>

\* A create that was refused is taken up again only if it was repeated.
Register(r) ==
    /\ asked[r].op = "create" /\ r \notin done
    /\ r \in refused \/ said[r] = "no" => r \in repeated
    /\ ~NameIsTaken(asked[r].name)
    /\ projects[asked[r].id] = Absent
    /\ projects' = [projects EXCEPT ![asked[r].id] =
                       [owner |-> asked[r].caller, name |-> asked[r].name]]
    /\ done' = done \cup {r}
    /\ UNCHANGED <<asked, refused, repeated, said>>

Remove(r) ==
    /\ asked[r].op = "delete" /\ r \notin done
    /\ r \notin refused /\ said[r] # "no"
    /\ Owned(r)
    /\ projects' = [projects EXCEPT ![asked[r].id] = Absent]
    /\ done' = done \cup {r}
    /\ UNCHANGED <<asked, refused, repeated, said>>

Refuse(r) ==
    /\ r \notin done /\ r \notin refused /\ Hopeless(r)
    /\ refused' = refused \cup {r}
    /\ UNCHANGED <<projects, asked, done, repeated, said>>

\* The handler has not heard of its effect or its refusal, and asks again.
Repeat(r) ==
    /\ said[r] = "nothing" /\ asked[r].op \in {"create", "delete"}
    /\ refused' = refused \ {r}
    /\ repeated' = repeated \cup {r}
    /\ UNCHANGED <<projects, asked, done, said>>

SayYes(r) ==
    /\ said[r] = "nothing"
    /\ r \in done \/ (asked[r].op = "get" /\ Owned(r))
    /\ said' = [said EXCEPT ![r] = "yes"]
    /\ UNCHANGED <<projects, asked, done, refused, repeated>>

SayNo(r) ==
    /\ said[r] = "nothing" /\ asked[r] # Unasked
    /\ r \in refused \/ (r \notin done /\ Hopeless(r))
    /\ said' = [said EXCEPT ![r] = "no"]
    /\ UNCHANGED <<projects, asked, done, refused, repeated>>

SayUnknown(r) ==
    /\ said[r] = "nothing" /\ asked[r] # Unasked
    /\ said' = [said EXCEPT ![r] = "unknown"]
    /\ UNCHANGED <<projects, asked, done, refused, repeated>>

Next ==
    \E r \in Requests :
        \/ AskCreate(r) \/ AskById(r)
        \/ Register(r) \/ Remove(r) \/ Refuse(r) \/ Repeat(r)
        \/ SayYes(r) \/ SayNo(r) \/ SayUnknown(r)

Spec == Init /\ [][Next]_vars
=============================================================================
