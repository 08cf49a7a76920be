---------------------------- MODULE ProjectsTable ----------------------------
(***************************************************************************)
(* The shape of the single DynamoDB table that both Lambdas share: the     *)
(* API (ProjectRepository) and the stream consumer (Provisioner).  Only    *)
(* constants and pure operators live here; the table's contents are the    *)
(* variables of the modules that extend this one.                          *)
(***************************************************************************)
CONSTANTS
    ProjectIds,   \* ids of the shape "prj_<32 hex>"
    Owners,       \* API key ids, the owner identities
    Names,        \* validated display names
    NameKeys,     \* canonical uniqueness keys
    NameKeyOf,    \* name_key(): the display name's uniqueness key
    Absent        \* "no such item"

ASSUME NameKeyOfType == NameKeyOf \in [Names -> NameKeys]

\* ProjectStatus, in the order the provisioner moves a project through it.
ProjectStatus == {"CREATED", "PROVISIONING", "READY", "FAILED"}

(***************************************************************************)
(* A PROJECT#<id>/META item.  `outcome` stands for the optional attribute  *)
(* the provisioner adds: `endpoint` or `failureReason`.  The name key and  *)
(* the GSI keys are functions of the attributes kept here.                 *)
(***************************************************************************)
ProjectItem ==
    [owner: Owners, name: Names, status: ProjectStatus,
     outcome: {"none", "endpoint", "failureReason"}]

ASSUME AbsentIsNoItem ==
    /\ Absent \notin ProjectIds
    /\ Absent \notin Names
    /\ Absent \notin Owners
    /\ Absent \notin ProjectItem

\* Project.new: a project always starts as CREATED.
NewProject(owner, name) ==
    [owner |-> owner, name |-> name, status |-> "CREATED", outcome |-> "none"]
=============================================================================
