----------------------------- MODULE SeedIssues -----------------------------
(***************************************************************************)
(* scripts/seed_issues.py: labels, milestones and issues for the tickets   *)
(* of docs/tickets, one `gh` call each.  The script is run by hand, one    *)
(* run at a time, and again after a run that failed; people open and close *)
(* issues meanwhile.                                                       *)
(*                                                                         *)
(* A call may fail without an effect, or take effect although the run sees *)
(* a failure (or is killed); either ends the run (check=True).             *)
(***************************************************************************)
EXTENDS Naturals, Sequences, FiniteSets

CONSTANTS
    NTickets,      \* the tickets, numbered in the order of their file names
    Done,          \* the tickets with status `done`
    LABELS, MILESTONES,
    LabelsOf,      \* the labels of a ticket
    MilestoneOf,   \* the milestone of a ticket
    ListLimit,     \* `gh issue list --limit 500`
    MaxIssues,     \* bound on the issues of the repository
    MaxFailures    \* bound on the runs that fail

Tickets == 1 .. NTickets

ASSUME NTicketsType == NTickets \in Nat
ASSUME TicketsAreWellFormed ==
    /\ Done \subseteq Tickets
    /\ LabelsOf \in [Tickets -> SUBSET LABELS]
    /\ MilestoneOf \in [Tickets -> MILESTONES]
ASSUME BoundsType == ListLimit \in Nat /\ MaxIssues \in Nat /\ MaxFailures \in Nat

VARIABLES
    labels, milestones,   \* of the repository on GitHub
    issues,               \* by number: the ticket whose title it has, or 0
    run,                  \* the current or last run of the script
    failures              \* the runs that failed

vars == <<labels, milestones, issues, run, failures>>

TypeOK ==
    /\ labels \subseteq LABELS /\ milestones \subseteq MILESTONES
    /\ issues \in Seq([ticket: Tickets \cup {0}, open: BOOLEAN])
    /\ run.pc \in {"labels", "milestones", "issues", "close", "done", "failed"}
    /\ run.todo \subseteq LABELS \cup MILESTONES
    /\ run.known \subseteq Tickets \cup {0}
    /\ run.at \in 1 .. NTickets + 1
    /\ run.dry \in BOOLEAN
    /\ run.pc = "close" => run.at \in Done
    /\ failures \in 0 .. MaxFailures

Init ==
    /\ labels = {} /\ milestones = {} /\ issues = <<>>
    /\ run = [pc |-> "done", dry |-> TRUE, todo |-> {}, known |-> {}, at |-> 1]
    /\ failures = 0

-----------------------------------------------------------------------------
\* run(): a dry run makes no mutating call.
Call(mutating, outcome, next) ==
    \/ /\ outcome = "ok"
       /\ run' = next
       /\ UNCHANGED failures
    \/ /\ outcome \in {"refused", "lost"}
       /\ ~(run.dry /\ mutating)
       /\ failures < MaxFailures
       /\ failures' = failures + 1
       /\ run' = [run EXCEPT !.pc = "failed"]

Outcomes == {"ok", "refused", "lost"}

TakesEffect(outcome) == ~run.dry /\ outcome # "refused"

\* The script starts, asks which repository it is in and lists the labels;
\* either call may end it.
Start ==
    /\ run.pc \in {"done", "failed"}
    /\ \E dry \in BOOLEAN, outcome \in Outcomes :
          Call(FALSE, outcome,
               [pc |-> "labels", dry |-> dry, todo |-> LABELS \ labels,
                known |-> {}, at |-> 1])
    /\ UNCHANGED <<labels, milestones, issues>>

\* ensure_labels: one call for each label that was not listed.
MakeLabel ==
    /\ run.pc = "labels"
    /\ \E label \in run.todo, outcome \in Outcomes :
          /\ Call(TRUE, outcome, [run EXCEPT !.todo = @ \ {label}])
          /\ labels' = IF TakesEffect(outcome) THEN labels \cup {label} ELSE labels
    /\ UNCHANGED <<milestones, issues>>

ListMilestones ==
    /\ run.pc = "labels" /\ run.todo = {}
    /\ \E outcome \in Outcomes :
          Call(FALSE, outcome,
               [run EXCEPT !.pc = "milestones", !.todo = MILESTONES \ milestones])
    /\ UNCHANGED <<labels, milestones, issues>>

\* ensure_milestones.
MakeMilestone ==
    /\ run.pc = "milestones"
    /\ \E milestone \in run.todo, outcome \in Outcomes :
          /\ Call(TRUE, outcome, [run EXCEPT !.todo = @ \ {milestone}])
          /\ milestones' = IF TakesEffect(outcome) THEN milestones \cup {milestone}
                           ELSE milestones
    /\ UNCHANGED <<labels, issues>>

\* Mutant: only open issues are listed (no `--state all`).
MutListed == {issues[i].ticket : i \in {j \in DOMAIN issues : issues[j].open}}

\* `gh issue list --state all`: the newest ListLimit issues, open or closed.
Listed == {issues[i].ticket : i \in {j \in DOMAIN issues : j + ListLimit > Len(issues)}}

\* existing_issues.
ListIssues ==
    /\ run.pc = "milestones" /\ run.todo = {}
    /\ \E outcome \in Outcomes :
          Call(FALSE, outcome, [run EXCEPT !.pc = "issues", !.known = Listed])
    /\ UNCHANGED <<labels, milestones, issues>>

-----------------------------------------------------------------------------
NextTicket(r) == [r EXCEPT !.at = @ + 1, !.pc = "issues"]

\* Mutant: `break` instead of `continue`.
MutSkipTicket ==
    /\ run.pc = "issues" /\ run.at \in Tickets
    /\ run.at \in run.known
    /\ run' = [run EXCEPT !.pc = "done"]
    /\ UNCHANGED <<labels, milestones, issues, failures>>

\* The loop over the tickets goes past one whose title was listed.
SkipTicket ==
    /\ run.pc = "issues" /\ run.at \in Tickets
    /\ run.at \in run.known
    /\ run' = NextTicket(run)
    /\ UNCHANGED <<labels, milestones, issues, failures>>

\* Mutants: a ticket that is done is not closed; every ticket is closed.
MutAfterCreate(r) == NextTicket(r)

MutAfterCreateCloses(r) == [r EXCEPT !.pc = "close"]

\* A done ticket is closed at once, unless there is no issue (a dry run).
AfterCreate(r) ==
    IF r.at \in Done /\ ~r.dry THEN [r EXCEPT !.pc = "close"] ELSE NextTicket(r)

\* `gh issue create` needs the ticket's labels and milestone on GitHub.
CreateIssue ==
    /\ run.pc = "issues" /\ run.at \in Tickets
    /\ run.at \notin run.known
    /\ run.dry \/ Len(issues) < MaxIssues
    /\ \E outcome \in Outcomes :
          /\ TakesEffect(outcome) =>
                LabelsOf[run.at] \subseteq labels /\ MilestoneOf[run.at] \in milestones
          /\ Call(TRUE, outcome, AfterCreate(run))
          /\ issues' = IF TakesEffect(outcome)
                       THEN Append(issues, [ticket |-> run.at, open |-> TRUE])
                       ELSE issues
    /\ UNCHANGED <<labels, milestones>>

\* `gh issue close` of the issue just created: people open others meanwhile,
\* so it is the newest of this ticket.
CreatedNumber ==
    CHOOSE i \in DOMAIN issues :
        /\ issues[i].ticket = run.at
        /\ \A j \in DOMAIN issues : issues[j].ticket = run.at => j <= i

CloseIssue ==
    /\ run.pc = "close"
    /\ \E outcome \in Outcomes :
          /\ Call(TRUE, outcome, NextTicket(run))
          /\ issues' = IF TakesEffect(outcome)
                       THEN [issues EXCEPT ![CreatedNumber].open = FALSE]
                       ELSE issues
    /\ UNCHANGED <<labels, milestones>>

Finish ==
    /\ run.pc = "issues" /\ run.at = NTickets + 1
    /\ run' = [run EXCEPT !.pc = "done"]
    /\ UNCHANGED <<labels, milestones, issues, failures>>

-----------------------------------------------------------------------------
PersonOpens ==
    /\ Len(issues) < MaxIssues
    /\ issues' = Append(issues, [ticket |-> 0, open |-> TRUE])
    /\ UNCHANGED <<labels, milestones, run, failures>>

PersonCloses ==
    /\ \E i \in DOMAIN issues :
          issues[i].open /\ issues' = [issues EXCEPT ![i].open = FALSE]
    /\ UNCHANGED <<labels, milestones, run, failures>>

Next ==
    \/ Start
    \/ MakeLabel \/ ListMilestones \/ MakeMilestone \/ ListIssues
    \/ SkipTicket \/ CreateIssue \/ CloseIssue \/ Finish
    \/ PersonOpens \/ PersonCloses

Spec == Init /\ [][Next]_vars
-----------------------------------------------------------------------------
\* The script is idempotent: however often it is run, and wherever runs fail,
\* a ticket gets one issue -- as long as all issues fit in one listing.
OneIssuePerTicket ==
    Len(issues) <= ListLimit =>
        \A i, j \in DOMAIN issues :
            (issues[i].ticket = issues[j].ticket /\ i # j) => issues[i].ticket = 0

\* A run that ends well leaves nothing out, whatever earlier runs left: every
\* ticket has its issue, and every label and milestone exists.
CompletedRunSeedsAll ==
    (run.pc = "done" /\ ~run.dry) =>
        /\ \A t \in Tickets : \E i \in DOMAIN issues : issues[i].ticket = t
        /\ labels = LABELS /\ milestones = MILESTONES

\* The issues of done tickets are closed "immediately": the only ones ever
\* left open are those whose run failed before the close, one for each failed
\* run at most (no later run closes them: their titles are known then).
OpenDoneIssues ==
    {i \in DOMAIN issues : issues[i].ticket \in Done /\ issues[i].open}

FailedRunsLeaveOneOpen ==
    Cardinality(OpenDoneIssues) <= failures + (IF run.pc = "close" THEN 1 ELSE 0)
=============================================================================
