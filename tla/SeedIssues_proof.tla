--------------------------- MODULE SeedIssues_proof ---------------------------
(***************************************************************************)
(* What re-runs of the seeding script leave behind, for any tickets,       *)
(* labels and milestones, and any number of runs, failures and issues.     *)
(***************************************************************************)
EXTENDS SeedIssues, FiniteSetTheorems, TLAPS

Fields == {"pc", "dry", "todo", "known", "at"}

Issue == [ticket: Tickets \cup {0}, open: BOOLEAN]

\* What is left to make has the kind the run is at.
TodoIsOfItsKind ==
    /\ run.pc = "labels" => run.todo \subseteq LABELS
    /\ run.pc = "milestones" => run.todo \subseteq MILESTONES

\* TypeOK does not say that run is a record, nor which of the two todo holds.
TypeInv == TypeOK /\ DOMAIN run = Fields /\ TodoIsOfItsKind

-----------------------------------------------------------------------------
(***************************************************************************)
(* What happens to the issues.                                             *)
(***************************************************************************)
Numbers == DOMAIN issues

Opened(t) ==
    /\ issues' \in Seq(Issue) /\ Len(issues') = Len(issues) + 1
    /\ DOMAIN issues' = Numbers \cup {Len(issues) + 1}
    /\ \A i \in Numbers : issues'[i] = issues[i]
    /\ issues'[Len(issues) + 1].ticket = t /\ issues'[Len(issues) + 1].open

Closed(n) ==
    /\ issues' \in Seq(Issue) /\ Len(issues') = Len(issues)
    /\ DOMAIN issues' = Numbers
    /\ \A i \in Numbers : issues'[i].ticket = issues[i].ticket
    /\ \A i \in Numbers : issues'[i].open <=> (issues[i].open /\ i # n)

\* The tickets of issues.
LEMMA IssueTickets ==
    ASSUME issues \in Seq(Issue)
    PROVE  \A i \in Numbers : issues[i].ticket \in Tickets \cup {0}
<1>1. \A i \in Numbers : issues[i] \in Issue
  BY DEF Numbers
<1> QED
  BY <1>1 DEF Issue

\* A new issue gets the next number.
LEMMA AppendOpens ==
    ASSUME issues \in Seq(Issue), NEW t \in Tickets \cup {0},
           issues' = Append(issues, [ticket |-> t, open |-> TRUE])
    PROVE  Opened(t)
<1> DEFINE issue == [ticket |-> t, open |-> TRUE]
<1>1. issue \in Issue /\ issue.ticket = t /\ issue.open
  BY DEF Issue
<1> HIDE DEF issue
<1>2. issues' = Append(issues, issue)
  BY DEF issue
<1>3. /\ issues' \in Seq(Issue) /\ Len(issues') = Len(issues) + 1
      /\ \A i \in 1 .. Len(issues) : issues'[i] = issues[i]
      /\ issues'[Len(issues) + 1] = issue
  BY <1>1, <1>2
<1>4. Numbers = 1 .. Len(issues) /\ Len(issues) \in Nat
      /\ DOMAIN issues' = 1 .. Len(issues) + 1
  BY <1>3 DEF Numbers
<1>5. DOMAIN issues' = Numbers \cup {Len(issues) + 1}
  BY <1>4
<1> QED
  BY <1>1, <1>3, <1>4, <1>5 DEF Opened

\* Closing an issue changes nothing else, nor any other one.
LEMMA ExceptCloses ==
    ASSUME issues \in Seq(Issue), NEW n, issues' = [issues EXCEPT ![n].open = FALSE]
    PROVE  Closed(n)
<1>1. \A i \in Numbers : issues[i] \in Issue
  BY DEF Numbers
<1>2. DOMAIN issues' = Numbers /\ Numbers = 1 .. Len(issues) /\ Len(issues) \in Nat
  BY DEF Numbers
<1>3. \A i \in Numbers : issues'[i] = IF i = n THEN [issues[i] EXCEPT !.open = FALSE] ELSE issues[i]
  BY DEF Numbers
<1>4. ASSUME NEW i \in Numbers
      PROVE  /\ issues'[i] \in Issue /\ issues'[i].ticket = issues[i].ticket
             /\ issues'[i].open <=> (issues[i].open /\ i # n)
  <2>1. CASE i # n
    BY <1>1, <1>3, <2>1
  <2>2. CASE i = n
    <3> DEFINE y == [issues[i] EXCEPT !.open = FALSE]
    <3>1. issues[i] \in Issue
      BY <1>1
    <3>2. y.ticket = issues[i].ticket /\ ~y.open
      BY <3>1 DEF Issue
    <3>3. y \in Issue
      BY <3>1 DEF Issue
    <3>4. issues'[i] = y
      BY <1>3, <2>2
    <3> HIDE DEF y
    <3> QED
      BY <2>2, <3>2, <3>3, <3>4
  <2> QED
    BY <2>1, <2>2
<1>5. issues' \in [1 .. Len(issues) -> Issue]
  <2>1. issues' = [i \in Numbers |-> issues'[i]]
    BY DEF Numbers
  <2> QED
    BY <1>2, <1>4, <2>1
<1>6. issues' \in Seq(Issue) /\ Len(issues') = Len(issues)
  BY <1>2, <1>5
<1> QED
  BY <1>2, <1>4, <1>6 DEF Closed

-----------------------------------------------------------------------------
(***************************************************************************)
(* The actions, field by field.                                            *)
(***************************************************************************)
Goes(pc, todo, known, at) ==
    /\ DOMAIN run' = Fields /\ run'.dry = run.dry
    /\ run'.pc = pc /\ run'.todo = todo /\ run'.known = known /\ run'.at = at
    /\ failures' = failures

Fails ==
    /\ DOMAIN run' = Fields /\ run'.dry = run.dry
    /\ run'.pc = "failed" /\ run'.todo = run.todo /\ run'.known = run.known
    /\ run'.at = run.at
    /\ failures < MaxFailures /\ failures' = failures + 1

\* A call that mutates goes through, or fails with or without its effect; a dry
\* run has no effect and cannot fail.
Mutates(effect, goes) ==
    \/ goes /\ (effect <=> ~run.dry)
    \/ Fails /\ (run.dry => ~effect)

\* A run whose call fails keeps everything but its pc.
LEMMA FailedFields ==
    ASSUME TypeInv, failures < MaxFailures, failures' = failures + 1,
           run' = [run EXCEPT !.pc = "failed"]
    PROVE  Fails
BY DEF TypeInv, Fields, Fails

\* A label is made, or the run fails before or after it is.
LEMMA MakeLabelIs ==
    ASSUME TypeInv, MakeLabel
    PROVE  /\ run.pc = "labels" /\ UNCHANGED <<milestones, issues>>
           /\ \E label \in run.todo, effect \in BOOLEAN :
                /\ labels' = IF effect THEN labels \cup {label} ELSE labels
                /\ Mutates(effect, Goes("labels", run.todo \ {label}, run.known, run.at))
<1>1. PICK label \in run.todo, outcome \in Outcomes :
          /\ Call(TRUE, outcome, [run EXCEPT !.todo = @ \ {label}])
          /\ labels' = IF TakesEffect(outcome) THEN labels \cup {label} ELSE labels
  BY DEF MakeLabel
<1> DEFINE effect == TakesEffect(outcome)
<1>2. CASE outcome = "ok"
  <2>1. run' = [run EXCEPT !.todo = @ \ {label}] /\ failures' = failures
    BY <1>1, <1>2 DEF Call
  <2>2. Goes("labels", run.todo \ {label}, run.known, run.at)
    BY <2>1 DEF MakeLabel, Goes, TypeInv, Fields
  <2>3. effect <=> ~run.dry
    BY <1>2 DEF TakesEffect
  <2> QED
    BY <1>1, <2>2, <2>3 DEF MakeLabel, Mutates
<1>3. CASE outcome # "ok"
  <2>1. Fails
    BY <1>1, <1>3, FailedFields DEF Call
  <2>2. run.dry => ~effect
    BY DEF TakesEffect
  <2> QED
    BY <1>1, <2>1, <2>2 DEF MakeLabel, Mutates
<1> QED
  BY <1>2, <1>3

\* The same for a milestone.
LEMMA MakeMilestoneIs ==
    ASSUME TypeInv, MakeMilestone
    PROVE  /\ run.pc = "milestones" /\ UNCHANGED <<labels, issues>>
           /\ \E milestone \in run.todo, effect \in BOOLEAN :
                /\ milestones' = IF effect THEN milestones \cup {milestone} ELSE milestones
                /\ Mutates(effect, Goes("milestones", run.todo \ {milestone}, run.known, run.at))
<1>1. PICK milestone \in run.todo, outcome \in Outcomes :
          /\ Call(TRUE, outcome, [run EXCEPT !.todo = @ \ {milestone}])
          /\ milestones' = IF TakesEffect(outcome) THEN milestones \cup {milestone}
                           ELSE milestones
  BY DEF MakeMilestone
<1> DEFINE effect == TakesEffect(outcome)
<1>2. CASE outcome = "ok"
  <2>1. run' = [run EXCEPT !.todo = @ \ {milestone}] /\ failures' = failures
    BY <1>1, <1>2 DEF Call
  <2>2. Goes("milestones", run.todo \ {milestone}, run.known, run.at)
    BY <2>1 DEF MakeMilestone, Goes, TypeInv, Fields
  <2>3. effect <=> ~run.dry
    BY <1>2 DEF TakesEffect
  <2> QED
    BY <1>1, <2>2, <2>3 DEF MakeMilestone, Mutates
<1>3. CASE outcome # "ok"
  <2>1. Fails
    BY <1>1, <1>3, FailedFields DEF Call
  <2>2. run.dry => ~effect
    BY DEF TakesEffect
  <2> QED
    BY <1>1, <2>1, <2>2 DEF MakeMilestone, Mutates
<1> QED
  BY <1>2, <1>3

\* A run that starts has everything before it; it may fail at once.
LEMMA StartIs ==
    ASSUME TypeInv, Start
    PROVE  /\ run.pc \in {"done", "failed"} /\ UNCHANGED <<labels, milestones, issues>>
           /\ \/ Fails
              \/ /\ \E dry \in BOOLEAN :
                       run' = [pc |-> "labels", dry |-> dry, todo |-> LABELS \ labels,
                               known |-> {}, at |-> 1]
                 /\ UNCHANGED failures
<1>1. PICK dry \in BOOLEAN, outcome \in Outcomes :
          Call(FALSE, outcome,
               [pc |-> "labels", dry |-> dry, todo |-> LABELS \ labels,
                known |-> {}, at |-> 1])
  BY DEF Start
<1> QED
  BY <1>1, FailedFields DEF Start, Call

\* The two calls that only list.
LEMMA ListingIs ==
    ASSUME TypeInv
    PROVE  /\ ListMilestones =>
                /\ run.pc = "labels" /\ run.todo = {}
                /\ UNCHANGED <<labels, milestones, issues>>
                /\ Goes("milestones", MILESTONES \ milestones, run.known, run.at) \/ Fails
           /\ ListIssues =>
                /\ run.pc = "milestones" /\ run.todo = {}
                /\ UNCHANGED <<labels, milestones, issues>>
                /\ Goes("issues", run.todo, Listed, run.at) \/ Fails
<1>1. ASSUME ListMilestones
      PROVE  Goes("milestones", MILESTONES \ milestones, run.known, run.at) \/ Fails
  <2>1. PICK outcome \in Outcomes :
          Call(FALSE, outcome,
               [run EXCEPT !.pc = "milestones", !.todo = MILESTONES \ milestones])
    BY <1>1 DEF ListMilestones
  <2>2. CASE outcome = "ok"
    <3>1. run' = [run EXCEPT !.pc = "milestones", !.todo = MILESTONES \ milestones]
          /\ failures' = failures
      BY <2>1, <2>2 DEF Call
    <3> QED
      BY <3>1 DEF Goes, TypeInv, Fields
  <2> QED
    BY <2>1, <2>2, FailedFields DEF Call
<1>2. ASSUME ListIssues
      PROVE  Goes("issues", run.todo, Listed, run.at) \/ Fails
  <2>1. PICK outcome \in Outcomes :
          Call(FALSE, outcome, [run EXCEPT !.pc = "issues", !.known = Listed])
    BY <1>2 DEF ListIssues
  <2>2. CASE outcome = "ok"
    <3>1. run' = [run EXCEPT !.pc = "issues", !.known = Listed] /\ failures' = failures
      BY <2>1, <2>2 DEF Call
    <3> QED
      BY <3>1 DEF Goes, TypeInv, Fields
  <2> QED
    BY <2>1, <2>2, FailedFields DEF Call
<1> QED
  BY <1>1, <1>2 DEF ListMilestones, ListIssues

\* What a run does after a ticket.
LEMMA NextTicketIs ==
    ASSUME TypeInv, run' = NextTicket(run), failures' = failures
    PROVE  Goes("issues", run.todo, run.known, run.at + 1)
BY DEF TypeInv, Fields, Goes, NextTicket

\* A ticket whose title was listed is passed without a call.
LEMMA SkipTicketIs ==
    ASSUME TypeInv, SkipTicket
    PROVE  /\ run.pc = "issues" /\ run.at \in Tickets /\ run.at \in run.known
           /\ UNCHANGED <<labels, milestones, issues>>
           /\ Goes("issues", run.todo, run.known, run.at + 1)
BY NextTicketIs DEF SkipTicket

\* The run closes the issue it created if the ticket is done, and goes on if not.
Creates(effect) ==
    Mutates(effect, IF run.at \in Done /\ ~run.dry
                    THEN Goes("close", run.todo, run.known, run.at)
                    ELSE Goes("issues", run.todo, run.known, run.at + 1))

\* The issue of a ticket is created, or the run fails before or after it is.
LEMMA CreateIssueIs ==
    ASSUME TypeInv, CreateIssue
    PROVE  /\ run.pc = "issues" /\ run.at \in Tickets /\ run.at \notin run.known
           /\ UNCHANGED <<labels, milestones>>
           /\ \E effect \in BOOLEAN :
                /\ IF effect THEN Opened(run.at) ELSE UNCHANGED issues
                /\ Creates(effect)
<1>1. PICK outcome \in Outcomes :
          /\ Call(TRUE, outcome, AfterCreate(run))
          /\ issues' = IF TakesEffect(outcome)
                       THEN Append(issues, [ticket |-> run.at, open |-> TRUE])
                       ELSE issues
  BY DEF CreateIssue
<1> DEFINE effect == TakesEffect(outcome)
<1>2. IF effect THEN Opened(run.at) ELSE UNCHANGED issues
  <2>1. issues \in Seq(Issue) /\ run.at \in Tickets \cup {0}
    BY DEF TypeInv, TypeOK, Issue, CreateIssue
  <2>2. \A t \in Tickets \cup {0} :
          issues' = Append(issues, [ticket |-> t, open |-> TRUE]) => Opened(t)
    BY <2>1, AppendOpens
  <2> QED
    BY <1>1, <2>1, <2>2
<1>3. CASE outcome = "ok"
  <2>1. run' = AfterCreate(run) /\ failures' = failures
    BY <1>1, <1>3 DEF Call
  <2>2. CASE run.at \in Done /\ ~run.dry
    <3>1. run' = [run EXCEPT !.pc = "close"]
      BY <2>1, <2>2 DEF AfterCreate
    <3>2. Goes("close", run.todo, run.known, run.at)
      BY <2>1, <3>1 DEF TypeInv, Fields, Goes
    <3> QED
      BY <1>1, <1>2, <1>3, <2>2, <3>2 DEF CreateIssue, Creates, Mutates, TakesEffect
  <2>3. CASE ~(run.at \in Done /\ ~run.dry)
    <3>1. Goes("issues", run.todo, run.known, run.at + 1)
      BY <2>1, <2>3, NextTicketIs DEF AfterCreate
    <3> QED
      BY <1>1, <1>2, <1>3, <2>3, <3>1 DEF CreateIssue, Creates, Mutates, TakesEffect
  <2> QED
    BY <2>2, <2>3
<1>4. CASE outcome # "ok"
  <2>1. Fails
    BY <1>1, <1>4, FailedFields DEF Call
  <2> QED
    BY <1>1, <1>2, <2>1 DEF CreateIssue, Creates, Mutates, TakesEffect
<1> QED
  BY <1>3, <1>4

\* The newest issue of the ticket is closed, or the run fails before or after.
LEMMA CloseIssueIs ==
    ASSUME TypeInv, CloseIssue
    PROVE  /\ run.pc = "close" /\ UNCHANGED <<labels, milestones>>
           /\ \E effect \in BOOLEAN :
                /\ IF effect THEN Closed(CreatedNumber) ELSE UNCHANGED issues
                /\ Mutates(effect, Goes("issues", run.todo, run.known, run.at + 1))
<1>1. PICK outcome \in Outcomes :
          /\ Call(TRUE, outcome, NextTicket(run))
          /\ issues' = IF TakesEffect(outcome)
                       THEN [issues EXCEPT ![CreatedNumber].open = FALSE]
                       ELSE issues
  BY DEF CloseIssue
<1> DEFINE effect == TakesEffect(outcome)
<1>2. IF effect THEN Closed(CreatedNumber) ELSE UNCHANGED issues
  <2>1. PICK n : n = CreatedNumber
    OBVIOUS
  <2>2. issues' = [issues EXCEPT ![n].open = FALSE] => Closed(n)
    BY ExceptCloses DEF TypeInv, TypeOK, Issue
  <2> QED
    BY <1>1, <2>1, <2>2
<1>3. CASE outcome = "ok"
  <2>1. Goes("issues", run.todo, run.known, run.at + 1)
    BY <1>1, <1>3, NextTicketIs DEF Call
  <2> QED
    BY <1>1, <1>2, <1>3, <2>1 DEF CloseIssue, Mutates, TakesEffect
<1>4. CASE outcome # "ok"
  <2>1. Fails
    BY <1>1, <1>4, FailedFields DEF Call
  <2> QED
    BY <1>1, <1>2, <2>1 DEF CloseIssue, Mutates, TakesEffect
<1> QED
  BY <1>3, <1>4

\* A run ends when it is past the last ticket.
LEMMA FinishIs ==
    ASSUME TypeInv, Finish
    PROVE  /\ run.pc = "issues" /\ run.at = NTickets + 1
           /\ UNCHANGED <<labels, milestones, issues>>
           /\ Goes("done", run.todo, run.known, run.at)
BY DEF Finish, TypeInv, Fields, Goes

\* People leave the run alone.
LEMMA PeopleDo ==
    ASSUME TypeInv, PersonOpens \/ PersonCloses
    PROVE  /\ UNCHANGED <<labels, milestones, run, failures>>
           /\ Opened(0) \/ \E n \in Numbers : Closed(n)
<1>1. ASSUME PersonOpens PROVE Opened(0)
  BY <1>1, AppendOpens DEF PersonOpens, TypeInv, TypeOK, Issue
<1>2. ASSUME PersonCloses PROVE \E n \in Numbers : Closed(n)
  <2>1. PICK n \in DOMAIN issues : issues' = [issues EXCEPT ![n].open = FALSE]
    BY <1>2 DEF PersonCloses
  <2>2. Closed(n)
    BY <2>1, ExceptCloses DEF TypeInv, TypeOK, Issue
  <2> QED
    BY <2>2 DEF Numbers
<1> QED
  BY <1>1, <1>2 DEF PersonOpens, PersonCloses

-----------------------------------------------------------------------------
(***************************************************************************)
(* Types.                                                                  *)
(***************************************************************************)
RunOK ==
    /\ DOMAIN run = Fields
    /\ run.pc \in {"labels", "milestones", "issues", "close", "done", "failed"}
    /\ run.todo \subseteq LABELS \cup MILESTONES
    /\ TodoIsOfItsKind
    /\ run.known \subseteq Tickets \cup {0}
    /\ run.at \in 1 .. NTickets + 1
    /\ run.dry \in BOOLEAN
    /\ run.pc = "close" => run.at \in Done
    /\ failures \in 0 .. MaxFailures

StoreOK ==
    /\ labels \subseteq LABELS /\ milestones \subseteq MILESTONES
    /\ issues \in Seq(Issue)

\* The type invariant is about the run and about what is on GitHub.
LEMMA TypeInvParts == TypeInv <=> RunOK /\ StoreOK
BY DEF TypeInv, TypeOK, RunOK, StoreOK, Issue

\* A run that fails keeps its type.
LEMMA FailureKeepsType ==
    ASSUME RunOK, Fails
    PROVE  RunOK'
BY BoundsType DEF RunOK, Fails, TodoIsOfItsKind

\* Nothing has been run, and the repository is empty.
LEMMA TypeInit == Init => TypeInv
BY NTicketsType, BoundsType DEF Init, TypeInv, TypeOK, Fields, Tickets, TodoIsOfItsKind

\* Every step keeps the type invariant.
LEMMA TypeStep == TypeInv /\ [Next]_vars => TypeInv'
<1> SUFFICES ASSUME TypeInv, [Next]_vars PROVE TypeInv'
  OBVIOUS
<1> USE NTicketsType
<1>0. RunOK /\ StoreOK /\ Listed \subseteq Tickets \cup {0}
  <2>1. RunOK /\ StoreOK
    BY TypeInvParts
  <2>2. \A i \in DOMAIN issues : issues[i].ticket \in Tickets \cup {0}
    BY <2>1, IssueTickets DEF StoreOK, Numbers
  <2> QED
    BY <2>1, <2>2 DEF Listed
<1>t. RunOK' /\ StoreOK' => TypeInv'
  BY DEF TypeInv, TypeOK, RunOK, StoreOK, Issue
<1>o. \A t : Opened(t) => issues' \in Seq(Issue)
  BY DEF Opened
<1>c. \A n : Closed(n) => issues' \in Seq(Issue)
  BY DEF Closed
<1>1. CASE Start
  <2>1. CASE Fails
    BY <1>0, <1>1, <1>t, <2>1, StartIs, FailureKeepsType DEF StoreOK
  <2>2. ASSUME NEW dry \in BOOLEAN, UNCHANGED failures,
               run' = [pc |-> "labels", dry |-> dry, todo |-> LABELS \ labels,
                       known |-> {}, at |-> 1]
        PROVE  RunOK'
    BY <1>0, <1>1, <2>2, StartIs DEF RunOK, Fields, TodoIsOfItsKind
  <2> QED
    BY <1>0, <1>1, <1>t, <2>1, <2>2, StartIs DEF StoreOK
<1>2. CASE MakeLabel
  <2>1. PICK label \in run.todo, effect \in BOOLEAN :
          /\ labels' = IF effect THEN labels \cup {label} ELSE labels
          /\ Mutates(effect, Goes("labels", run.todo \ {label}, run.known, run.at))
    BY <1>2, MakeLabelIs
  <2>2. run.pc = "labels" /\ UNCHANGED <<milestones, issues>>
    BY <1>2, MakeLabelIs
  <2>3. StoreOK'
    BY <1>0, <2>1, <2>2 DEF StoreOK, RunOK, TodoIsOfItsKind
  <2>4. RunOK'
    BY <1>0, <2>1, <2>2, FailureKeepsType DEF Mutates, Goes, RunOK, TodoIsOfItsKind
  <2> QED
    BY <1>t, <2>3, <2>4
<1>3. CASE MakeMilestone
  <2>1. PICK milestone \in run.todo, effect \in BOOLEAN :
          /\ milestones' = IF effect THEN milestones \cup {milestone} ELSE milestones
          /\ Mutates(effect, Goes("milestones", run.todo \ {milestone}, run.known, run.at))
    BY <1>3, MakeMilestoneIs
  <2>2. run.pc = "milestones" /\ UNCHANGED <<labels, issues>>
    BY <1>3, MakeMilestoneIs
  <2>3. StoreOK'
    BY <1>0, <2>1, <2>2 DEF StoreOK, RunOK, TodoIsOfItsKind
  <2>4. RunOK'
    BY <1>0, <2>1, <2>2, FailureKeepsType DEF Mutates, Goes, RunOK, TodoIsOfItsKind
  <2> QED
    BY <1>t, <2>3, <2>4
<1>4. CASE ListMilestones
  BY <1>0, <1>4, <1>t, ListingIs, FailureKeepsType DEF Goes, RunOK, StoreOK, TodoIsOfItsKind
<1>5. CASE ListIssues
  BY <1>0, <1>5, <1>t, ListingIs, FailureKeepsType DEF Goes, RunOK, StoreOK, TodoIsOfItsKind
<1>6. CASE SkipTicket
  <2>1. RunOK'
    BY <1>0, <1>6, SkipTicketIs DEF Goes, RunOK, TodoIsOfItsKind, Tickets
  <2> QED
    BY <1>0, <1>6, <1>t, <2>1, SkipTicketIs DEF StoreOK
<1>7. CASE CreateIssue
  <2>1. PICK effect \in BOOLEAN :
          (IF effect THEN Opened(run.at) ELSE UNCHANGED issues) /\ Creates(effect)
    BY <1>7, CreateIssueIs
  <2>2. RunOK'
    BY <1>0, <1>7, <2>1, CreateIssueIs, FailureKeepsType
       DEF Creates, Mutates, Goes, RunOK, TodoIsOfItsKind, Tickets
  <2>3. StoreOK'
    BY <1>0, <1>7, <1>o, <2>1, CreateIssueIs DEF StoreOK
  <2> QED
    BY <1>t, <2>2, <2>3
<1>8. CASE CloseIssue
  <2>1. PICK effect \in BOOLEAN :
          /\ IF effect THEN Closed(CreatedNumber) ELSE UNCHANGED issues
          /\ Mutates(effect, Goes("issues", run.todo, run.known, run.at + 1))
    BY <1>8, CloseIssueIs
  <2>2. run.at \in Tickets
    BY <1>0, <1>8, TicketsAreWellFormed DEF RunOK, CloseIssue
  <2>3. RunOK'
    BY <1>0, <2>1, <2>2, FailureKeepsType DEF Mutates, Goes, RunOK, TodoIsOfItsKind, Tickets
  <2>4. Closed(CreatedNumber) => issues' \in Seq(Issue)
    BY DEF Closed
  <2>5. StoreOK'
    BY <1>0, <1>8, <2>1, <2>4, CloseIssueIs DEF StoreOK
  <2> QED
    BY <1>t, <2>3, <2>5
<1>9. CASE Finish
  <2>1. RunOK'
    BY <1>0, <1>9, FinishIs DEF Goes, RunOK, TodoIsOfItsKind
  <2> QED
    BY <1>0, <1>9, <1>t, <2>1, FinishIs DEF StoreOK
<1>10. CASE PersonOpens \/ PersonCloses
  <2>1. StoreOK'
    BY <1>0, <1>10, <1>o, <1>c, PeopleDo DEF StoreOK
  <2>2. RunOK'
    BY <1>0, <1>10, PeopleDo DEF RunOK, TodoIsOfItsKind
  <2> QED
    BY <1>t, <2>1, <2>2
<1>11. CASE UNCHANGED vars
  BY <1>11 DEF vars, TypeInv, TypeOK, TodoIsOfItsKind
<1> QED
  BY <1>1, <1>2, <1>3, <1>4, <1>5, <1>6, <1>7, <1>8, <1>9, <1>10, <1>11 DEF Next

\* Labels, milestones, issues and the run have their types, for any tickets and
\* bounds.
THEOREM TypeCorrect == Spec => []TypeOK
<1>1. TypeInv => TypeOK
  BY DEF TypeInv
<1> QED
  BY <1>1, TypeInit, TypeStep, PTL DEF Spec

-----------------------------------------------------------------------------
(***************************************************************************)
(* What a run that is not dry has made by the time it is at a ticket.      *)
(***************************************************************************)
HasIssue(t) == \E i \in Numbers : issues[i].ticket = t

\* Labels and milestones are complete once the run is past them.
LabelsMade ==
    ~run.dry =>
        /\ run.pc = "labels" => LABELS \subseteq labels \cup run.todo
        /\ run.pc \in {"milestones", "issues", "close", "done"} => LABELS \subseteq labels
        /\ run.pc = "milestones" => MILESTONES \subseteq milestones \cup run.todo
        /\ run.pc \in {"issues", "close", "done"} => MILESTONES \subseteq milestones

\* Whatever the run has listed or passed has an issue.
TicketsMade ==
    /\ run.pc \in {"labels", "milestones"} => run.at = 1
    /\ run.pc = "issues" => \A t \in run.known : HasIssue(t)
    /\ run.pc = "close" => ~run.dry /\ HasIssue(run.at) /\ \A t \in run.known : HasIssue(t)
    /\ (~run.dry /\ run.pc \in {"issues", "close"}) =>
          \A t \in Tickets : t < run.at => HasIssue(t)
    /\ (~run.dry /\ run.pc = "done") => \A t \in Tickets : HasIssue(t)

\* As long as one listing shows all issues, an issue for a ticket is one the
\* run has listed, or created itself at a ticket it has passed.
Explained(t) ==
    t = 0 \/ t \in run.known \/ t < run.at \/ (run.pc = "close" /\ t = run.at)

IssuesAreExplained ==
    Len(issues) <= ListLimit =>
        /\ OneIssuePerTicket
        /\ run.pc \in {"issues", "close"} =>
              \A i \in Numbers : Explained(issues[i].ticket)

Seeding == LabelsMade /\ TicketsMade /\ IssuesAreExplained

\* A ticket that has an issue keeps it.
LEMMA IssuesStay ==
    ASSUME Opened(run.at) \/ Opened(0) \/ (\E n : Closed(n)) \/ UNCHANGED issues
    PROVE  \A t : HasIssue(t) => HasIssue(t)'
BY DEF Opened, Closed, HasIssue, Numbers

\* While the issues are the same for each number, nothing new is to be
\* explained.
LEMMA SameTickets ==
    ASSUME TypeInv, IssuesAreExplained, UNCHANGED issues \/ \E n : Closed(n),
           run'.pc \in {"issues", "close"} =>
                /\ run.pc \in {"issues", "close"}
                /\ \A t \in Tickets \cup {0} : Explained(t) => Explained(t)'
    PROVE  IssuesAreExplained'
<1>1. /\ Len(issues') = Len(issues) /\ Numbers' = Numbers
      /\ \A i \in Numbers : issues'[i].ticket = issues[i].ticket
  BY DEF Closed, Numbers
<1>2. \A i \in Numbers : issues[i].ticket \in Tickets \cup {0}
  BY IssueTickets DEF TypeInv, TypeOK, Issue
<1>3. ASSUME Len(issues) <= ListLimit PROVE OneIssuePerTicket'
  BY <1>1, <1>3 DEF IssuesAreExplained, OneIssuePerTicket, Numbers
<1>4. ASSUME Len(issues) <= ListLimit, run'.pc \in {"issues", "close"}, NEW i \in Numbers
      PROVE  Explained(issues[i].ticket)'
  <2>1. Explained(issues[i].ticket)
    BY <1>4 DEF IssuesAreExplained
  <2>2. PICK t \in Tickets \cup {0} : t = issues[i].ticket
    BY <1>2
  <2>3. Explained(t)'
    BY <1>4, <2>1, <2>2
  <2> QED
    BY <1>1, <2>2, <2>3 DEF Explained
<1> QED
  BY <1>1, <1>3, <1>4 DEF IssuesAreExplained

\* At the start there are no issues, and nothing was run.
LEMMA SeedingInit == Init => Seeding
BY DEF Init, Seeding, LabelsMade, TicketsMade, IssuesAreExplained, OneIssuePerTicket, Numbers

\* Every step keeps what the run has made.
LEMMA SeedingStep == TypeInv /\ TypeInv' /\ Seeding /\ [Next]_vars => Seeding'
<1> SUFFICES ASSUME TypeInv, TypeInv', Seeding, [Next]_vars PROVE Seeding'
  OBVIOUS
<1> USE NTicketsType
<1>0. RunOK /\ StoreOK /\ RunOK' /\ StoreOK'
  BY DEF TypeInv, TypeOK, RunOK, StoreOK, Issue
<1>1. CASE Start
  <2>1. UNCHANGED <<labels, milestones, issues>>
    BY <1>1, StartIs
  <2>2. \/ run'.pc = "failed"
        \/ run'.pc = "labels" /\ run'.todo = LABELS \ labels /\ run'.at = 1
    BY <1>1, StartIs DEF Fails
  <2>3. LabelsMade' /\ TicketsMade'
    BY <2>1, <2>2 DEF LabelsMade, TicketsMade
  <2>4. IssuesAreExplained'
    BY <2>1, <2>2, SameTickets DEF Seeding
  <2> QED
    BY <2>3, <2>4 DEF Seeding
<1>f. ASSUME Fails PROVE LabelsMade' /\ TicketsMade'
  BY <1>f DEF Fails, LabelsMade, TicketsMade
<1>2. CASE MakeLabel
  <2>1. PICK label \in run.todo, effect \in BOOLEAN :
          /\ labels' = IF effect THEN labels \cup {label} ELSE labels
          /\ Mutates(effect, Goes("labels", run.todo \ {label}, run.known, run.at))
    BY <1>2, MakeLabelIs
  <2>2. run.pc = "labels" /\ UNCHANGED <<milestones, issues>>
    BY <1>2, MakeLabelIs
  <2>3. run'.pc \in {"labels", "failed"}
    BY <2>1 DEF Mutates, Goes, Fails
  <2>4. IssuesAreExplained'
    BY <2>2, <2>3, SameTickets DEF Seeding
  <2>5. CASE Fails
    BY <1>f, <2>4, <2>5 DEF Seeding
  <2>6. CASE Goes("labels", run.todo \ {label}, run.known, run.at) /\ (effect <=> ~run.dry)
    <3>1. LabelsMade'
      BY <2>1, <2>2, <2>6 DEF Goes, Seeding, LabelsMade
    <3>2. TicketsMade'
      BY <2>2, <2>6 DEF Goes, Seeding, TicketsMade
    <3> QED
      BY <2>4, <3>1, <3>2 DEF Seeding
  <2> QED
    BY <2>1, <2>5, <2>6 DEF Mutates
<1>3. CASE MakeMilestone
  <2>1. PICK milestone \in run.todo, effect \in BOOLEAN :
          /\ milestones' = IF effect THEN milestones \cup {milestone} ELSE milestones
          /\ Mutates(effect, Goes("milestones", run.todo \ {milestone}, run.known, run.at))
    BY <1>3, MakeMilestoneIs
  <2>2. run.pc = "milestones" /\ UNCHANGED <<labels, issues>>
    BY <1>3, MakeMilestoneIs
  <2>3. run'.pc \in {"milestones", "failed"}
    BY <2>1 DEF Mutates, Goes, Fails
  <2>4. IssuesAreExplained'
    BY <2>2, <2>3, SameTickets DEF Seeding
  <2>5. CASE Fails
    BY <1>f, <2>4, <2>5 DEF Seeding
  <2>6. CASE Goes("milestones", run.todo \ {milestone}, run.known, run.at)
             /\ (effect <=> ~run.dry)
    <3>1. LabelsMade'
      BY <2>1, <2>2, <2>6 DEF Goes, Seeding, LabelsMade
    <3>2. TicketsMade'
      BY <2>2, <2>6 DEF Goes, Seeding, TicketsMade
    <3> QED
      BY <2>4, <3>1, <3>2 DEF Seeding
  <2> QED
    BY <2>1, <2>5, <2>6 DEF Mutates
<1>4. CASE ListMilestones
  <2>1. /\ run.pc = "labels" /\ run.todo = {}
        /\ UNCHANGED <<labels, milestones, issues>>
        /\ Goes("milestones", MILESTONES \ milestones, run.known, run.at) \/ Fails
    BY <1>4, ListingIs
  <2>2. LabelsMade' /\ TicketsMade'
    BY <1>f, <2>1 DEF Goes, Seeding, LabelsMade, TicketsMade
  <2>3. run'.pc \in {"milestones", "failed"}
    BY <2>1 DEF Goes, Fails
  <2> QED
    BY <2>1, <2>2, <2>3, SameTickets DEF Seeding
<1>5. CASE ListIssues
  <2>1. /\ run.pc = "milestones" /\ run.todo = {}
        /\ UNCHANGED <<labels, milestones, issues>>
        /\ Goes("issues", run.todo, Listed, run.at) \/ Fails
    BY <1>5, ListingIs
  <2>2. CASE Fails
    <3>1. IssuesAreExplained'
      BY <2>1, <2>2, SameTickets DEF Seeding, Fails
    <3> QED
      BY <1>f, <2>2, <3>1 DEF Seeding
  <2>3. CASE Goes("issues", run.todo, Listed, run.at)
    <3>1. LabelsMade'
      BY <2>1, <2>3 DEF Goes, Seeding, LabelsMade
    <3>2. run.at = 1 /\ run'.at = 1 /\ run'.known = Listed /\ run'.pc = "issues"
      BY <2>1, <2>3 DEF Goes, Seeding, TicketsMade
    <3>3. \A t \in Listed : HasIssue(t)
      BY DEF Listed, HasIssue, Numbers
    <3>4. \A t \in Tickets : ~ t < 1
      BY DEF Tickets
    <3>5. \A t : HasIssue(t) => HasIssue(t)'
      BY <2>1 DEF HasIssue, Numbers
    <3>6. TicketsMade'
      BY <3>2, <3>3, <3>4, <3>5 DEF TicketsMade
    <3>7. Len(issues) <= ListLimit => \A i \in Numbers : issues[i].ticket \in Listed
      BY <1>0, BoundsType DEF Listed, Numbers, StoreOK
    <3>8. OneIssuePerTicket => OneIssuePerTicket'
      BY <2>1 DEF OneIssuePerTicket
    <3>9. IssuesAreExplained'
      BY <2>1, <3>2, <3>7, <3>8 DEF Seeding, IssuesAreExplained, Explained, Numbers
    <3> QED
      BY <3>1, <3>6, <3>9 DEF Seeding
  <2> QED
    BY <2>1, <2>2, <2>3
<1>6. CASE SkipTicket
  <2>1. /\ run.pc = "issues" /\ run.at \in Tickets /\ run.at \in run.known
        /\ UNCHANGED <<labels, milestones, issues>>
        /\ Goes("issues", run.todo, run.known, run.at + 1)
    BY <1>6, SkipTicketIs
  <2>2. LabelsMade'
    BY <2>1 DEF Goes, Seeding, LabelsMade
  <2>3. \A t : HasIssue(t) => HasIssue(t)'
    BY <2>1 DEF HasIssue, Numbers
  <2>4. \A t \in Tickets : t < run.at + 1 => t < run.at \/ t = run.at
    BY <2>1 DEF Tickets
  <2>5. TicketsMade'
    BY <2>1, <2>3, <2>4 DEF Goes, Seeding, TicketsMade
  <2>6. \A t \in Tickets \cup {0} : Explained(t) => Explained(t)'
    BY <2>1 DEF Goes, Explained, Tickets
  <2>7. IssuesAreExplained'
    BY <2>1, <2>6, SameTickets DEF Seeding
  <2> QED
    BY <2>2, <2>5, <2>7 DEF Seeding
<1>7. CASE CreateIssue
  <2>1. PICK effect \in BOOLEAN :
          (IF effect THEN Opened(run.at) ELSE UNCHANGED issues) /\ Creates(effect)
    BY <1>7, CreateIssueIs
  <2>2. /\ run.pc = "issues" /\ run.at \in Tickets /\ run.at \notin run.known
        /\ UNCHANGED <<labels, milestones>>
    BY <1>7, CreateIssueIs
  <2>3. \A t : HasIssue(t) => HasIssue(t)'
    BY <2>1, IssuesStay
  <2> PICK here : here = run.at
    OBVIOUS
  <2>4. effect => HasIssue(here)'
    BY <2>1 DEF Opened, HasIssue, Numbers
  <2>5. \/ Fails
        \/ /\ Goes("close", run.todo, run.known, run.at)
           /\ ~run.dry /\ effect
        \/ /\ Goes("issues", run.todo, run.known, run.at + 1)
           /\ effect <=> ~run.dry
    BY <2>1 DEF Creates, Mutates
  <2>6. LabelsMade'
    BY <1>f, <2>2, <2>5 DEF Goes, Seeding, LabelsMade
  <2>7. \A t \in Tickets : t < run.at + 1 => t < run.at \/ t = run.at
    BY <2>2 DEF Tickets
  <2>8. TicketsMade'
    <3>1. CASE Fails
      BY <1>f, <3>1
    <3>2. CASE Goes("close", run.todo, run.known, run.at) /\ ~run.dry /\ effect
      BY <2>2, <2>3, <2>4, <3>2 DEF Goes, Seeding, TicketsMade, HasIssue, Numbers
    <3>3. CASE Goes("issues", run.todo, run.known, run.at + 1) /\ (effect <=> ~run.dry)
      BY <2>2, <2>3, <2>4, <2>7, <3>3 DEF Goes, Seeding, TicketsMade, HasIssue, Numbers
    <3> QED
      BY <2>5, <3>1, <3>2, <3>3
  <2>9. \A t \in Tickets \cup {0} :
          Explained(t) /\ run'.pc \in {"issues", "close"} => Explained(t)'
    BY <2>2, <2>5 DEF Goes, Fails, Explained, Tickets
  <2>10. IssuesAreExplained'
    <3>1. CASE UNCHANGED issues
      <4> QED
        BY <2>2, <2>9, <3>1, SameTickets DEF Seeding
    <3>2. CASE Opened(run.at)
      <4>1. /\ Len(issues') = Len(issues) + 1 /\ Len(issues) \in Nat
            /\ Numbers' = Numbers \cup {Len(issues) + 1}
            /\ Len(issues) + 1 \notin Numbers
            /\ \A i \in Numbers : issues'[i] = issues[i]
            /\ issues'[Len(issues) + 1].ticket = run.at
        BY <1>0, <3>2 DEF Opened, StoreOK, Numbers
      <4>2. \A i \in Numbers : issues[i].ticket \in Tickets \cup {0}
        BY <1>0, IssueTickets DEF StoreOK
      <4> SUFFICES ASSUME Len(issues') <= ListLimit
                   PROVE  /\ OneIssuePerTicket'
                          /\ run'.pc \in {"issues", "close"} =>
                                \A i \in Numbers' : Explained(issues[i].ticket)'
        BY DEF IssuesAreExplained
      <4>3. Len(issues) <= ListLimit
        BY <4>1, BoundsType
      <4>4. OneIssuePerTicket /\ \A i \in Numbers : Explained(issues[i].ticket)
        BY <2>2, <4>3 DEF Seeding, IssuesAreExplained
      <4>5. \A i \in Numbers : issues[i].ticket # run.at
        BY <2>2, <4>2, <4>4 DEF Explained, Tickets
      <4>6. OneIssuePerTicket'
        BY <4>1, <4>3, <4>4, <4>5 DEF OneIssuePerTicket, Numbers
      <4>7. ASSUME run'.pc \in {"issues", "close"}, NEW i \in Numbers'
            PROVE  Explained(issues[i].ticket)'
        <5>1. CASE i \in Numbers
          <6>1. PICK t \in Tickets \cup {0} : t = issues[i].ticket
            BY <4>2, <5>1
          <6>2. Explained(t)'
            BY <2>9, <4>4, <4>7, <5>1, <6>1
          <6> QED
            BY <4>1, <5>1, <6>1, <6>2 DEF Explained
        <5>2. CASE i = Len(issues) + 1
          BY <2>2, <2>5, <4>1, <4>7, <5>2 DEF Goes, Fails, Explained, Tickets
        <5> QED
          BY <4>1, <5>1, <5>2
      <4> QED
        BY <4>6, <4>7
    <3> QED
      BY <2>1, <3>1, <3>2
  <2> QED
    BY <2>6, <2>8, <2>10 DEF Seeding
<1>8. CASE CloseIssue
  <2>1. PICK effect \in BOOLEAN :
          /\ IF effect THEN Closed(CreatedNumber) ELSE UNCHANGED issues
          /\ Mutates(effect, Goes("issues", run.todo, run.known, run.at + 1))
    BY <1>8, CloseIssueIs
  <2>2. run.pc = "close" /\ UNCHANGED <<labels, milestones>> /\ run.at \in Tickets
    BY <1>0, <1>8, CloseIssueIs, TicketsAreWellFormed DEF RunOK
  <2>3. UNCHANGED issues \/ \E n : Closed(n)
    BY <2>1
  <2>4. \A t : HasIssue(t) => HasIssue(t)'
    BY <2>3, IssuesStay
  <2>5. Fails \/ Goes("issues", run.todo, run.known, run.at + 1)
    BY <2>1 DEF Mutates
  <2>6. LabelsMade'
    BY <1>f, <2>2, <2>5 DEF Goes, Seeding, LabelsMade
  <2>7. \A t \in Tickets : t < run.at + 1 => t < run.at \/ t = run.at
    BY <2>2 DEF Tickets
  <2>8. TicketsMade'
    BY <1>f, <2>2, <2>4, <2>5, <2>7 DEF Goes, Seeding, TicketsMade
  <2>9. run'.pc \in {"issues", "close"} =>
          \A t \in Tickets \cup {0} : Explained(t) => Explained(t)'
    BY <2>2, <2>5 DEF Goes, Fails, Explained, Tickets
  <2>10. IssuesAreExplained'
    BY <2>2, <2>3, <2>9, SameTickets DEF Seeding
  <2> QED
    BY <2>6, <2>8, <2>10 DEF Seeding
<1>9. CASE Finish
  <2>1. /\ run.pc = "issues" /\ run.at = NTickets + 1
        /\ UNCHANGED <<labels, milestones, issues>>
        /\ Goes("done", run.todo, run.known, run.at)
    BY <1>9, FinishIs
  <2>2. LabelsMade'
    BY <2>1 DEF Goes, Seeding, LabelsMade
  <2>3. \A t \in Tickets : t < run.at
    BY <2>1 DEF Tickets
  <2>4. \A t : HasIssue(t) => HasIssue(t)'
    BY <2>1 DEF HasIssue, Numbers
  <2>5. TicketsMade'
    BY <2>1, <2>3, <2>4 DEF Goes, Seeding, TicketsMade
  <2>6. IssuesAreExplained'
    BY <2>1, SameTickets DEF Seeding, Goes
  <2> QED
    BY <2>2, <2>5, <2>6 DEF Seeding
<1>10. CASE PersonOpens \/ PersonCloses
  <2>1. UNCHANGED <<labels, milestones, run>> /\ (Opened(0) \/ \E n \in Numbers : Closed(n))
    BY <1>10, PeopleDo
  <2>2. LabelsMade'
    BY <2>1 DEF Seeding, LabelsMade
  <2>3. \A t : HasIssue(t) => HasIssue(t)'
    BY <2>1, IssuesStay
  <2>4. TicketsMade'
    BY <2>1, <2>3 DEF Seeding, TicketsMade, HasIssue, Numbers
  <2>5. \A t : Explained(t) => Explained(t)'
    BY <2>1 DEF Explained
  <2>6. IssuesAreExplained'
    <3>1. CASE \E n \in Numbers : Closed(n)
      BY <2>1, <2>5, <3>1, SameTickets DEF Seeding
    <3>2. CASE Opened(0)
      <4>1. /\ Len(issues') = Len(issues) + 1 /\ Len(issues) \in Nat
            /\ Numbers' = Numbers \cup {Len(issues) + 1}
            /\ Len(issues) + 1 \notin Numbers
            /\ \A i \in Numbers : issues'[i] = issues[i]
            /\ issues'[Len(issues) + 1].ticket = 0
        BY <1>0, <3>2 DEF Opened, StoreOK, Numbers
      <4> SUFFICES ASSUME Len(issues') <= ListLimit
                   PROVE  /\ OneIssuePerTicket'
                          /\ run'.pc \in {"issues", "close"} =>
                                \A i \in Numbers' : Explained(issues[i].ticket)'
        BY DEF IssuesAreExplained
      <4>2. Len(issues) <= ListLimit
        BY <4>1, BoundsType
      <4>3. OneIssuePerTicket'
        BY <4>1, <4>2 DEF Seeding, IssuesAreExplained, OneIssuePerTicket, Numbers
      <4>4. ASSUME run'.pc \in {"issues", "close"}, NEW i \in Numbers'
            PROVE  Explained(issues[i].ticket)'
        BY <2>1, <4>1, <4>2, <4>4 DEF Seeding, IssuesAreExplained, Explained
      <4> QED
        BY <4>3, <4>4
    <3> QED
      BY <2>1, <3>1, <3>2
  <2> QED
    BY <2>2, <2>4, <2>6 DEF Seeding
<1>11. CASE UNCHANGED vars
  <2>1. UNCHANGED <<labels, milestones, run, issues>>
    BY <1>11 DEF vars
  <2>2. LabelsMade' /\ TicketsMade'
    BY <2>1 DEF Seeding, LabelsMade, TicketsMade, HasIssue, Numbers
  <2>3. IssuesAreExplained'
    BY <2>1, SameTickets DEF Seeding, Explained
  <2> QED
    BY <2>2, <2>3 DEF Seeding
<1> QED
  BY <1>1, <1>2, <1>3, <1>4, <1>5, <1>6, <1>7, <1>8, <1>9, <1>10, <1>11 DEF Next

\* A ticket gets one issue however often the script is run and wherever runs
\* fail, as long as one listing shows all issues.
THEOREM TicketsGetOneIssue == Spec => []OneIssuePerTicket
<1>1. Seeding => OneIssuePerTicket
  BY DEF Seeding, IssuesAreExplained, OneIssuePerTicket
<1> QED
  BY <1>1, TypeInit, TypeStep, SeedingInit, SeedingStep, PTL DEF Spec

\* A run that ends well leaves no label, milestone or ticket out, whatever the
\* runs before it left.
THEOREM CompletedRunsSeedAll == Spec => []CompletedRunSeedsAll
<1>1. TypeInv /\ Seeding => CompletedRunSeedsAll
  BY DEF TypeInv, TypeOK, Seeding, LabelsMade, TicketsMade, HasIssue, Numbers,
         CompletedRunSeedsAll
<1> QED
  BY <1>1, TypeInit, TypeStep, SeedingInit, SeedingStep, PTL DEF Spec

-----------------------------------------------------------------------------
(***************************************************************************)
(* The issues of done tickets that are left open.                          *)
(***************************************************************************)

\* The newest issue of the ticket the run is at.
IsNewest(n) ==
    /\ n \in Numbers /\ issues[n].ticket = run.at
    /\ \A j \in Numbers : issues[j].ticket = run.at => j <= n

\* Each failed run has left one at most; the run that is about to close the
\* newest issue of its ticket will leave no other.
LeftOpen ==
    /\ run.pc # "close" => Cardinality(OpenDoneIssues) <= failures
    /\ run.pc = "close" =>
          /\ ~run.dry
          /\ \E n \in Numbers :
                /\ n = CreatedNumber /\ IsNewest(n)
                /\ Cardinality(OpenDoneIssues \ {n}) <= failures

\* There are finitely many of them.
LEMMA OpenIsFinite ==
    ASSUME issues \in Seq(Issue)
    PROVE  IsFiniteSet(OpenDoneIssues) /\ Cardinality(OpenDoneIssues) \in Nat
<1>1. OpenDoneIssues \subseteq 1 .. Len(issues) /\ Len(issues) \in Nat
  BY DEF OpenDoneIssues
<1>2. IsFiniteSet(1 .. Len(issues))
  BY <1>1, FS_Interval
<1>3. IsFiniteSet(OpenDoneIssues)
  BY <1>1, <1>2, FS_Subset
<1> QED
  BY <1>3, FS_CardinalityType

\* How they change with the issues.
LEMMA OpenDoneChanges ==
    ASSUME issues \in Seq(Issue)
    PROVE  /\ UNCHANGED issues => OpenDoneIssues' = OpenDoneIssues
           /\ \A t \in Tickets \cup {0} : Opened(t) =>
                 OpenDoneIssues' = IF t \in Done THEN OpenDoneIssues \cup {Len(issues) + 1}
                                   ELSE OpenDoneIssues
           /\ \A n : Closed(n) => OpenDoneIssues' = OpenDoneIssues \ {n}
<1>1. UNCHANGED issues => OpenDoneIssues' = OpenDoneIssues
  BY DEF OpenDoneIssues
<1>2. ASSUME NEW t \in Tickets \cup {0}, Opened(t)
      PROVE  OpenDoneIssues' = IF t \in Done THEN OpenDoneIssues \cup {Len(issues) + 1}
                               ELSE OpenDoneIssues
  <2>1. Len(issues) + 1 \notin Numbers
    BY DEF Numbers
  <2> QED
    BY <1>2, <2>1 DEF Opened, OpenDoneIssues, Numbers
<1>3. ASSUME NEW n, Closed(n)
      PROVE  OpenDoneIssues' = OpenDoneIssues \ {n}
  BY <1>3 DEF Closed, OpenDoneIssues, Numbers
<1> QED
  BY <1>1, <1>2, <1>3

\* A step that leaves them alone, and does not come from or lead to the close of
\* an issue, keeps the bound whether it fails or not.
LEMMA FewerLeftOpen ==
    ASSUME TypeInv, TypeInv', LeftOpen, run.pc # "close", run'.pc # "close",
           OpenDoneIssues' = OpenDoneIssues, failures' \in {failures, failures + 1}
    PROVE  LeftOpen'
<1>1. Cardinality(OpenDoneIssues) \in Nat /\ failures \in Nat
  BY OpenIsFinite DEF TypeInv, TypeOK, Issue
<1> QED
  BY <1>1 DEF LeftOpen

\* Nothing has been created.
LEMMA LeftOpenInit == Init => LeftOpen
<1> SUFFICES ASSUME Init PROVE LeftOpen
  OBVIOUS
<1>1. OpenDoneIssues = {}
  BY DEF Init, OpenDoneIssues
<1> QED
  BY <1>1, FS_EmptySet DEF Init, LeftOpen

\* Every step keeps the bound.
LEMMA LeftOpenStep == TypeInv /\ TypeInv' /\ LeftOpen /\ [Next]_vars => LeftOpen'
<1> SUFFICES ASSUME TypeInv, TypeInv', LeftOpen, [Next]_vars PROVE LeftOpen'
  OBVIOUS
<1>0. /\ issues \in Seq(Issue) /\ issues' \in Seq(Issue)
      /\ failures \in Nat /\ failures' \in Nat
      /\ run.at \in 1 .. NTickets + 1 /\ (run.pc = "close" => run.at \in Done)
  BY DEF TypeInv, TypeOK, Issue
<1>c. Cardinality(OpenDoneIssues) \in Nat /\ IsFiniteSet(OpenDoneIssues)
  BY <1>0, OpenIsFinite
<1>u. UNCHANGED issues => OpenDoneIssues' = OpenDoneIssues
  BY <1>0, OpenDoneChanges
<1>1. CASE Start
  <2>1. run.pc # "close" /\ run'.pc # "close" /\ UNCHANGED issues
        /\ failures' \in {failures, failures + 1}
    BY <1>1, StartIs DEF Fails
  <2> QED
    BY <1>u, <2>1, FewerLeftOpen
<1>2. CASE MakeLabel \/ MakeMilestone \/ ListMilestones \/ ListIssues \/ SkipTicket \/ Finish
  <2>1. run.pc # "close" /\ UNCHANGED issues
    BY <1>2, MakeLabelIs, MakeMilestoneIs, ListingIs, SkipTicketIs, FinishIs
  <2>2. run'.pc # "close" /\ failures' \in {failures, failures + 1}
    BY <1>2, MakeLabelIs, MakeMilestoneIs, ListingIs, SkipTicketIs, FinishIs
       DEF Mutates, Goes, Fails
  <2> QED
    BY <1>u, <2>1, <2>2, FewerLeftOpen
<1>3. CASE CreateIssue
  <2>1. PICK effect \in BOOLEAN :
          (IF effect THEN Opened(run.at) ELSE UNCHANGED issues) /\ Creates(effect)
    BY <1>3, CreateIssueIs
  <2>2. run.pc = "issues" /\ run.at \in Tickets
    BY <1>3, CreateIssueIs
  <2>3. Cardinality(OpenDoneIssues) <= failures
    BY <2>2 DEF LeftOpen
  <2>4. \/ Fails
        \/ /\ Goes("close", run.todo, run.known, run.at)
           /\ run.at \in Done /\ effect
        \/ /\ Goes("issues", run.todo, run.known, run.at + 1)
           /\ ~(run.at \in Done /\ effect)
    BY <2>1 DEF Creates, Mutates
  <2>5. CASE UNCHANGED issues /\ ~effect
    <3>1. run'.pc # "close" /\ failures' \in {failures, failures + 1}
      BY <2>4, <2>5 DEF Goes, Fails
    <3> QED
      BY <1>u, <2>2, <2>5, <3>1, FewerLeftOpen
  <2>6. CASE Opened(run.at) /\ run.at \notin Done
    <3>1. PICK t \in Tickets : t = run.at
      BY <2>2
    <3>2. OpenDoneIssues' = OpenDoneIssues
      BY <1>0, <2>6, <3>1, OpenDoneChanges
    <3>3. run'.pc # "close" /\ failures' \in {failures, failures + 1}
      BY <2>4, <2>6 DEF Goes, Fails
    <3> QED
      BY <2>2, <3>2, <3>3, FewerLeftOpen
  <2>7. CASE Opened(run.at) /\ run.at \in Done /\ effect
    <3>1. PICK t \in Tickets : t = run.at
      BY <2>2
    <3> DEFINE n == Len(issues) + 1
    <3>2. OpenDoneIssues' = OpenDoneIssues \cup {n} /\ n \notin OpenDoneIssues
      BY <1>0, <2>7, <3>1, OpenDoneChanges DEF OpenDoneIssues
    <3>3. CASE Fails
      <4>1. Cardinality(OpenDoneIssues') <= failures + 1
        <5>1. Cardinality(OpenDoneIssues \cup {n}) = Cardinality(OpenDoneIssues) + 1
          BY <1>c, <3>2, FS_AddElement
        <5> HIDE DEF n
        <5> QED
          BY <1>0, <1>c, <2>3, <3>2, <5>1
      <4> QED
        BY <3>3, <4>1 DEF LeftOpen, Fails
    <3>4. CASE Goes("close", run.todo, run.known, run.at)
      <4>1. PICK m : m = n
        OBVIOUS
      <4>2. IsNewest(m)' /\ Numbers' \subseteq Nat
        BY <1>0, <2>7, <3>4, <4>1 DEF Opened, Goes, Numbers, IsNewest
      <4>3. \A i \in Numbers' : IsNewest(i)' => i = m
        BY <4>2 DEF IsNewest
      <4>4. m = CreatedNumber'
        BY <4>2, <4>3 DEF CreatedNumber, IsNewest, Numbers
      <4>5. OpenDoneIssues' \ {m} = OpenDoneIssues
        BY <3>2, <4>1
      <4>6. m \in Numbers'
        BY <4>2 DEF IsNewest
      <4>7. run'.pc = "close" /\ ~run'.dry /\ failures' = failures
        BY <2>1, <2>7, <3>4 DEF Goes, Fails, Creates, Mutates
      <4> QED
        BY <2>3, <4>2, <4>4, <4>5, <4>6, <4>7 DEF LeftOpen
    <3> QED
      BY <2>4, <2>7, <3>3, <3>4
  <2> QED
    BY <2>1, <2>5, <2>6, <2>7
<1>4. CASE CloseIssue
  <2>1. PICK effect \in BOOLEAN :
          /\ IF effect THEN Closed(CreatedNumber) ELSE UNCHANGED issues
          /\ Mutates(effect, Goes("issues", run.todo, run.known, run.at + 1))
    BY <1>4, CloseIssueIs
  <2>2. PICK n \in Numbers :
          n = CreatedNumber /\ Cardinality(OpenDoneIssues \ {n}) <= failures
    BY <1>4, CloseIssueIs DEF LeftOpen
  <2>3. run'.pc # "close" /\ failures' \in {failures, failures + 1}
    BY <2>1 DEF Mutates, Goes, Fails
  <2>4. CASE effect
    <3>1. OpenDoneIssues' = OpenDoneIssues \ {n}
      <4>1. Closed(n)
        BY <2>1, <2>2, <2>4 DEF Closed
      <4> QED
        BY <1>0, <4>1, OpenDoneChanges
    <3>2. Cardinality(OpenDoneIssues \ {n}) \in Nat
      BY <1>c, FS_RemoveElement, FS_CardinalityType
    <3> QED
      BY <1>0, <2>2, <2>3, <3>1, <3>2 DEF LeftOpen
  <2>5. CASE ~effect
    <3>1. OpenDoneIssues' = OpenDoneIssues
      BY <1>u, <2>1, <2>5
    <3>2. Cardinality(OpenDoneIssues) <= failures + 1
      <4>1. Cardinality(OpenDoneIssues \ {n}) >= Cardinality(OpenDoneIssues) - 1
        BY <1>c, FS_RemoveElement
      <4>2. Cardinality(OpenDoneIssues \ {n}) \in Nat
        BY <1>c, FS_RemoveElement, FS_CardinalityType
      <4> QED
        BY <1>0, <1>c, <2>2, <4>1, <4>2
    <3>3. failures' = failures + 1
      BY <1>4, <2>1, <2>5 DEF Mutates, Fails, LeftOpen, CloseIssue
    <3> QED
      BY <2>3, <3>1, <3>2, <3>3 DEF LeftOpen
  <2> QED
    BY <2>4, <2>5
<1>5. CASE PersonOpens \/ PersonCloses
  <2>1. UNCHANGED <<run, failures>> /\ (Opened(0) \/ \E n \in Numbers : Closed(n))
    BY <1>5, PeopleDo
  <2>2. OpenDoneIssues' \subseteq OpenDoneIssues
    <3>1. CASE Opened(0)
      <4>1. 0 \notin Done
        BY TicketsAreWellFormed DEF Tickets
      <4>2. PICK t \in Tickets \cup {0} : t = 0
        OBVIOUS
      <4> QED
        BY <1>0, <3>1, <4>1, <4>2, OpenDoneChanges
    <3>2. CASE \E n \in Numbers : Closed(n)
      BY <1>0, <3>2, OpenDoneChanges
    <3> QED
      BY <2>1, <3>1, <3>2
  <2>3. \A S \in SUBSET OpenDoneIssues : \A T \in SUBSET S :
          /\ Cardinality(S) \in Nat /\ Cardinality(T) \in Nat
          /\ Cardinality(T) <= Cardinality(S)
    <3>1. \A S \in SUBSET OpenDoneIssues : IsFiniteSet(S)
      BY <1>c, FS_Subset
    <3> QED
      BY <3>1, FS_Subset, FS_CardinalityType
  <2>4. CASE run.pc # "close"
    <3>1. Cardinality(OpenDoneIssues') <= Cardinality(OpenDoneIssues)
          /\ Cardinality(OpenDoneIssues') \in Nat
      BY <2>2, <2>3
    <3> QED
      BY <1>0, <1>c, <2>1, <2>4, <3>1 DEF LeftOpen
  <2>5. CASE run.pc = "close"
    <3>1. PICK n \in Numbers :
            /\ n = CreatedNumber /\ IsNewest(n)
            /\ Cardinality(OpenDoneIssues \ {n}) <= failures
      BY <2>5 DEF LeftOpen
    <3>2. IsNewest(n)' /\ Numbers' \subseteq Nat
      <4>1. \A i \in Numbers' : i \in Numbers \/ issues'[i].ticket # run.at
        <5>1. run.at # 0
          BY <1>0
        <5> QED
          BY <2>1, <5>1 DEF Opened, Closed, Numbers
      <4>2. \A i \in Numbers : i \in Numbers' /\ issues'[i].ticket = issues[i].ticket
        BY <2>1 DEF Opened, Closed, Numbers
      <4> QED
        BY <1>0, <2>1, <3>1, <4>1, <4>2 DEF IsNewest, Numbers
    <3>3. \A i \in Numbers' : IsNewest(i)' => i = n
      BY <3>2 DEF IsNewest
    <3>4. n = CreatedNumber'
      BY <3>2, <3>3 DEF CreatedNumber, IsNewest, Numbers
    <3>5. /\ Cardinality(OpenDoneIssues' \ {n}) <= Cardinality(OpenDoneIssues \ {n})
          /\ Cardinality(OpenDoneIssues' \ {n}) \in Nat
          /\ Cardinality(OpenDoneIssues \ {n}) \in Nat
      <4>1. OpenDoneIssues' \ {n} \subseteq OpenDoneIssues \ {n}
        BY <2>2
      <4> QED
        BY <2>3, <4>1
    <3>6. Cardinality(OpenDoneIssues' \ {n}) <= failures'
      BY <1>0, <2>1, <3>1, <3>5
    <3>7. n \in Numbers' /\ run'.pc = "close" /\ ~run'.dry
      BY <2>1, <2>5, <3>2 DEF IsNewest, LeftOpen
    <3> QED
      BY <3>2, <3>4, <3>6, <3>7 DEF LeftOpen
  <2> QED
    BY <2>4, <2>5
<1>6. CASE UNCHANGED vars
  <2>1. UNCHANGED <<run, issues, failures>>
    BY <1>6 DEF vars
  <2> QED
    BY <2>1 DEF LeftOpen, OpenDoneIssues, Numbers, CreatedNumber, IsNewest
<1> QED
  BY <1>1, <1>2, <1>3, <1>4, <1>5, <1>6 DEF Next

\* However runs fail, no more issues of done tickets are left open than runs
\* have failed, and the one that the present run is about to close.
THEOREM FailuresLeaveOneOpen == Spec => []FailedRunsLeaveOneOpen
<1>1. TypeInv /\ LeftOpen => FailedRunsLeaveOneOpen
  <2> SUFFICES ASSUME TypeInv, LeftOpen PROVE FailedRunsLeaveOneOpen
    OBVIOUS
  <2>1. /\ Cardinality(OpenDoneIssues) \in Nat /\ IsFiniteSet(OpenDoneIssues)
        /\ failures \in Nat
    BY OpenIsFinite DEF TypeInv, TypeOK, Issue
  <2>2. CASE run.pc # "close"
    BY <2>1, <2>2 DEF LeftOpen, FailedRunsLeaveOneOpen
  <2>3. CASE run.pc = "close"
    <3>1. PICK n \in Numbers : Cardinality(OpenDoneIssues \ {n}) <= failures
      BY <2>3 DEF LeftOpen
    <3>2. Cardinality(OpenDoneIssues \ {n}) >= Cardinality(OpenDoneIssues) - 1
      <4>1. Cardinality(OpenDoneIssues \ {n})
              \in {Cardinality(OpenDoneIssues), Cardinality(OpenDoneIssues) - 1}
        BY <2>1, FS_RemoveElement
      <4> QED
        BY <2>1, <4>1
    <3>3. Cardinality(OpenDoneIssues \ {n}) \in Nat
      BY <2>1, FS_RemoveElement, FS_CardinalityType
    <3> QED
      BY <2>1, <2>3, <3>1, <3>2, <3>3 DEF FailedRunsLeaveOneOpen
  <2> QED
    BY <2>2, <2>3
<1> QED
  BY <1>1, TypeInit, TypeStep, LeftOpenInit, LeftOpenStep, PTL DEF Spec
=============================================================================
