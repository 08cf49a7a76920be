-------------------------- MODULE Provisioner_proof --------------------------
(***************************************************************************)
(* Proofs about Provisioner, for any numbers of projects and workers, any  *)
(* batch size, any numbers of retries and of late updates, and any faults.  *)
(***************************************************************************)
EXTENDS Provisioner, WellFoundedInduction, TLAPS

USE DEF Live, Positions

Run == [pc: {"idle", "begin", "provision", "complete", "fail", "respond"},
        at: Nat, last: Nat, failed: SUBSET Nat, got: Successes]

(***************************************************************************)
(* The worker that the mapping waits for works on the mapping's window.    *)
(***************************************************************************)
WindowIsWorkedOn ==
    \A w \in Workers :
        esm.worker = w =>
            /\ runs[w].pc # "idle"
            /\ runs[w].last = esm.last
            /\ esm.next <= runs[w].at
            /\ runs[w].failed \subseteq esm.next .. runs[w].at

(***************************************************************************)
(* The updates the handler sends: those may be late.                       *)
(***************************************************************************)
SentUpdates ==
    {Update(p, "CREATED", "PROVISIONING", "none") : p \in ProjectIds}
    \cup {Update(p, "PROVISIONING", "READY", got) : p \in ProjectIds, got \in Successes}
    \cup {Update(p, "PROVISIONING", "FAILED", "failureReason") : p \in ProjectIds}

TypeInv ==
    TypeOK /\ runs \in [Workers -> Run] /\ WindowIsWorkedOn /\ late \subseteq SentUpdates

(***************************************************************************)
(* What an invocation at a project knows of it, from the update to         *)
(* PROVISIONING on: nobody else is at the project, and the outcome it is   *)
(* about to record is the provisioner's.                                   *)
(***************************************************************************)
AtWork(w) == runs[w].pc \in {"provision", "complete", "fail"}

KnowsItsProject ==
    \A w \in Workers :
        AtWork(w) =>
            /\ ~Expected(ProjectAt(w), "CREATED")
            /\ runs[w].pc = "provision" => result[ProjectAt(w)] = "notRun"
            /\ runs[w].pc = "complete" => result[ProjectAt(w)] = runs[w].got
            /\ runs[w].pc = "fail" => result[ProjectAt(w)] = Raised

AloneAtProject ==
    \A v, w \in Workers : (AtWork(v) /\ AtWork(w) /\ ProjectAt(v) = ProjectAt(w)) => v = w

NotRunBeforeCreated ==
    \A p \in ProjectIds : (\A i \in Positions : stream[i] # p) => result[p] = "notRun"

\* An update that is still on its way records what the provisioner did.
TellsTruth(u) ==
    /\ u.target = "READY" => u.outcome = result[u.project]
    /\ u.target = "FAILED" => result[u.project] = Raised

LateTellsTruth == \A u \in late : TellsTruth(u)

Provisioning ==
    /\ KnowsItsProject /\ AloneAtProject /\ NotRunBeforeCreated
    /\ StatusIsTruthful /\ LateTellsTruth

(***************************************************************************)
(* What the invocation the mapping waits for has left behind it: each      *)
(* record of the window it is done with is noted as failed or handled.     *)
(***************************************************************************)
DoneWith(w) == {i \in Positions : /\ esm.next <= i /\ i <= runs[w].at
                                  /\ i = runs[w].at => runs[w].pc = "respond"}

WindowIsAccounted ==
    \A w \in Workers :
        esm.worker = w =>
            /\ runs[w].pc = "respond" => runs[w].at = runs[w].last
            /\ \A i \in DoneWith(w) \ runs[w].failed : ~Expected(stream[i], "CREATED")

Delivery == NothingSkipped /\ WindowIsAccounted

\* Before the first create nothing is under way.
LEMMA TypeInit == Init => TypeInv
<1> SUFFICES ASSUME Init PROVE TypeInv
  OBVIOUS
<1>1. stream = <<>> /\ Len(stream) = 0 /\ stream \in Seq(ProjectIds)
  BY DEF Init
<1>2. TypeOK
  BY <1>1, MaxRetriesType DEF Init, TypeOK, Idle
<1>3. runs \in [Workers -> Run]
  BY DEF Init, Run, Idle, Successes
<1>4. WindowIsWorkedOn
  BY NobodyIsNoWorker DEF Init, WindowIsWorkedOn
<1>5. late = {}
  BY DEF Init
<1> QED
  BY <1>2, <1>3, <1>4, <1>5 DEF TypeInv

\* What is known of an update that the handler sends.
LEMMA SentUpdate ==
    ASSUME NEW u \in SentUpdates
    PROVE  /\ u \in Updates /\ u.project \in ProjectIds
           /\ u.expected \in ProjectStatus /\ u.target \in ProjectStatus
           /\ u.outcome \in {"none", "endpoint", "failureReason"}
           /\ u.expected # u.target /\ u.target # "CREATED"
           /\ u = Update(u.project, u.expected, u.target, u.outcome)
           /\ u.target = "PROVISIONING" => u.expected = "CREATED" /\ u.outcome = "none"
           /\ u.target # "PROVISIONING" => u.expected = "PROVISIONING"
           /\ u.target = "READY" => u.outcome \in Successes
           /\ u.target = "FAILED" => u.outcome = "failureReason"
<1>1. CASE \E p \in ProjectIds : u = Update(p, "CREATED", "PROVISIONING", "none")
  BY <1>1 DEF Update, Updates, ProjectStatus
<1>2. CASE \E p \in ProjectIds, got \in Successes : u = Update(p, "PROVISIONING", "READY", got)
  BY <1>2 DEF Update, Updates, ProjectStatus, Successes
<1>3. CASE \E p \in ProjectIds : u = Update(p, "PROVISIONING", "FAILED", "failureReason")
  BY <1>3 DEF Update, Updates, ProjectStatus
<1> QED
  BY <1>1, <1>2, <1>3 DEF SentUpdates

(***************************************************************************)
(* What a status update may do, whatever its answer.                       *)
(***************************************************************************)
LEMMA TransitionWrites ==
    ASSUME TypeInv, NEW p \in ProjectIds, NEW expected \in ProjectStatus,
           NEW target \in ProjectStatus, NEW outcome \in {"none", "endpoint", "failureReason"},
           NEW answer, expected # target, Transition(p, expected, target, outcome, answer)
    PROVE  /\ records' \in [ProjectIds -> ProjectItem \cup {Absent}]
           /\ \A q \in ProjectIds \ {p} : records'[q] = records[q]
           /\ \/ records' = records
              \/ /\ Expected(p, expected)
                 /\ records'[p] \in ProjectItem
                 /\ records'[p].status = target /\ records'[p].outcome = outcome
           /\ answer = "true" => Expected(p, expected) /\ Expected(p, target)'
           /\ answer = "false" => ~Expected(p, expected)'
           /\ late' = late \/ late' = late \cup {Update(p, expected, target, outcome)}
<1>1. ASSUME Expected(p, expected), records' = Written(p, target, outcome)
      PROVE  /\ records' \in [ProjectIds -> ProjectItem \cup {Absent}]
             /\ \A q \in ProjectIds \ {p} : records'[q] = records[q]
             /\ records'[p] \in ProjectItem
             /\ records'[p].status = target /\ records'[p].outcome = outcome
             /\ Expected(p, target)' /\ ~Expected(p, expected)'
  <2> DEFINE item == [records[p] EXCEPT !.status = target, !.outcome = outcome]
  <2>1. records[p] \in ProjectItem
    BY <1>1 DEF Expected, TypeInv, TypeOK
  <2>2. item \in ProjectItem /\ item.status = target /\ item.outcome = outcome
    BY <2>1 DEF ProjectItem
  <2>3. records' = [records EXCEPT ![p] = item]
    BY <1>1 DEF Written, TypeInv, TypeOK
  <2>4. records'[p] = item /\ \A q \in ProjectIds \ {p} : records'[q] = records[q]
    BY <2>3 DEF TypeInv, TypeOK
  <2>5. records' \in [ProjectIds -> ProjectItem \cup {Absent}]
    BY <2>2, <2>3 DEF TypeInv, TypeOK
  <2>6. item # Absent
    BY <2>2, AbsentIsNoItem
  <2> HIDE DEF item
  <2> QED
    BY <2>2, <2>4, <2>5, <2>6 DEF Expected
<1>2. records \in [ProjectIds -> ProjectItem \cup {Absent}]
  BY DEF TypeInv, TypeOK
<1>3. CASE /\ answer = "true" /\ Expected(p, expected)
           /\ records' = Written(p, target, outcome) /\ late' = late
  BY <1>1, <1>3
<1>4. CASE answer = "false" /\ ~Expected(p, expected) /\ UNCHANGED <<records, late>>
  BY <1>2, <1>4 DEF Expected
<1>5. CASE /\ answer = "raised" /\ records' = records
           /\ late' = late \/ late' = late \cup {Update(p, expected, target, outcome)}
  BY <1>2, <1>5
<1>6. CASE /\ answer \in {"false", "raised"} /\ Expected(p, expected)
           /\ records' = Written(p, target, outcome) /\ late' = late
  BY <1>1, <1>6
<1> QED
  BY <1>3, <1>4, <1>5, <1>6 DEF Transition, NowLate


-----------------------------------------------------------------------------
(***************************************************************************)
(* Type correctness.                                                       *)
(***************************************************************************)

\* What is known of an invocation that is under way.
LEMMA UnderWay ==
    ASSUME TypeInv, NEW w \in Workers, runs[w].pc # "idle"
    PROVE  /\ runs[w] \in Run /\ runs[w].at \in Positions /\ runs[w].at <= runs[w].last
           /\ runs[w].last \in Positions /\ Len(stream) \in Nat
           /\ runs[w].failed \subseteq 1 .. runs[w].at
           /\ ProjectAt(w) \in ProjectIds
<1>1. stream \in Seq(ProjectIds) /\ Len(stream) \in Nat /\ runs[w] \in Run
  BY DEF TypeInv, TypeOK
<1>2. /\ 1 <= runs[w].at /\ runs[w].at <= runs[w].last /\ runs[w].last <= Len(stream)
      /\ runs[w].failed \subseteq 1 .. runs[w].at
  BY DEF TypeInv, TypeOK
<1>3. runs[w].at \in Nat /\ runs[w].last \in Nat
  BY <1>1 DEF Run
<1>4. runs[w].at \in Positions /\ runs[w].last \in Positions
  BY <1>1, <1>2, <1>3
<1>5. ProjectAt(w) \in ProjectIds
  BY <1>1, <1>4 DEF ProjectAt
<1> QED
  BY <1>1, <1>2, <1>4, <1>5

\* What NextRecord makes of an invocation.
LEMMA NextRecordIs ==
    ASSUME NEW run \in Run, NEW raised \in BOOLEAN
    PROVE  NextRecord(run, raised) =
              [pc |-> IF run.at < run.last THEN "begin" ELSE "respond",
               at |-> IF run.at < run.last THEN run.at + 1 ELSE run.at,
               last |-> run.last,
               failed |-> IF raised THEN run.failed \cup {run.at} ELSE run.failed,
               got |-> "none"]
<1> DEFINE pc == IF run.at < run.last THEN "begin" ELSE "respond"
           at == IF run.at < run.last THEN run.at + 1 ELSE run.at
           failed == IF raised THEN run.failed \cup {run.at} ELSE run.failed
<1>1. NextRecord(run, raised) =
         [run EXCEPT !.failed = failed, !.pc = pc, !.at = at, !.got = "none"]
  BY Zenon DEF NextRecord
<1> HIDE DEF pc, at, failed
<1>2. [run EXCEPT !.failed = failed, !.pc = pc, !.at = at, !.got = "none"] =
         [pc |-> pc, at |-> at, last |-> run.last, failed |-> failed, got |-> "none"]
  <2> DEFINE r1 == [run EXCEPT !.failed = failed]
             r2 == [r1 EXCEPT !.pc = pc]
             r3 == [r2 EXCEPT !.at = at]
  <2>1. run = [pc |-> run.pc, at |-> run.at, last |-> run.last, failed |-> run.failed,
               got |-> run.got]
    BY DEF Run
  <2>2. r1 = [pc |-> run.pc, at |-> run.at, last |-> run.last, failed |-> failed,
              got |-> run.got]
    BY <2>1
  <2>3. r2 = [pc |-> pc, at |-> run.at, last |-> run.last, failed |-> failed,
              got |-> run.got]
    <3> HIDE DEF r1
    <3> QED BY <2>2
  <2>4. r3 = [pc |-> pc, at |-> at, last |-> run.last, failed |-> failed, got |-> run.got]
    <3> HIDE DEF r2
    <3> QED BY <2>3
  <2>5. [r3 EXCEPT !.got = "none"] =
           [pc |-> pc, at |-> at, last |-> run.last, failed |-> failed, got |-> "none"]
    <3> HIDE DEF r3
    <3> QED BY <2>4
  <2> QED
    BY <2>5, Zenon
<1> QED
  BY <1>1, <1>2 DEF pc, at, failed

\* The invocation goes on with the next record, or is ready to respond.
LEMMA GoesOn ==
    ASSUME TypeInv, NEW w \in Workers, runs[w].pc # "idle", NEW raised \in BOOLEAN
    PROVE  LET q == NextRecord(runs[w], raised)
               run == runs[w]
           IN /\ q \in Run /\ q.last = run.last /\ q.got = "none"
              /\ q.failed = IF raised THEN run.failed \cup {run.at} ELSE run.failed
              /\ \/ run.at < run.last /\ q.pc = "begin" /\ q.at = run.at + 1
                 \/ run.at = run.last /\ q.pc = "respond" /\ q.at = run.at
<1> DEFINE run == runs[w]
           pc == IF run.at < run.last THEN "begin" ELSE "respond"
           at == IF run.at < run.last THEN run.at + 1 ELSE run.at
           failed == IF raised THEN run.failed \cup {run.at} ELSE run.failed
           q == [pc |-> pc, at |-> at, last |-> run.last, failed |-> failed, got |-> "none"]
<1>1. /\ run \in Run /\ run.at \in Nat /\ run.last \in Nat /\ run.at <= run.last
      /\ run.failed \in SUBSET Nat
  BY UnderWay DEF Run
<1>2. NextRecord(runs[w], raised) = q
  BY <1>1, NextRecordIs
<1> HIDE DEF run
<1>3. pc \in {"begin", "respond"} /\ at \in Nat /\ failed \in SUBSET Nat
  BY <1>1
<1>4. /\ \/ run.at < run.last /\ pc = "begin" /\ at = run.at + 1
         \/ run.at = run.last /\ pc = "respond" /\ at = run.at
  BY <1>1
<1> HIDE DEF pc, at, failed
<1>5. q \in Run
  BY <1>1, <1>3 DEF Run, Successes
<1>6. q.pc = pc /\ q.at = at /\ q.last = run.last /\ q.failed = failed /\ q.got = "none"
  OBVIOUS
<1> HIDE DEF q
<1> QED
  BY <1>2, <1>4, <1>5, <1>6 DEF run, failed

\* A step of an invocation that stays under way keeps the types.
LEMMA TypeOfWork ==
    ASSUME TypeInv, NEW w \in Workers, runs[w].pc # "idle",
           NEW q \in Run, runs' = [runs EXCEPT ![w] = q],
           q.pc # "idle", q.last = runs[w].last,
           q.at = runs[w].at \/ (q.at = runs[w].at + 1 /\ runs[w].at < runs[w].last),
           q.failed \subseteq runs[w].failed \cup {runs[w].at},
           records' \in [ProjectIds -> ProjectItem \cup {Absent}],
           result' \in [ProjectIds -> {"notRun", Raised} \cup Successes],
           late' \subseteq SentUpdates,
           UNCHANGED <<stream, esm, dlq>>
    PROVE  TypeInv'
<1>1. /\ runs[w] \in Run /\ runs[w].at \in Nat /\ runs[w].last \in Nat /\ Len(stream) \in Nat
      /\ 1 <= runs[w].at /\ runs[w].at <= runs[w].last /\ runs[w].last <= Len(stream)
      /\ runs[w].failed \subseteq 1 .. runs[w].at
  BY UnderWay DEF Run
<1>2. runs \in [Workers -> Run]
  BY DEF TypeInv
<1>3. runs' \in [Workers -> Run]
  BY <1>2
<1>4. runs'[w] = q /\ \A v \in Workers : v # w => runs'[v] = runs[v]
  BY <1>2
<1>5. q.at \in Nat /\ q.failed \in SUBSET Nat /\ q.pc \in {"idle", "begin", "provision", "complete", "fail", "respond"}
  BY DEF Run
<1>6. 1 <= q.at /\ q.at <= q.last /\ q.last <= Len(stream) /\ q.failed \subseteq 1 .. q.at
  BY <1>1, <1>5
<1>7. TypeOK'
  <2>1. ASSUME NEW v \in Workers
        PROVE  (/\ runs[v].pc \in {"idle", "begin", "provision", "complete", "fail", "respond"}
                /\ runs[v].pc # "idle" =>
                      /\ 1 <= runs[v].at /\ runs[v].at <= runs[v].last
                      /\ runs[v].last <= Len(stream)
                      /\ runs[v].failed \subseteq 1 .. runs[v].at)'
    <3>1. CASE v = w
      BY <1>4, <1>5, <1>6, <3>1
    <3>2. CASE v # w
      BY <1>4, <3>2 DEF TypeInv, TypeOK
    <3> QED
      BY <3>1, <3>2
  <2>2. late' \subseteq Updates
    BY SentUpdate
  <2> QED
    BY <2>1, <2>2 DEF TypeInv, TypeOK
<1>8. WindowIsWorkedOn'
  <2>1. ASSUME NEW v \in Workers, esm.worker = v
        PROVE  /\ runs'[v].pc # "idle" /\ runs'[v].last = esm.last /\ esm.next <= runs'[v].at
               /\ runs'[v].failed \subseteq esm.next .. runs'[v].at
    <3>1. /\ runs[v].last = esm.last /\ esm.next <= runs[v].at /\ esm.next \in Nat
          /\ runs[v].pc # "idle" /\ runs[v].failed \subseteq esm.next .. runs[v].at
      BY <2>1 DEF TypeInv, WindowIsWorkedOn, TypeOK
    <3>2. CASE v = w
      <4>1. esm.next <= q.at
        BY <1>1, <3>1, <3>2
      <4>2. q.failed \subseteq esm.next .. q.at
        BY <1>1, <1>5, <3>1, <3>2
      <4> QED
        BY <1>4, <3>1, <3>2, <4>1, <4>2
    <3>3. CASE v # w
      BY <1>4, <3>1, <3>3
    <3> QED
      BY <3>2, <3>3
  <2> QED
    BY <2>1 DEF WindowIsWorkedOn
<1> QED
  BY <1>3, <1>7, <1>8 DEF TypeInv

\* A non-empty set of numbers has a least one.
LEMMA HasLeast ==
    ASSUME NEW S \in SUBSET Nat, S # {}
    PROVE  \E i \in S : \A j \in S : i <= j
<1> DEFINE R == {ss \in Nat \X Nat : ss[1] < ss[2]}
<1>1. IsWellFoundedOn(R, Nat)
  BY NatLessThanWellFounded DEF OpToRel
<1>2. PICK i \in S : \A j \in S : ~(<<j, i>> \in R)
  <2> HIDE DEF R
  <2> QED
    BY <1>1, WFMin
<1>3. ASSUME NEW j \in S PROVE i <= j
  <2>1. i \in Nat /\ j \in Nat
    OBVIOUS
  <2>2. <<j, i>> \in R <=> j < i
    BY <2>1
  <2> HIDE DEF R
  <2> QED
    BY <1>2, <2>1, <2>2
<1> QED
  BY <1>3

\* The first failed record of an invocation is one of them.
LEMMA FirstFailedIsFirst ==
    ASSUME TypeInv, NEW w \in Workers, runs[w].failed # {}
    PROVE  /\ FirstFailed(runs[w]) \in runs[w].failed
           /\ \A j \in runs[w].failed : FirstFailed(runs[w]) <= j
<1>1. runs[w].failed \in SUBSET Nat
  BY DEF TypeInv, Run
<1>2. PICK i \in runs[w].failed : \A j \in runs[w].failed : i <= j
  BY <1>1, HasLeast
<1> QED
  BY <1>2 DEF FirstFailed

\* The window of the invocation the mapping waits for.
LEMMA Window ==
    ASSUME TypeInv, NEW w \in Workers, esm.worker = w
    PROVE  /\ runs[w].pc # "idle" /\ runs[w].last = esm.last /\ runs[w].at \in Nat
           /\ esm.next \in Nat \ {0} /\ esm.last \in Nat /\ esm.last <= Len(stream)
           /\ esm.next <= runs[w].at /\ runs[w].at <= esm.last
           /\ runs[w].failed \subseteq esm.next .. runs[w].at
<1>1. /\ runs[w].pc # "idle" /\ runs[w].last = esm.last /\ esm.next <= runs[w].at
      /\ runs[w].failed \subseteq esm.next .. runs[w].at
  BY DEF TypeInv, WindowIsWorkedOn
<1>2. runs[w].at \in Nat /\ runs[w].at <= runs[w].last /\ Len(stream) \in Nat
  BY <1>1, UnderWay DEF Run
<1>3. esm.next \in 1 .. Len(stream) + 1 /\ esm.last \in 0 .. Len(stream)
  BY DEF TypeInv, TypeOK
<1> QED
  BY <1>1, <1>2, <1>3

\* When a batch ends, in whatever way, the mapping is left with a window.
LEMMA TypeOfWindow ==
    ASSUME TypeInv, NEW w \in Workers, esm.worker = w,
           NEW from \in esm.next .. esm.last,
           (Advance /\ dlq' = dlq) \/ RetryOrDiscard(from)
    PROVE  /\ esm' \in [next: 1 .. Len(stream) + 1, last: 0 .. Len(stream),
                        retries: 0 .. MaxRetries, worker: Workers \cup {Absent}]
           /\ esm'.worker = Absent /\ esm.next <= esm'.next
           /\ dlq' \subseteq 1 .. esm'.next - 1
<1>1. /\ esm.next \in Nat \ {0} /\ esm.last \in Nat /\ esm.next <= esm.last
      /\ esm.last <= Len(stream) /\ Len(stream) \in Nat
      /\ from \in Nat /\ esm.next <= from /\ from <= esm.last
      /\ esm.retries \in Nat /\ esm.retries <= MaxRetries /\ dlq \subseteq 1 .. esm.next - 1
  <2>1. esm.retries \in 0 .. MaxRetries /\ dlq \subseteq 1 .. esm.next - 1
    BY DEF TypeInv, TypeOK
  <2> QED
    BY <2>1, Window, UnderWay, MaxRetriesType
<1>2. CASE Advance /\ dlq' \subseteq dlq \cup (from .. esm.last)
  <2>1. /\ esm' = [next |-> esm.last + 1, last |-> 0, retries |-> 0, worker |-> Absent]
    BY <1>2 DEF Advance
  <2>2. esm.last + 1 \in 1 .. Len(stream) + 1 /\ 0 \in 0 .. Len(stream) /\ 0 \in 0 .. MaxRetries
    BY <1>1, MaxRetriesType
  <2>3. esm' \in [next: 1 .. Len(stream) + 1, last: 0 .. Len(stream),
                  retries: 0 .. MaxRetries, worker: Workers \cup {Absent}]
    BY <2>1, <2>2
  <2>4. dlq' \subseteq 1 .. esm.last
    BY <1>1, <1>2
  <2> QED
    BY <1>1, <2>1, <2>3, <2>4
<1>3. ASSUME NEW last \in {esm.last, Half(from)}, esm.retries < MaxRetries, dlq' = dlq,
             esm' = [next |-> from, last |-> last, retries |-> esm.retries + 1,
                     worker |-> Absent]
      PROVE  /\ esm' \in [next: 1 .. Len(stream) + 1, last: 0 .. Len(stream),
                          retries: 0 .. MaxRetries, worker: Workers \cup {Absent}]
             /\ esm'.worker = Absent /\ esm.next <= esm'.next
             /\ dlq' \subseteq 1 .. esm'.next - 1
  <2>1. Half(from) \in 0 .. Len(stream)
    BY <1>1 DEF Half
  <2>2. last \in 0 .. Len(stream)
    BY <1>1, <2>1
  <2>3. from \in 1 .. Len(stream) + 1 /\ esm.retries + 1 \in 0 .. MaxRetries
    BY <1>1, <1>3, MaxRetriesType
  <2>4. dlq \subseteq 1 .. from - 1
    BY <1>1
  <2> QED
    BY <1>1, <1>3, <2>2, <2>3, <2>4
<1> QED
  BY <1>2, <1>3 DEF RetryOrDiscard

(***************************************************************************)
(* The steps of an invocation, each as the state of the invocation after   *)
(* it and the status update it makes.                                      *)
(***************************************************************************)
Leaves(w, q, raised) ==
    /\ runs' = [runs EXCEPT ![w] = q]
    /\ q.last = runs[w].last
    /\ q.failed = IF raised THEN runs[w].failed \cup {runs[w].at} ELSE runs[w].failed
    /\ \/ runs[w].at < runs[w].last /\ q.pc = "begin" /\ q.at = runs[w].at + 1
       \/ runs[w].at = runs[w].last /\ q.pc = "respond" /\ q.at = runs[w].at

Stays(w, q, pc) ==
    /\ runs' = [runs EXCEPT ![w] = q]
    /\ q.pc = pc /\ q.at = runs[w].at /\ q.last = runs[w].last /\ q.failed = runs[w].failed

\* After an answer other than TRUE the record is left behind.
LEMMA LeavesRecord ==
    ASSUME TypeInv, NEW w \in Workers, runs[w].pc # "idle", NEW raised \in BOOLEAN,
           runs' = [runs EXCEPT ![w] = NextRecord(runs[w], raised)]
    PROVE  \E q \in Run : Leaves(w, q, raised)
<1> DEFINE q == NextRecord(runs[w], raised)
<1>1. /\ q \in Run /\ q.last = runs[w].last
      /\ q.failed = IF raised THEN runs[w].failed \cup {runs[w].at} ELSE runs[w].failed
      /\ \/ runs[w].at < runs[w].last /\ q.pc = "begin" /\ q.at = runs[w].at + 1
         \/ runs[w].at = runs[w].last /\ q.pc = "respond" /\ q.at = runs[w].at
  BY GoesOn
<1>2. runs' = [runs EXCEPT ![w] = q]
  OBVIOUS
<1> HIDE DEF q
<1> QED
  BY <1>1, <1>2 DEF Leaves

\* Begin takes the project to PROVISIONING, or leaves the record.
LEMMA BeginDoes ==
    ASSUME TypeInv, NEW w \in Workers, Begin(w)
    PROVE  /\ runs[w].pc = "begin" /\ UNCHANGED <<stream, esm, dlq, result>>
           /\ \E answer \in Answers, q \in Run :
                 /\ Transition(ProjectAt(w), "CREATED", "PROVISIONING", "none", answer)
                 /\ \/ answer = "true" /\ Stays(w, q, "provision")
                    \/ answer # "true" /\ Leaves(w, q, answer = "raised")
<1>1. runs[w].pc = "begin" /\ UNCHANGED <<stream, esm, dlq, result>>
  BY DEF Begin
<1>2. PICK answer \in Answers :
         /\ Transition(ProjectAt(w), "CREATED", "PROVISIONING", "none", answer)
         /\ runs' = [runs EXCEPT ![w] = IF answer = "true" THEN [runs[w] EXCEPT !.pc = "provision"]
                                        ELSE NextRecord(runs[w], answer = "raised")]
  BY Zenon DEF Begin
<1>3. CASE answer = "true"
  <2> DEFINE q == [runs[w] EXCEPT !.pc = "provision"]
  <2>1. runs' = [runs EXCEPT ![w] = q]
    BY <1>2, <1>3
  <2>2. runs[w] \in Run
    BY DEF TypeInv
  <2>3. q \in Run /\ q.pc = "provision" /\ q.at = runs[w].at /\ q.last = runs[w].last
        /\ q.failed = runs[w].failed
    BY <2>2 DEF Run
  <2> HIDE DEF q
  <2>4. Stays(w, q, "provision")
    BY <2>1, <2>3 DEF Stays
  <2> QED
    BY <1>1, <1>2, <1>3, <2>3, <2>4
<1>4. CASE answer # "true"
  <2>1. runs' = [runs EXCEPT ![w] = NextRecord(runs[w], answer = "raised")]
    BY <1>2, <1>4
  <2>2. PICK q \in Run : Leaves(w, q, answer = "raised")
    BY <1>1, <2>1, LeavesRecord
  <2> QED
    BY <1>1, <1>2, <1>4, <2>2
<1> QED
  BY <1>3, <1>4

\* Provision notes what the provisioner made of the project.
LEMMA ProvisionDoes ==
    ASSUME TypeInv, NEW w \in Workers, Provision(w)
    PROVE  /\ runs[w].pc = "provision" /\ UNCHANGED <<records, stream, esm, dlq, late>>
           /\ \E got \in Successes \cup {Raised}, q \in Run :
                 /\ result' = [result EXCEPT ![ProjectAt(w)] = got]
                 /\ \/ got = Raised /\ Stays(w, q, "fail")
                    \/ got # Raised /\ Stays(w, q, "complete") /\ q.got = got
<1>1. runs[w].pc = "provision" /\ UNCHANGED <<records, stream, esm, dlq, late>>
  BY DEF Provision
<1>2. PICK got \in Successes \cup {Raised} :
         /\ result' = [result EXCEPT ![ProjectAt(w)] = got]
         /\ runs' = [runs EXCEPT ![w].pc = IF got = Raised THEN "fail" ELSE "complete",
                                 ![w].got = IF got = Raised THEN "none" ELSE got]
  BY DEF Provision
<1> DEFINE pc == IF got = Raised THEN "fail" ELSE "complete"
           outcome == IF got = Raised THEN "none" ELSE got
           q == [[runs[w] EXCEPT !.pc = pc] EXCEPT !.got = outcome]
<1>3. runs \in [Workers -> Run] /\ runs[w] \in Run
  BY DEF TypeInv
<1>4. runs' = [runs EXCEPT ![w] = q]
  <2>1. runs' = [runs EXCEPT ![w].pc = pc, ![w].got = outcome]
    BY <1>2
  <2> HIDE DEF pc, outcome
  <2>2. [runs EXCEPT ![w].pc = pc, ![w].got = outcome] = [runs EXCEPT ![w] = q]
    BY <1>3, Zenon
  <2> QED
    BY <2>1, <2>2
<1>5. pc \in {"fail", "complete"} /\ outcome \in Successes
  BY DEF Successes
<1>6. /\ got = Raised => pc = "fail"
      /\ got # Raised => pc = "complete" /\ outcome = got
  OBVIOUS
<1> HIDE DEF pc, outcome
<1>7. q \in Run /\ q.pc = pc /\ q.got = outcome /\ q.at = runs[w].at /\ q.last = runs[w].last
      /\ q.failed = runs[w].failed
  BY <1>3, <1>5 DEF Run
<1> HIDE DEF q
<1>8. Stays(w, q, pc)
  BY <1>4, <1>7 DEF Stays
<1> QED
  BY <1>1, <1>2, <1>6, <1>7, <1>8

\* Complete takes the project to READY, whatever the update answers.
LEMMA CompleteDoes ==
    ASSUME TypeInv, NEW w \in Workers, Complete(w)
    PROVE  /\ runs[w].pc = "complete" /\ UNCHANGED <<stream, esm, dlq, result>>
           /\ \E answer \in Answers, q \in Run :
                 /\ Transition(ProjectAt(w), "PROVISIONING", "READY", runs[w].got, answer)
                 /\ Leaves(w, q, answer = "raised")
<1>1. runs[w].pc = "complete" /\ UNCHANGED <<stream, esm, dlq, result>>
  BY DEF Complete
<1>2. PICK answer \in Answers :
         /\ Transition(ProjectAt(w), "PROVISIONING", "READY", runs[w].got, answer)
         /\ runs' = [runs EXCEPT ![w] = NextRecord(runs[w], answer = "raised")]
  BY Zenon DEF Complete
<1>3. PICK q \in Run : Leaves(w, q, answer = "raised")
  BY <1>1, <1>2, LeavesRecord
<1> QED
  BY <1>1, <1>2, <1>3

\* Fail takes it to FAILED.
LEMMA FailDoes ==
    ASSUME TypeInv, NEW w \in Workers, Fail(w)
    PROVE  /\ runs[w].pc = "fail" /\ UNCHANGED <<stream, esm, dlq, result>>
           /\ \E answer \in Answers, q \in Run :
                 /\ Transition(ProjectAt(w), "PROVISIONING", "FAILED", "failureReason", answer)
                 /\ Leaves(w, q, answer = "raised")
<1>1. runs[w].pc = "fail" /\ UNCHANGED <<stream, esm, dlq, result>>
  BY DEF Fail
<1>2. PICK answer \in Answers :
         /\ Transition(ProjectAt(w), "PROVISIONING", "FAILED", "failureReason", answer)
         /\ runs' = [runs EXCEPT ![w] = NextRecord(runs[w], answer = "raised")]
  BY Zenon DEF Fail
<1>3. PICK q \in Run : Leaves(w, q, answer = "raised")
  BY <1>1, <1>2, LeavesRecord
<1> QED
  BY <1>1, <1>2, <1>3

\* An invocation ends: the worker is idle, and the mapping, if it waited for
\* this one, goes on.
LEMMA EndOfRun ==
    ASSUME TypeInv, NEW w \in Workers, runs' = [runs EXCEPT ![w] = Idle],
           UNCHANGED <<records, stream, result>>, late' \subseteq SentUpdates,
           \/ esm.worker # w /\ UNCHANGED <<esm, dlq>>
           \/ /\ esm.worker = w
              /\ \E from \in esm.next .. esm.last :
                    (Advance /\ dlq' = dlq) \/ RetryOrDiscard(from)
    PROVE  TypeInv'
<1>1. runs \in [Workers -> Run] /\ Idle \in Run /\ Idle.pc = "idle"
  BY DEF TypeInv, Run, Idle, Successes
<1>2. runs' \in [Workers -> Run] /\ runs'[w] = Idle
      /\ \A v \in Workers : v # w => runs'[v] = runs[v]
  BY <1>1
<1>3. /\ esm' \in [next: 1 .. Len(stream) + 1, last: 0 .. Len(stream),
                   retries: 0 .. MaxRetries, worker: Workers \cup {Absent}]
      /\ dlq' \subseteq 1 .. esm'.next - 1
      /\ esm'.worker = Absent \/ (esm' = esm /\ esm.worker # w)
  <2>1. CASE esm.worker # w /\ UNCHANGED <<esm, dlq>>
    BY <2>1 DEF TypeInv, TypeOK
  <2>2. CASE /\ esm.worker = w
             /\ \E from \in esm.next .. esm.last :
                   (Advance /\ dlq' = dlq) \/ RetryOrDiscard(from)
    BY <2>2, TypeOfWindow
  <2> QED
    BY <2>1, <2>2
<1>4. TypeOK'
  BY <1>1, <1>2, <1>3, SentUpdate DEF TypeInv, TypeOK
<1>5. WindowIsWorkedOn'
  BY <1>1, <1>2, <1>3, NobodyIsNoWorker DEF TypeInv, WindowIsWorkedOn
<1> QED
  BY <1>2, <1>4, <1>5 DEF TypeInv

\* What the batch response, a crash and an abandoned invocation do.
LEMMA RespondDoes ==
    ASSUME TypeInv, NEW w \in Workers, Respond(w)
    PROVE  /\ runs[w].pc = "respond" /\ runs' = [runs EXCEPT ![w] = Idle]
           /\ UNCHANGED <<records, stream, result, late>>
           /\ \/ esm.worker # w /\ UNCHANGED <<esm, dlq>>
              \/ /\ esm.worker = w
                 /\ \E from \in esm.next .. esm.last :
                       (Advance /\ dlq' = dlq) \/ RetryOrDiscard(from)
<1>1. CASE esm.worker = w /\ runs[w].failed = {} /\ Advance /\ dlq' = dlq
  <2>1. esm.next \in esm.next .. esm.last
    BY <1>1, Window
  <2> QED
    BY <1>1, <2>1 DEF Respond
<1>2. CASE esm.worker = w /\ runs[w].failed # {} /\ RetryOrDiscard(FirstFailed(runs[w]))
  <2>1. FirstFailed(runs[w]) \in runs[w].failed
    BY <1>2, FirstFailedIsFirst
  <2>2. FirstFailed(runs[w]) \in esm.next .. esm.last
    BY <1>2, <2>1, Window
  <2> QED
    BY <1>2, <2>2 DEF Respond
<1> QED
  BY <1>1, <1>2 DEF Respond

\* A dying invocation writes nothing more, but its last update may be late; the
\* mapping, if it waits for it, retries the batch or discards it.
LEMMA CrashDoes ==
    ASSUME TypeInv, NEW w \in Workers, Crash(w)
    PROVE  /\ runs[w].pc # "idle" /\ runs' = [runs EXCEPT ![w] = Idle]
           /\ UNCHANGED <<records, stream, result>>
           /\ \/ late' = late
              \/ /\ runs[w].pc \in {"begin", "complete", "fail"}
                 /\ UpdateOf(w) \in SentUpdates /\ late' = late \cup {UpdateOf(w)}
           /\ \/ esm.worker # w /\ UNCHANGED <<esm, dlq>>
              \/ /\ esm.worker = w /\ RetryOrDiscard(esm.next)
                 /\ \E from \in esm.next .. esm.last :
                       (Advance /\ dlq' = dlq) \/ RetryOrDiscard(from)
<1>1. /\ runs[w].pc # "idle" /\ runs' = [runs EXCEPT ![w] = Idle]
      /\ UNCHANGED <<records, stream, result>>
  BY DEF Crash
<1>2. \/ late' = late
      \/ runs[w].pc \in {"begin", "complete", "fail"} /\ late' = late \cup {UpdateOf(w)}
  BY DEF Crash, NowLate
<1>3. \/ esm.worker # w /\ UNCHANGED <<esm, dlq>>
      \/ /\ esm.worker = w /\ RetryOrDiscard(esm.next)
         /\ \E from \in esm.next .. esm.last :
               (Advance /\ dlq' = dlq) \/ RetryOrDiscard(from)
  <2>1. CASE esm.worker = w /\ RetryOrDiscard(esm.next)
    <3>1. esm.next \in esm.next .. esm.last
      BY <2>1, Window
    <3> QED
      BY <2>1, <3>1
  <2> QED
    BY <2>1 DEF Crash
<1>4. runs[w].pc \in {"begin", "complete", "fail"} => UpdateOf(w) \in SentUpdates
  BY <1>1, UnderWay DEF UpdateOf, SentUpdates, Run
<1> QED
  BY <1>1, <1>2, <1>3, <1>4

\* A delivery hands a worker the window of the mapping.
LEMMA DeliverDoes ==
    ASSUME TypeInv, NEW w \in Workers, Deliver(w)
    PROVE  /\ esm.worker = Absent /\ runs[w].pc = "idle"
           /\ UNCHANGED <<records, stream, dlq, result, late>>
           /\ \E q \in Run :
                 /\ runs' = [runs EXCEPT ![w] = q]
                 /\ q.pc = "begin" /\ q.at = esm.next /\ q.failed = {}
                 /\ q.at \in Positions /\ q.last \in Positions /\ q.at <= q.last
                 /\ esm' = [esm EXCEPT !.last = q.last, !.worker = w]
<1>1. PICK last \in BatchEnds :
         /\ esm' = [esm EXCEPT !.last = last, !.worker = w]
         /\ runs' = [runs EXCEPT ![w] =
                       [Idle EXCEPT !.pc = "begin", !.at = esm.next, !.last = last]]
  BY DEF Deliver
<1>2. esm.next \in 1 .. Len(stream) + 1 /\ esm.last \in 0 .. Len(stream) /\ Len(stream) \in Nat
  BY DEF TypeInv, TypeOK
<1>3. last \in Positions /\ esm.next \in Positions /\ esm.next <= last
  BY <1>2 DEF BatchEnds
<1> DEFINE q == [Idle EXCEPT !.pc = "begin", !.at = esm.next, !.last = last]
           q1 == [Idle EXCEPT !.pc = "begin"]
           q2 == [q1 EXCEPT !.at = esm.next]
<1>4. Idle \in Run /\ Idle.failed = {}
  BY DEF Idle, Run, Successes
<1>5. runs' = [runs EXCEPT ![w] = q]
  BY <1>1
<1>6. q1 \in Run /\ q1.failed = {} /\ q1.pc = "begin"
  BY <1>4 DEF Run
<1>7. q2 \in Run /\ q2.failed = {} /\ q2.pc = "begin" /\ q2.at = esm.next
  <2> HIDE DEF q1
  <2> QED
    BY <1>2, <1>6 DEF Run
<1>8. /\ [q2 EXCEPT !.last = last] \in Run
      /\ [q2 EXCEPT !.last = last].pc = "begin" /\ [q2 EXCEPT !.last = last].at = esm.next
      /\ [q2 EXCEPT !.last = last].failed = {} /\ [q2 EXCEPT !.last = last].last = last
  <2>1. last \in Nat
    BY <1>2, <1>3
  <2> HIDE DEF q2
  <2> QED
    BY <1>7, <2>1 DEF Run
<1>9. q = [q2 EXCEPT !.last = last]
  BY Zenon
<1> HIDE DEF q, q2, q1
<1>10. /\ q \in Run /\ q.pc = "begin" /\ q.at = esm.next /\ q.failed = {} /\ q.last = last
  BY <1>8, <1>9
<1> QED
  BY <1>1, <1>3, <1>5, <1>10 DEF Deliver

\* The API creates a project, at the end of the stream, or deletes one.
LEMMA CreateDoes ==
    ASSUME TypeInv, NEW p \in ProjectIds, Create(p)
    PROVE  /\ \A i \in Positions : stream[i] # p
           /\ UNCHANGED <<esm, dlq, runs, result, late>>
           /\ records' \in [ProjectIds -> ProjectItem \cup {Absent}]
           /\ \A q \in ProjectIds \ {p} : records'[q] = records[q]
           /\ records'[p] \in ProjectItem /\ records'[p].status = "CREATED"
           /\ stream' \in Seq(ProjectIds) /\ Len(stream) \in Nat
           /\ Len(stream') = Len(stream) + 1 /\ stream'[Len(stream')] = p
           /\ \A i \in Positions : stream'[i] = stream[i]
<1>1. stream \in Seq(ProjectIds) /\ records \in [ProjectIds -> ProjectItem \cup {Absent}]
  BY DEF TypeInv, TypeOK
<1>2. stream' = Append(stream, p) /\ p \notin {stream[i] : i \in Positions}
      /\ UNCHANGED <<esm, dlq, runs, result, late>>
  BY DEF Create
<1>3. PICK owner \in Owners, name \in Names :
         records' = [records EXCEPT ![p] = NewProject(owner, name)]
  BY DEF Create
<1>4. NewProject(owner, name) \in ProjectItem /\ NewProject(owner, name).status = "CREATED"
  BY DEF NewProject, ProjectItem, ProjectStatus
<1>5. /\ records' \in [ProjectIds -> ProjectItem \cup {Absent}]
      /\ \A q \in ProjectIds \ {p} : records'[q] = records[q]
      /\ records'[p] \in ProjectItem /\ records'[p].status = "CREATED"
  BY <1>1, <1>3, <1>4
<1>6. /\ stream' \in Seq(ProjectIds) /\ Len(stream) \in Nat
      /\ Len(stream') = Len(stream) + 1 /\ stream'[Len(stream')] = p
      /\ \A i \in Positions : stream'[i] = stream[i]
  BY <1>1, <1>2
<1> QED
  BY <1>2, <1>5, <1>6

\* A delete removes one record and touches nothing else.
LEMMA DeleteDoes ==
    ASSUME TypeInv, NEW p \in ProjectIds, Delete(p)
    PROVE  /\ UNCHANGED <<stream, esm, dlq, runs, result, late>>
           /\ records' \in [ProjectIds -> ProjectItem \cup {Absent}]
           /\ \A q \in ProjectIds \ {p} : records'[q] = records[q]
           /\ records'[p] = Absent
  BY DEF Delete, TypeInv, TypeOK

\* An update that arrives is written if its project has the status it expects.
LEMMA ArriveDoes ==
    ASSUME TypeInv, NEW u \in late, Arrive(u)
    PROVE  /\ UNCHANGED <<stream, esm, dlq, runs, result>>
           /\ late' = late \ {u} /\ u \in SentUpdates /\ u.project \in ProjectIds
           /\ records' \in [ProjectIds -> ProjectItem \cup {Absent}]
           /\ \A q \in ProjectIds \ {u.project} : records'[q] = records[q]
           /\ \/ records' = records
              \/ /\ Expected(u.project, u.expected)
                 /\ records'[u.project].status = u.target
                 /\ records'[u.project].outcome = u.outcome
<1>1. u \in SentUpdates
  BY DEF TypeInv
<1>2. /\ u.project \in ProjectIds /\ u.target \in ProjectStatus
      /\ u.outcome \in {"none", "endpoint", "failureReason"}
  BY <1>1, SentUpdate
<1>3. records \in [ProjectIds -> ProjectItem \cup {Absent}]
  BY DEF TypeInv, TypeOK
<1>4. CASE ~Expected(u.project, u.expected)
  BY <1>1, <1>2, <1>3, <1>4 DEF Arrive
<1>5. CASE Expected(u.project, u.expected)
  <2> DEFINE p == u.project
             item == [records[p] EXCEPT !.status = u.target, !.outcome = u.outcome]
  <2>1. records[p] \in ProjectItem
    BY <1>2, <1>3, <1>5 DEF Expected
  <2>2. item \in ProjectItem /\ item.status = u.target /\ item.outcome = u.outcome
    BY <1>2, <2>1 DEF ProjectItem
  <2>3. records' = [records EXCEPT ![p] = item]
    BY <1>2, <1>3, <1>5 DEF Arrive, Written
  <2> HIDE DEF item
  <2> QED
    BY <1>1, <1>2, <1>3, <1>5, <2>2, <2>3 DEF Arrive
<1> QED
  BY <1>4, <1>5

\* Every step keeps the types.
LEMMA TypeStep == TypeInv /\ [Next]_vars => TypeInv'
<1> SUFFICES ASSUME TypeInv, [Next]_vars PROVE TypeInv'
  OBVIOUS
<1> USE DEF TypeInv
<1>1. ASSUME NEW w \in Workers, NEW q \in Run, NEW raised \in BOOLEAN, runs[w].pc # "idle",
             Leaves(w, q, raised),
             records' \in [ProjectIds -> ProjectItem \cup {Absent}],
             late' \subseteq SentUpdates,
             UNCHANGED <<stream, esm, dlq, result>>
      PROVE  TypeInv'
  <2>1. runs' = [runs EXCEPT ![w] = q] /\ q.pc # "idle" /\ q.last = runs[w].last
    BY <1>1 DEF Leaves
  <2>2. q.at = runs[w].at \/ (q.at = runs[w].at + 1 /\ runs[w].at < runs[w].last)
    BY <1>1 DEF Leaves
  <2>3. q.failed \subseteq runs[w].failed \cup {runs[w].at}
    BY <1>1 DEF Leaves
  <2>4. result' \in [ProjectIds -> {"notRun", Raised} \cup Successes]
    BY <1>1 DEF TypeOK
  <2> QED
    BY <1>1, <2>1, <2>2, <2>3, <2>4, TypeOfWork
<1>2. ASSUME NEW w \in Workers, NEW q \in Run, NEW pc, pc # "idle", runs[w].pc # "idle",
             Stays(w, q, pc),
             records' \in [ProjectIds -> ProjectItem \cup {Absent}],
             result' \in [ProjectIds -> {"notRun", Raised} \cup Successes],
             late' \subseteq SentUpdates,
             UNCHANGED <<stream, esm, dlq>>
      PROVE  TypeInv'
  BY <1>2, TypeOfWork DEF Stays
<1>3. ASSUME NEW w \in Workers, Begin(w) PROVE TypeInv'
  <2>1. PICK answer \in Answers, q \in Run :
           /\ Transition(ProjectAt(w), "CREATED", "PROVISIONING", "none", answer)
           /\ \/ answer = "true" /\ Stays(w, q, "provision")
              \/ answer # "true" /\ Leaves(w, q, answer = "raised")
    BY <1>3, BeginDoes
  <2>2. runs[w].pc # "idle" /\ UNCHANGED <<stream, esm, dlq, result>>
    BY <1>3, BeginDoes
  <2>3. ProjectAt(w) \in ProjectIds
    BY <2>2, UnderWay
  <2>4. /\ records' \in [ProjectIds -> ProjectItem \cup {Absent}]
        /\ \/ late' = late
           \/ late' = late \cup {Update(ProjectAt(w), "CREATED", "PROVISIONING", "none")}
    BY <2>1, <2>3, TransitionWrites DEF ProjectStatus
  <2>5. result' \in [ProjectIds -> {"notRun", Raised} \cup Successes]
    BY <2>2 DEF TypeOK
  <2>6. late' \subseteq SentUpdates
    BY <2>3, <2>4 DEF SentUpdates
  <2> QED
    BY <1>1, <1>2, <2>1, <2>2, <2>4, <2>5, <2>6
<1>4. ASSUME NEW w \in Workers, Provision(w) PROVE TypeInv'
  <2>1. PICK got \in Successes \cup {Raised}, q \in Run :
           /\ result' = [result EXCEPT ![ProjectAt(w)] = got]
           /\ \/ got = Raised /\ Stays(w, q, "fail")
              \/ got # Raised /\ Stays(w, q, "complete") /\ q.got = got
    BY <1>4, ProvisionDoes
  <2>2. runs[w].pc # "idle" /\ UNCHANGED <<records, stream, esm, dlq, late>>
    BY <1>4, ProvisionDoes
  <2>3. records' \in [ProjectIds -> ProjectItem \cup {Absent}]
    BY <2>2 DEF TypeOK
  <2>4. result' \in [ProjectIds -> {"notRun", Raised} \cup Successes]
    BY <2>1 DEF TypeOK
  <2> QED
    BY <1>2, <2>1, <2>2, <2>3, <2>4
<1>5. ASSUME NEW w \in Workers, Complete(w) PROVE TypeInv'
  <2>1. PICK answer \in Answers, q \in Run :
           /\ Transition(ProjectAt(w), "PROVISIONING", "READY", runs[w].got, answer)
           /\ Leaves(w, q, answer = "raised")
    BY <1>5, CompleteDoes
  <2>2. runs[w].pc # "idle" /\ UNCHANGED <<stream, esm, dlq, result>>
    BY <1>5, CompleteDoes
  <2>3. ProjectAt(w) \in ProjectIds /\ runs[w].got \in Successes
    BY <2>2, UnderWay DEF Run
  <2>4. /\ records' \in [ProjectIds -> ProjectItem \cup {Absent}]
        /\ \/ late' = late
           \/ late' = late \cup {Update(ProjectAt(w), "PROVISIONING", "READY", runs[w].got)}
    BY <2>1, <2>3, TransitionWrites DEF ProjectStatus, Successes
  <2>5. late' \subseteq SentUpdates
    BY <2>3, <2>4 DEF SentUpdates
  <2> QED
    BY <1>1, <2>1, <2>2, <2>4, <2>5
<1>6. ASSUME NEW w \in Workers, Fail(w) PROVE TypeInv'
  <2>1. PICK answer \in Answers, q \in Run :
           /\ Transition(ProjectAt(w), "PROVISIONING", "FAILED", "failureReason", answer)
           /\ Leaves(w, q, answer = "raised")
    BY <1>6, FailDoes
  <2>2. runs[w].pc # "idle" /\ UNCHANGED <<stream, esm, dlq, result>>
    BY <1>6, FailDoes
  <2>3. ProjectAt(w) \in ProjectIds
    BY <2>2, UnderWay
  <2>4. /\ records' \in [ProjectIds -> ProjectItem \cup {Absent}]
        /\ \/ late' = late
           \/ late' = late \cup
                {Update(ProjectAt(w), "PROVISIONING", "FAILED", "failureReason")}
    BY <2>1, <2>3, TransitionWrites DEF ProjectStatus
  <2>5. late' \subseteq SentUpdates
    BY <2>3, <2>4 DEF SentUpdates
  <2> QED
    BY <1>1, <2>1, <2>2, <2>4, <2>5
<1>7. ASSUME NEW w \in Workers, Respond(w) PROVE TypeInv'
  BY <1>7, RespondDoes, EndOfRun
<1>8. ASSUME NEW w \in Workers, Crash(w) PROVE TypeInv'
  BY <1>8, CrashDoes, EndOfRun
<1>9. ASSUME NEW w \in Workers, Abandon(w) PROVE TypeInv'
  <2>1. esm.worker = w /\ RetryOrDiscard(esm.next) /\ UNCHANGED <<records, stream, runs, result, late>>
    BY <1>9 DEF Abandon
  <2>2. esm.next \in esm.next .. esm.last
    BY <2>1, Window
  <2>3. /\ esm' \in [next: 1 .. Len(stream) + 1, last: 0 .. Len(stream),
                     retries: 0 .. MaxRetries, worker: Workers \cup {Absent}]
        /\ esm'.worker = Absent /\ dlq' \subseteq 1 .. esm'.next - 1
    BY <2>1, <2>2, TypeOfWindow
  <2>4. TypeOK' /\ (runs \in [Workers -> Run])' /\ (late \subseteq SentUpdates)'
    BY <2>1, <2>3 DEF TypeOK
  <2>5. WindowIsWorkedOn'
    BY <2>3, NobodyIsNoWorker DEF WindowIsWorkedOn
  <2> QED
    BY <2>4, <2>5
<1>10. ASSUME NEW w \in Workers, Deliver(w) PROVE TypeInv'
  <2>1. /\ esm.worker = Absent /\ runs[w].pc = "idle"
        /\ UNCHANGED <<records, stream, dlq, result, late>>
    BY <1>10, DeliverDoes
  <2>2. PICK q \in Run :
           /\ runs' = [runs EXCEPT ![w] = q]
           /\ q.pc = "begin" /\ q.at = esm.next /\ q.failed = {}
           /\ q.at \in Positions /\ q.last \in Positions /\ q.at <= q.last
           /\ esm' = [esm EXCEPT !.last = q.last, !.worker = w]
    BY <1>10, DeliverDoes
  <2>3. Len(stream) \in Nat /\ esm \in [next: 1 .. Len(stream) + 1, last: 0 .. Len(stream),
                     retries: 0 .. MaxRetries, worker: Workers \cup {Absent}]
    BY DEF TypeOK
  <2>4. /\ esm' \in [next: 1 .. Len(stream) + 1, last: 0 .. Len(stream),
                     retries: 0 .. MaxRetries, worker: Workers \cup {Absent}]
        /\ esm'.next = esm.next /\ esm'.last = q.last /\ esm'.worker = w
    <3> DEFINE one == [esm EXCEPT !.last = q.last]
    <3>1. q.last \in 0 .. Len(stream)
      BY <2>2, <2>3
    <3>2. /\ one \in [next: 1 .. Len(stream) + 1, last: 0 .. Len(stream),
                      retries: 0 .. MaxRetries, worker: Workers \cup {Absent}]
          /\ one.next = esm.next /\ one.last = q.last
      BY <2>3, <3>1
    <3>3. esm' = [one EXCEPT !.worker = w]
      BY <2>2, Zenon
    <3> HIDE DEF one
    <3> QED
      BY <3>2, <3>3
  <2>5. /\ runs' \in [Workers -> Run] /\ runs'[w] = q
        /\ \A v \in Workers : v # w => runs'[v] = runs[v]
    BY <2>2
  <2>6. TypeOK'
    BY <2>1, <2>2, <2>3, <2>4, <2>5 DEF TypeOK
  <2>7. WindowIsWorkedOn'
    BY <2>2, <2>3, <2>4, <2>5 DEF WindowIsWorkedOn
  <2> QED
    BY <2>1, <2>5, <2>6, <2>7
<1>11. ASSUME NEW p \in ProjectIds, Create(p) PROVE TypeInv'
  <2>1. /\ UNCHANGED <<esm, dlq, runs, result, late>>
        /\ records' \in [ProjectIds -> ProjectItem \cup {Absent}]
        /\ stream' \in Seq(ProjectIds) /\ Len(stream) \in Nat
        /\ Len(stream') = Len(stream) + 1
    BY <1>11, CreateDoes
  <2>2. /\ esm' \in [next: 1 .. Len(stream') + 1, last: 0 .. Len(stream'),
                     retries: 0 .. MaxRetries, worker: Workers \cup {Absent}]
    BY <2>1 DEF TypeOK
  <2>3. ASSUME NEW v \in Workers
        PROVE  (/\ runs[v].pc \in {"idle", "begin", "provision", "complete", "fail", "respond"}
                /\ runs[v].pc # "idle" =>
                      /\ 1 <= runs[v].at /\ runs[v].at <= runs[v].last
                      /\ runs[v].last <= Len(stream)
                      /\ runs[v].failed \subseteq 1 .. runs[v].at)'
    <3>1. runs[v].pc # "idle" => runs[v].last <= Len(stream')
      BY <2>1, UnderWay
    <3> QED
      BY <2>1, <3>1 DEF TypeOK
  <2>4. TypeOK'
    BY <2>1, <2>2, <2>3 DEF TypeOK
  <2>5. WindowIsWorkedOn'
    BY <2>1 DEF WindowIsWorkedOn
  <2> QED
    BY <2>1, <2>4, <2>5
<1>12. ASSUME NEW p \in ProjectIds, Delete(p) PROVE TypeInv'
  <2>1. /\ UNCHANGED <<stream, esm, dlq, runs, result, late>>
        /\ records' \in [ProjectIds -> ProjectItem \cup {Absent}]
    BY <1>12, DeleteDoes
  <2> QED
    BY <2>1 DEF TypeOK, WindowIsWorkedOn
<1>13. ASSUME NEW u \in late, Arrive(u) PROVE TypeInv'
  <2>1. /\ UNCHANGED <<stream, esm, dlq, runs, result>>
        /\ records' \in [ProjectIds -> ProjectItem \cup {Absent}]
        /\ late' \subseteq late
    BY <1>13, ArriveDoes
  <2> QED
    BY <2>1 DEF TypeOK, WindowIsWorkedOn
<1>14. CASE UNCHANGED vars
  BY <1>14 DEF vars, TypeOK, WindowIsWorkedOn
<1> QED
  BY <1>3, <1>4, <1>5, <1>6, <1>7, <1>8, <1>9, <1>10, <1>11, <1>12, <1>13, <1>14
     DEF Next, Consumer, Invocation, Api

\* The state of the consumer always has its type: TypeOK.
THEOREM TypeCorrect == Spec => []TypeOK
<1>1. TypeInv => TypeOK
  BY DEF TypeInv
<1> QED
  BY <1>1, TypeInit, TypeStep, PTL DEF Spec

-----------------------------------------------------------------------------
(***************************************************************************)
(* Provisioning happens once, and the status tells what came of it.        *)
(***************************************************************************)
Truthful(p) ==
    Live(p) =>
        /\ records[p].status = "READY" => records[p].outcome = result[p]
        /\ records[p].status = "FAILED" =>
              result[p] = Raised /\ records[p].outcome = "failureReason"
        /\ records[p].status = "CREATED" => result[p] = "notRun"
        /\ records[p].status = "PROVISIONING" => records[p].outcome = "none"

\* StatusIsTruthful, one project and one status at a time.
LEMMA TruthfulMeans == TypeInv => (StatusIsTruthful <=> \A p \in ProjectIds : Truthful(p))
<1> SUFFICES ASSUME TypeInv
             PROVE  StatusIsTruthful <=> \A p \in ProjectIds : Truthful(p)
  OBVIOUS
<1>1. ASSUME NEW p \in ProjectIds
      PROVE  (Live(p) =>
                CASE records[p].status = "READY"  -> records[p].outcome = result[p]
                  [] records[p].status = "FAILED" ->
                        result[p] = Raised /\ records[p].outcome = "failureReason"
                  [] records[p].status = "CREATED" -> result[p] = "notRun"
                  [] OTHER -> records[p].outcome = "none") <=> Truthful(p)
  <2>1. Live(p) => records[p].status \in ProjectStatus
    BY DEF TypeInv, TypeOK, ProjectItem
  <2> QED
    BY <2>1 DEF Truthful, ProjectStatus
<1> QED
  BY <1>1 DEF StatusIsTruthful

\* The same, after a step.
LEMMA TruthfulMeansNext == (TypeInv => (StatusIsTruthful <=> \A p \in ProjectIds : Truthful(p)))'
  BY TruthfulMeans, PTL

\* An invocation that leaves its record takes nothing from the others.
LEMMA LeavesOthersAlone ==
    ASSUME TypeInv, Provisioning, NEW w \in Workers, NEW q \in Run, NEW raised \in BOOLEAN,
           Leaves(w, q, raised), UNCHANGED <<stream, result>>,
           \A p \in ProjectIds : ~Expected(p, "CREATED") => ~Expected(p, "CREATED")'
    PROVE  KnowsItsProject' /\ AloneAtProject' /\ NotRunBeforeCreated'
<1>1. /\ runs' = [runs EXCEPT ![w] = q] /\ q.pc \in {"begin", "respond"}
      /\ runs \in [Workers -> Run]
  BY DEF Leaves, TypeInv
<1>2. ~AtWork(w)' /\ \A v \in Workers : v # w => runs'[v] = runs[v]
  BY <1>1 DEF AtWork
<1>3. \A v \in Workers : AtWork(v)' => v # w /\ AtWork(v) /\ ProjectAt(v)' = ProjectAt(v)
  BY <1>2 DEF AtWork, ProjectAt
<1>4. \A v \in Workers : AtWork(v) => ProjectAt(v) \in ProjectIds
  BY UnderWay DEF AtWork
<1>5. KnowsItsProject'
  <2> SUFFICES ASSUME NEW v \in Workers, AtWork(v)'
               PROVE  (/\ ~Expected(ProjectAt(v), "CREATED")
                       /\ runs[v].pc = "provision" => result[ProjectAt(v)] = "notRun"
                       /\ runs[v].pc = "complete" => result[ProjectAt(v)] = runs[v].got
                       /\ runs[v].pc = "fail" => result[ProjectAt(v)] = Raised)'
    BY DEF KnowsItsProject
  <2>1. v # w /\ AtWork(v) /\ ProjectAt(v)' = ProjectAt(v) /\ runs'[v] = runs[v]
        /\ ProjectAt(v) \in ProjectIds
    BY <1>2, <1>3, <1>4
  <2>2. /\ ~Expected(ProjectAt(v), "CREATED")
        /\ runs[v].pc = "provision" => result[ProjectAt(v)] = "notRun"
        /\ runs[v].pc = "complete" => result[ProjectAt(v)] = runs[v].got
        /\ runs[v].pc = "fail" => result[ProjectAt(v)] = Raised
    BY <2>1 DEF Provisioning, KnowsItsProject
  <2>3. ~Expected(ProjectAt(v), "CREATED")'
    BY <2>1, <2>2 DEF Expected
  <2> QED
    BY <2>1, <2>2, <2>3
<1>6. AloneAtProject'
  BY <1>3 DEF Provisioning, AloneAtProject
<1>7. NotRunBeforeCreated'
  BY DEF Provisioning, NotRunBeforeCreated
<1> QED
  BY <1>5, <1>6, <1>7

\* What is late goes on telling the truth, when no result changes but those of
\* projects nothing had been made of, and what becomes late tells it.
LEMMA LateGoesOn ==
    ASSUME TypeInv, Provisioning,
           \A p \in ProjectIds : result[p] = "notRun" \/ result'[p] = result[p],
           \A u \in late' : u \in late \/ TellsTruth(u)'
    PROVE  LateTellsTruth'
<1> SUFFICES ASSUME NEW u \in late', u \in late PROVE TellsTruth(u)'
  BY DEF LateTellsTruth
<1>1. TellsTruth(u)
  BY DEF Provisioning, LateTellsTruth
<1>2. u.project \in ProjectIds /\ (u.target = "READY" => u.outcome \in Successes)
  BY SentUpdate DEF TypeInv
<1> QED
  BY <1>1, <1>2 DEF TellsTruth, Successes, Raised

\* A status update never takes a project to CREATED.
LEMMA NeverBackToCreated ==
    ASSUME TypeInv, NEW p \in ProjectIds, NEW expected \in ProjectStatus,
           NEW target \in ProjectStatus, NEW outcome \in {"none", "endpoint", "failureReason"},
           NEW answer, expected # target, target # "CREATED",
           Transition(p, expected, target, outcome, answer)
    PROVE  \A r \in ProjectIds : ~Expected(r, "CREATED") => ~Expected(r, "CREATED")'
<1>1. /\ \A q \in ProjectIds \ {p} : records'[q] = records[q]
      /\ records' = records \/ records'[p].status = target
  BY TransitionWrites
<1> QED
  BY <1>1 DEF Expected

\* A final status update, of an invocation that knows the outcome.
LEMMA FinalUpdate ==
    ASSUME TypeInv, TypeInv', Provisioning, NEW w \in Workers, NEW q \in Run,
           NEW answer \in Answers, NEW target \in {"READY", "FAILED"},
           NEW outcome \in {"none", "endpoint", "failureReason"},
           runs[w].pc # "idle", UNCHANGED <<stream, result>>,
           target = "READY" => outcome = result[ProjectAt(w)],
           target = "FAILED" => result[ProjectAt(w)] = Raised /\ outcome = "failureReason",
           Transition(ProjectAt(w), "PROVISIONING", target, outcome, answer),
           Leaves(w, q, answer = "raised")
    PROVE  Provisioning'
<1> DEFINE p == ProjectAt(w)
<1>1. p \in ProjectIds
  BY UnderWay
<1> HIDE DEF p
<1>2. Transition(p, "PROVISIONING", target, outcome, answer)
  BY DEF p
<1>3. target \in ProjectStatus /\ "PROVISIONING" \in ProjectStatus
      /\ target # "PROVISIONING" /\ target # "CREATED"
  BY DEF ProjectStatus
<1>4. \A r \in ProjectIds : ~Expected(r, "CREATED") => ~Expected(r, "CREATED")'
  BY <1>1, <1>2, <1>3, NeverBackToCreated
<1>5. KnowsItsProject' /\ AloneAtProject' /\ NotRunBeforeCreated'
  BY <1>4, LeavesOthersAlone
<1>6. /\ \A r \in ProjectIds \ {p} : records'[r] = records[r]
      /\ records' = records \/ (records'[p].status = target /\ records'[p].outcome = outcome)
      /\ late' = late \/ late' = late \cup {Update(p, "PROVISIONING", target, outcome)}
  BY <1>1, <1>2, <1>3, TransitionWrites
<1>7. \A r \in ProjectIds : Truthful(r)
  BY TruthfulMeans DEF Provisioning
<1>8. ASSUME NEW r \in ProjectIds PROVE Truthful(r)'
  <2>1. CASE r = p /\ records'[p].status = target /\ records'[p].outcome = outcome
    BY <2>1 DEF Truthful, p
  <2>2. CASE records'[r] = records[r]
    BY <1>7, <2>2 DEF Truthful
  <2> QED
    BY <1>6, <2>1, <2>2
<1>9. StatusIsTruthful'
  BY <1>8, TruthfulMeansNext
<1>10. LateTellsTruth'
  <2>1. PICK r \in ProjectIds : r = p
    BY <1>1
  <2>2. TellsTruth(Update(r, "PROVISIONING", target, outcome))'
    BY <2>1 DEF TellsTruth, Update, p
  <2> QED
    BY <1>6, <2>1, <2>2, LateGoesOn
<1> QED
  BY <1>5, <1>9, <1>10 DEF Provisioning

\* An invocation that takes the project to PROVISIONING is alone at it: to be
\* at work at it another one would have had to take it out of CREATED.
LEMMA BeginKeepsProvisioning ==
    ASSUME TypeInv, TypeInv', Provisioning, NEW w \in Workers, Begin(w)
    PROVE  Provisioning'
<1>1. runs[w].pc = "begin" /\ UNCHANGED <<stream, esm, dlq, result>>
  BY BeginDoes
<1>2. PICK p \in ProjectIds : p = ProjectAt(w)
  BY <1>1, UnderWay
<1>3. PICK answer \in Answers, q \in Run :
         /\ Transition(p, "CREATED", "PROVISIONING", "none", answer)
         /\ \/ answer = "true" /\ Stays(w, q, "provision")
            \/ answer # "true" /\ Leaves(w, q, answer = "raised")
  BY <1>2, BeginDoes
<1>4. "CREATED" \in ProjectStatus /\ "PROVISIONING" \in ProjectStatus
  BY DEF ProjectStatus
<1>5. /\ \A r \in ProjectIds \ {p} : records'[r] = records[r]
      /\ \/ records' = records
         \/ records'[p].status = "PROVISIONING" /\ records'[p].outcome = "none"
      /\ answer = "true" => Expected(p, "CREATED") /\ Expected(p, "PROVISIONING")'
      /\ \/ late' = late
         \/ late' = late \cup {Update(p, "CREATED", "PROVISIONING", "none")}
  BY <1>3, <1>2, <1>4, TransitionWrites
<1>6. \A r \in ProjectIds : ~Expected(r, "CREATED") => ~Expected(r, "CREATED")'
  BY <1>3, <1>2, <1>4, NeverBackToCreated
<1>7. \A r \in ProjectIds : Truthful(r)
  BY TruthfulMeans DEF Provisioning
<1>8. StatusIsTruthful'
  <2>1. ASSUME NEW r \in ProjectIds PROVE Truthful(r)'
    <3>1. CASE r = p /\ records'[p].status = "PROVISIONING" /\ records'[p].outcome = "none"
      BY <3>1 DEF Truthful
    <3>2. CASE records'[r] = records[r]
      BY <1>1, <1>7, <3>2 DEF Truthful
    <3> QED
      BY <1>5, <3>1, <3>2
  <2> QED
    BY <2>1, TruthfulMeansNext
<1>9. LateTellsTruth'
  <2>1. TellsTruth(Update(p, "CREATED", "PROVISIONING", "none"))'
    BY DEF TellsTruth, Update
  <2> QED
    BY <1>1, <1>5, <2>1, LateGoesOn
<1>10. CASE answer # "true"
  <2>1. KnowsItsProject' /\ AloneAtProject' /\ NotRunBeforeCreated'
    BY <1>1, <1>3, <1>6, <1>10, LeavesOthersAlone
  <2> QED
    BY <1>8, <1>9, <2>1 DEF Provisioning
<1>11. CASE answer = "true"
  <2>1. Stays(w, q, "provision")
    BY <1>3, <1>11
  <2>2. runs' = [runs EXCEPT ![w] = q] /\ q.pc = "provision" /\ q.at = runs[w].at
        /\ runs \in [Workers -> Run]
    BY <2>1 DEF Stays, TypeInv
  <2>3. runs'[w] = q /\ ProjectAt(w)' = p /\ \A v \in Workers : v # w => runs'[v] = runs[v]
    BY <1>1, <1>2, <2>2 DEF ProjectAt
  <2>4. Expected(p, "CREATED") /\ Expected(p, "PROVISIONING")'
    BY <1>5, <1>11
  <2>5. result[p] = "notRun"
    BY <1>2, <1>7, <2>4 DEF Truthful, Expected
  <2>6. ASSUME NEW v \in Workers, v # w, AtWork(v)'
        PROVE  /\ AtWork(v) /\ ProjectAt(v)' = ProjectAt(v) /\ runs'[v] = runs[v]
               /\ ProjectAt(v) \in ProjectIds /\ ProjectAt(v) # p
    <3>1. AtWork(v) /\ runs'[v] = runs[v] /\ ProjectAt(v)' = ProjectAt(v)
      BY <1>1, <2>3, <2>6 DEF AtWork, ProjectAt
    <3>2. ProjectAt(v) \in ProjectIds /\ ~Expected(ProjectAt(v), "CREATED")
      BY <3>1, UnderWay DEF AtWork, Provisioning, KnowsItsProject
    <3> QED
      BY <2>4, <3>1, <3>2
  <2>7. KnowsItsProject'
    <3> SUFFICES ASSUME NEW v \in Workers, AtWork(v)'
                 PROVE  (/\ ~Expected(ProjectAt(v), "CREATED")
                         /\ runs[v].pc = "provision" => result[ProjectAt(v)] = "notRun"
                         /\ runs[v].pc = "complete" => result[ProjectAt(v)] = runs[v].got
                         /\ runs[v].pc = "fail" => result[ProjectAt(v)] = Raised)'
      BY DEF KnowsItsProject
    <3>1. CASE v = w
      <4>1. ~Expected(ProjectAt(w), "CREATED")'
        BY <2>3, <2>4 DEF Expected
      <4> QED
        BY <1>1, <2>2, <2>3, <2>5, <3>1, <4>1
    <3>2. CASE v # w
      <4>1. /\ runs'[v] = runs[v] /\ ProjectAt(v)' = ProjectAt(v) /\ AtWork(v)
            /\ ProjectAt(v) \in ProjectIds
        BY <2>6, <3>2
      <4>2. /\ ~Expected(ProjectAt(v), "CREATED")
            /\ runs[v].pc = "provision" => result[ProjectAt(v)] = "notRun"
            /\ runs[v].pc = "complete" => result[ProjectAt(v)] = runs[v].got
            /\ runs[v].pc = "fail" => result[ProjectAt(v)] = Raised
        BY <4>1 DEF Provisioning, KnowsItsProject
      <4>3. ~Expected(ProjectAt(v), "CREATED")'
        BY <1>6, <4>1, <4>2 DEF Expected
      <4> QED
        BY <1>1, <4>1, <4>2, <4>3
    <3> QED
      BY <3>1, <3>2
  <2>8. AloneAtProject'
    <3> SUFFICES ASSUME NEW v \in Workers, NEW u \in Workers, AtWork(v)', AtWork(u)',
                        ProjectAt(v)' = ProjectAt(u)'
                 PROVE  v = u
      BY DEF AloneAtProject
    <3> QED
      BY <2>3, <2>6 DEF Provisioning, AloneAtProject
  <2>9. NotRunBeforeCreated'
    BY <1>1 DEF Provisioning, NotRunBeforeCreated
  <2> QED
    BY <1>8, <1>9, <2>7, <2>8, <2>9 DEF Provisioning
<1> QED
  BY <1>10, <1>11

\* The provisioner is called for a project nothing has been made of.
LEMMA ProvisionKeepsProvisioning ==
    ASSUME TypeInv, TypeInv', Provisioning, NEW w \in Workers, Provision(w)
    PROVE  /\ Provisioning' /\ ProjectAt(w) \in ProjectIds
           /\ result[ProjectAt(w)] = "notRun"
           /\ \A r \in ProjectIds \ {ProjectAt(w)} : result'[r] = result[r]
<1> DEFINE p == ProjectAt(w)
<1>1. runs[w].pc = "provision" /\ UNCHANGED <<records, stream, esm, dlq, late>>
  BY ProvisionDoes
<1>2. PICK got \in Successes \cup {Raised}, q \in Run :
         /\ result' = [result EXCEPT ![p] = got]
         /\ \/ got = Raised /\ Stays(w, q, "fail")
            \/ got # Raised /\ Stays(w, q, "complete") /\ q.got = got
  BY ProvisionDoes
<1>3. p \in ProjectIds /\ AtWork(w) /\ result[p] = "notRun" /\ ~Expected(p, "CREATED")
  BY <1>1, UnderWay DEF AtWork, Provisioning, KnowsItsProject
<1>4. \E i \in Positions : stream[i] = p
  BY <1>1, UnderWay DEF ProjectAt
<1>5. ProjectAt(w)' = p /\ AtWork(w)'
  BY <1>1, <1>2 DEF ProjectAt, Stays, AtWork, TypeInv
<1> HIDE DEF p
<1>6. result'[p] = got /\ \A r \in ProjectIds \ {p} : result'[r] = result[r]
  BY <1>2, <1>3 DEF TypeInv, TypeOK
<1>7. /\ runs' = [runs EXCEPT ![w] = q] /\ runs'[w] = q
      /\ \/ got = Raised /\ q.pc = "fail"
         \/ got # Raised /\ q.pc = "complete" /\ q.got = got
      /\ \A v \in Workers : v # w => runs'[v] = runs[v]
  BY <1>2 DEF Stays, TypeInv
<1>8. \A v \in Workers \ {w} :
         AtWork(v)' => AtWork(v) /\ ProjectAt(v)' = ProjectAt(v) /\ ProjectAt(v) # p
  BY <1>1, <1>3, <1>7 DEF AtWork, ProjectAt, p, Provisioning, AloneAtProject
<1>9. KnowsItsProject'
  <2> SUFFICES ASSUME NEW v \in Workers, AtWork(v)'
               PROVE  (/\ ~Expected(ProjectAt(v), "CREATED")
                       /\ runs[v].pc = "provision" => result[ProjectAt(v)] = "notRun"
                       /\ runs[v].pc = "complete" => result[ProjectAt(v)] = runs[v].got
                       /\ runs[v].pc = "fail" => result[ProjectAt(v)] = Raised)'
    BY DEF KnowsItsProject
  <2>1. CASE v = w
    <3>1. ~Expected(ProjectAt(w), "CREATED")'
      BY <1>1, <1>3, <1>5 DEF Expected
    <3> QED
      BY <1>5, <1>6, <1>7, <2>1, <3>1
  <2>2. CASE v # w
    <3>1. /\ AtWork(v) /\ ProjectAt(v)' = ProjectAt(v) /\ ProjectAt(v) # p
          /\ runs'[v] = runs[v] /\ ProjectAt(v) \in ProjectIds
      BY <1>7, <1>8, <2>2, UnderWay DEF AtWork
    <3>2. /\ ~Expected(ProjectAt(v), "CREATED")
          /\ runs[v].pc = "provision" => result[ProjectAt(v)] = "notRun"
          /\ runs[v].pc = "complete" => result[ProjectAt(v)] = runs[v].got
          /\ runs[v].pc = "fail" => result[ProjectAt(v)] = Raised
      BY <3>1 DEF Provisioning, KnowsItsProject
    <3>3. ~Expected(ProjectAt(v), "CREATED")'
      BY <1>1, <3>1, <3>2 DEF Expected
    <3> QED
      BY <1>6, <3>1, <3>2, <3>3
  <2> QED
    BY <2>1, <2>2
<1>10. AloneAtProject'
  <2> SUFFICES ASSUME NEW v \in Workers, NEW u \in Workers, AtWork(v)', AtWork(u)',
                      ProjectAt(v)' = ProjectAt(u)'
               PROVE  v = u
    BY DEF AloneAtProject
  <2> QED
    BY <1>5, <1>8 DEF Provisioning, AloneAtProject
<1>11. NotRunBeforeCreated'
  BY <1>1, <1>4, <1>6 DEF Provisioning, NotRunBeforeCreated
<1>12. StatusIsTruthful'
  <2>1. \A r \in ProjectIds : Truthful(r)
    BY TruthfulMeans DEF Provisioning
  <2>2. ASSUME NEW r \in ProjectIds PROVE Truthful(r)'
    <3>1. CASE r = p
      <4>1. Truthful(p)
        BY <2>1, <1>3
      <4>2. Live(p) => records[p].outcome # "notRun"
        BY <1>3 DEF TypeInv, TypeOK, ProjectItem
      <4> QED
        BY <1>1, <1>3, <3>1, <4>1, <4>2 DEF Truthful, Expected, Raised
    <3>2. CASE r # p
      BY <1>1, <1>6, <2>1, <3>2 DEF Truthful
    <3> QED
      BY <3>1, <3>2
  <2> QED
    BY <2>2, TruthfulMeansNext
<1>13. LateTellsTruth'
  <2>1. \A r \in ProjectIds : result[r] = "notRun" \/ result'[r] = result[r]
    BY <1>3, <1>6
  <2> QED
    BY <1>1, <2>1, LateGoesOn
<1> QED
  BY <1>3, <1>6, <1>9, <1>10, <1>11, <1>12, <1>13 DEF Provisioning, p

\* The final updates keep the invariant.
LEMMA CompleteKeepsProvisioning ==
    ASSUME TypeInv, TypeInv', Provisioning, NEW w \in Workers, Complete(w)
    PROVE  Provisioning'
<1>1. runs[w].pc = "complete" /\ UNCHANGED <<stream, esm, dlq, result>>
  BY CompleteDoes
<1>2. PICK answer \in Answers, q \in Run :
         /\ Transition(ProjectAt(w), "PROVISIONING", "READY", runs[w].got, answer)
         /\ Leaves(w, q, answer = "raised")
  BY CompleteDoes
<1>3. PICK got \in Successes : got = runs[w].got
  BY <1>1, UnderWay DEF Run
<1>4. got = result[ProjectAt(w)]
  BY <1>1, <1>3 DEF Provisioning, KnowsItsProject, AtWork
<1>5. Transition(ProjectAt(w), "PROVISIONING", "READY", got, answer)
  BY <1>2, <1>3
<1> QED
  BY <1>1, <1>2, <1>4, <1>5, FinalUpdate DEF Successes

\* The update to FAILED follows a provision() that raised.
LEMMA FailKeepsProvisioning ==
    ASSUME TypeInv, TypeInv', Provisioning, NEW w \in Workers, Fail(w)
    PROVE  Provisioning'
<1>1. runs[w].pc = "fail" /\ UNCHANGED <<stream, esm, dlq, result>>
  BY FailDoes
<1>2. PICK answer \in Answers, q \in Run :
         /\ Transition(ProjectAt(w), "PROVISIONING", "FAILED", "failureReason", answer)
         /\ Leaves(w, q, answer = "raised")
  BY FailDoes
<1>3. result[ProjectAt(w)] = Raised
  BY <1>1 DEF Provisioning, KnowsItsProject, AtWork
<1> QED
  BY <1>1, <1>2, <1>3, FinalUpdate

\* Steps of the mapping and of the environment that start nothing: at most one
\* worker changes, to one that is not at work.
LEMMA NobodyStartsWork ==
    ASSUME TypeInv, TypeInv', Provisioning, UNCHANGED <<records, stream, result>>,
           \/ runs' = runs
           \/ \E w \in Workers, q \in Run :
                 runs' = [runs EXCEPT ![w] = q] /\ q.pc \in {"idle", "begin"},
           \A u \in late' : u \in late \/ TellsTruth(u)
    PROVE  Provisioning'
<1>1. \A v \in Workers : AtWork(v)' => /\ AtWork(v) /\ ProjectAt(v)' = ProjectAt(v)
                                       /\ runs'[v] = runs[v] /\ ProjectAt(v) \in ProjectIds
  <2> SUFFICES ASSUME NEW v \in Workers, AtWork(v)'
               PROVE  AtWork(v) /\ ProjectAt(v)' = ProjectAt(v) /\ runs'[v] = runs[v]
                      /\ ProjectAt(v) \in ProjectIds
    OBVIOUS
  <2>1. runs \in [Workers -> Run]
    BY DEF TypeInv
  <2>2. runs'[v] = runs[v]
    BY <2>1 DEF AtWork
  <2>3. AtWork(v) /\ ProjectAt(v)' = ProjectAt(v)
    BY <2>2 DEF AtWork, ProjectAt
  <2> QED
    BY <2>2, <2>3, UnderWay DEF AtWork
<1>2. KnowsItsProject'
  <2> SUFFICES ASSUME NEW v \in Workers, AtWork(v)'
               PROVE  (/\ ~Expected(ProjectAt(v), "CREATED")
                       /\ runs[v].pc = "provision" => result[ProjectAt(v)] = "notRun"
                       /\ runs[v].pc = "complete" => result[ProjectAt(v)] = runs[v].got
                       /\ runs[v].pc = "fail" => result[ProjectAt(v)] = Raised)'
    BY DEF KnowsItsProject
  <2>1. AtWork(v) /\ ProjectAt(v)' = ProjectAt(v) /\ runs'[v] = runs[v]
    BY <1>1
  <2>2. ~Expected(ProjectAt(v), "CREATED") => ~Expected(ProjectAt(v), "CREATED")'
    BY <2>1 DEF Expected
  <2> QED
    BY <2>1, <2>2 DEF Provisioning, KnowsItsProject
<1>3. AloneAtProject'
  BY <1>1 DEF Provisioning, AloneAtProject
<1>4. NotRunBeforeCreated'
  BY DEF Provisioning, NotRunBeforeCreated
<1>5. StatusIsTruthful'
  <2>1. \A r \in ProjectIds : Truthful(r)
    BY TruthfulMeans DEF Provisioning
  <2>2. \A r \in ProjectIds : Truthful(r)'
    BY <2>1 DEF Truthful
  <2> QED
    BY <2>2, TruthfulMeansNext
<1>6. LateTellsTruth'
  <2>1. \A u \in late' : u \in late \/ TellsTruth(u)'
    BY DEF TellsTruth
  <2> QED
    BY <2>1, LateGoesOn
<1> QED
  BY <1>2, <1>3, <1>4, <1>5, <1>6 DEF Provisioning

\* The API creates projects nothing has been made of, and deletes any.
LEMMA ApiKeepsProvisioning ==
    ASSUME TypeInv, TypeInv', Provisioning, NEW p \in ProjectIds, Create(p) \/ Delete(p)
    PROVE  Provisioning'
<1>1. /\ UNCHANGED <<esm, dlq, runs, result, late>>
      /\ \A r \in ProjectIds \ {p} : records'[r] = records[r]
      /\ \A i \in Positions : stream'[i] = stream[i]
      /\ Positions \subseteq Positions'
  <2>1. CASE Create(p)
    BY <2>1, CreateDoes
  <2>2. CASE Delete(p)
    BY <2>2, DeleteDoes
  <2> QED
    BY <2>1, <2>2
<1>2. \/ /\ \A i \in Positions : stream[i] # p
         /\ records'[p].status = "CREATED"
         /\ \E i \in Positions' : stream'[i] = p
      \/ records'[p] = Absent /\ UNCHANGED stream
  <2>1. CASE Create(p)
    BY <2>1, CreateDoes
  <2>2. CASE Delete(p)
    BY <2>2, DeleteDoes
  <2> QED
    BY <2>1, <2>2
<1>3. \A v \in Workers : AtWork(v)' => /\ AtWork(v) /\ ProjectAt(v)' = ProjectAt(v)
                                       /\ ProjectAt(v) \in ProjectIds
                                       /\ \E i \in Positions : stream[i] = ProjectAt(v)
  BY <1>1, UnderWay DEF AtWork, ProjectAt
<1>4. KnowsItsProject'
  <2> SUFFICES ASSUME NEW v \in Workers, AtWork(v)'
               PROVE  (/\ ~Expected(ProjectAt(v), "CREATED")
                       /\ runs[v].pc = "provision" => result[ProjectAt(v)] = "notRun"
                       /\ runs[v].pc = "complete" => result[ProjectAt(v)] = runs[v].got
                       /\ runs[v].pc = "fail" => result[ProjectAt(v)] = Raised)'
    BY DEF KnowsItsProject
  <2>1. /\ AtWork(v) /\ ProjectAt(v)' = ProjectAt(v) /\ ProjectAt(v) \in ProjectIds
        /\ \E i \in Positions : stream[i] = ProjectAt(v)
    BY <1>3
  <2>2. ~Expected(ProjectAt(v), "CREATED")
    BY <2>1 DEF Provisioning, KnowsItsProject
  <2>3. ~Expected(ProjectAt(v), "CREATED")'
    BY <1>1, <1>2, <2>1, <2>2 DEF Expected
  <2> QED
    BY <1>1, <2>1, <2>3 DEF Provisioning, KnowsItsProject
<1>5. AloneAtProject'
  BY <1>3 DEF Provisioning, AloneAtProject
<1>6. NotRunBeforeCreated'
  <2> SUFFICES ASSUME NEW r \in ProjectIds, \A i \in Positions' : stream'[i] # r
               PROVE  result'[r] = "notRun"
    BY DEF NotRunBeforeCreated
  <2>1. \A i \in Positions : stream[i] # r
    BY <1>1
  <2> QED
    BY <1>1, <2>1 DEF Provisioning, NotRunBeforeCreated
<1>7. StatusIsTruthful'
  <2>1. \A r \in ProjectIds : Truthful(r)
    BY TruthfulMeans DEF Provisioning
  <2>2. ASSUME NEW r \in ProjectIds PROVE Truthful(r)'
    <3>1. CASE r # p
      BY <1>1, <2>1, <3>1 DEF Truthful
    <3>2. CASE r = p
      BY <1>1, <1>2, <3>2 DEF Truthful, Provisioning, NotRunBeforeCreated
    <3> QED
      BY <3>1, <3>2
  <2> QED
    BY <2>2, TruthfulMeansNext
<1>8. LateTellsTruth'
  BY <1>1, LateGoesOn
<1> QED
  BY <1>4, <1>5, <1>6, <1>7, <1>8 DEF Provisioning

\* An update that arrives late says what the one that was waited for says.
LEMMA ArriveKeepsProvisioning ==
    ASSUME TypeInv, TypeInv', Provisioning, NEW u \in late, Arrive(u)
    PROVE  Provisioning'
<1> DEFINE p == u.project
<1>1. /\ UNCHANGED <<stream, runs, result>> /\ late' \subseteq late
      /\ u \in SentUpdates /\ p \in ProjectIds
      /\ \A r \in ProjectIds \ {p} : records'[r] = records[r]
      /\ \/ records' = records
         \/ records'[p].status = u.target /\ records'[p].outcome = u.outcome
  BY ArriveDoes
<1>2. /\ u.target \in ProjectStatus /\ u.target # "CREATED"
      /\ u.target = "PROVISIONING" => u.outcome = "none"
      /\ u.target = "FAILED" => u.outcome = "failureReason"
  BY <1>1, SentUpdate
<1>3. TellsTruth(u)
  BY DEF Provisioning, LateTellsTruth
<1> HIDE DEF p
<1>4. \A r \in ProjectIds : ~Expected(r, "CREATED") => ~Expected(r, "CREATED")'
  BY <1>1, <1>2 DEF Expected
<1>5. \A v \in Workers : AtWork(v)' => /\ AtWork(v) /\ ProjectAt(v)' = ProjectAt(v)
                                       /\ runs'[v] = runs[v] /\ ProjectAt(v) \in ProjectIds
  BY <1>1, UnderWay DEF AtWork, ProjectAt
<1>6. KnowsItsProject'
  <2> SUFFICES ASSUME NEW v \in Workers, AtWork(v)'
               PROVE  (/\ ~Expected(ProjectAt(v), "CREATED")
                       /\ runs[v].pc = "provision" => result[ProjectAt(v)] = "notRun"
                       /\ runs[v].pc = "complete" => result[ProjectAt(v)] = runs[v].got
                       /\ runs[v].pc = "fail" => result[ProjectAt(v)] = Raised)'
    BY DEF KnowsItsProject
  <2>1. AtWork(v) /\ ProjectAt(v)' = ProjectAt(v) /\ ProjectAt(v) \in ProjectIds
    BY <1>5
  <2>2. ~Expected(ProjectAt(v), "CREATED")'
    BY <1>4, <2>1 DEF Expected, Provisioning, KnowsItsProject
  <2> QED
    BY <1>1, <2>1, <2>2 DEF Provisioning, KnowsItsProject
<1>7. AloneAtProject'
  BY <1>5 DEF Provisioning, AloneAtProject
<1>8. NotRunBeforeCreated'
  BY <1>1 DEF Provisioning, NotRunBeforeCreated
<1>9. StatusIsTruthful'
  <2>1. \A r \in ProjectIds : Truthful(r)
    BY TruthfulMeans DEF Provisioning
  <2>2. ASSUME NEW r \in ProjectIds PROVE Truthful(r)'
    <3>1. CASE r = p /\ records'[p].status = u.target /\ records'[p].outcome = u.outcome
      BY <1>1, <1>2, <1>3, <3>1 DEF Truthful, TellsTruth, p
    <3>2. CASE records'[r] = records[r]
      BY <1>1, <2>1, <3>2 DEF Truthful
    <3> QED
      BY <1>1, <3>1, <3>2
  <2> QED
    BY <2>2, TruthfulMeansNext
<1>10. LateTellsTruth'
  BY <1>1, LateGoesOn
<1> QED
  BY <1>6, <1>7, <1>8, <1>9, <1>10 DEF Provisioning

\* Every step keeps the invariant.
LEMMA ProvisioningStep ==
    TypeInv /\ TypeInv' /\ Provisioning /\ [Next]_vars => Provisioning'
<1> SUFFICES ASSUME TypeInv, TypeInv', Provisioning, [Next]_vars PROVE Provisioning'
  OBVIOUS
<1>1. ASSUME NEW w \in Workers, Respond(w) \/ Crash(w) PROVE Provisioning'
  <2>1. /\ runs' = [runs EXCEPT ![w] = Idle] /\ UNCHANGED <<records, stream, result>>
        /\ \/ late' = late
           \/ /\ runs[w].pc \in {"begin", "complete", "fail"}
              /\ late' = late \cup {UpdateOf(w)}
    BY <1>1, RespondDoes, CrashDoes
  <2>2. Idle \in Run /\ Idle.pc = "idle"
    BY DEF Idle, Run, Successes
  <2>3. runs[w].pc \in {"begin", "complete", "fail"} => TellsTruth(UpdateOf(w))
    BY DEF Provisioning, KnowsItsProject, AtWork, TellsTruth, UpdateOf, Update
  <2>4. \A u \in late' : u \in late \/ TellsTruth(u)
    BY <2>1, <2>3
  <2> QED
    BY <2>1, <2>2, <2>4, NobodyStartsWork
<1>2. ASSUME NEW w \in Workers, Deliver(w) PROVE Provisioning'
  BY <1>2, DeliverDoes, NobodyStartsWork
<1>3. ASSUME NEW w \in Workers, Abandon(w) PROVE Provisioning'
  BY <1>3, NobodyStartsWork DEF Abandon
<1>4. CASE UNCHANGED vars
  BY <1>4, NobodyStartsWork DEF vars
<1>5. ASSUME NEW w \in Workers, Invocation(w) PROVE Provisioning'
  BY <1>1, <1>5, BeginKeepsProvisioning, ProvisionKeepsProvisioning,
     CompleteKeepsProvisioning, FailKeepsProvisioning DEF Invocation
<1> QED
  BY <1>1, <1>2, <1>3, <1>4, <1>5, ApiKeepsProvisioning, ArriveKeepsProvisioning
     DEF Next, Consumer, Api

\* At first there is no record and no invocation.
LEMMA ProvisioningInit == Init => Provisioning
  BY DEF Init, Idle, Provisioning, KnowsItsProject, AloneAtProject, NotRunBeforeCreated,
         StatusIsTruthful, LateTellsTruth, AtWork

ProvisioningInv == TypeInv /\ Provisioning

\* Both hold throughout.
LEMMA ProvisioningIsSound == Spec => []ProvisioningInv
<1>1. Init => ProvisioningInv
  BY TypeInit, ProvisioningInit DEF ProvisioningInv
<1>2. ProvisioningInv /\ [Next]_vars => ProvisioningInv'
  BY TypeStep, ProvisioningStep DEF ProvisioningInv
<1> QED
  BY <1>1, <1>2, PTL DEF Spec

\* The status of a project tells what the provisioner did: StatusIsTruthful.
THEOREM StatusTellsTruth == Spec => []StatusIsTruthful
<1>1. ProvisioningInv => StatusIsTruthful
  BY DEF ProvisioningInv, Provisioning
<1> QED
  BY <1>1, ProvisioningIsSound, PTL

\* No project is provisioned a second time, by whatever deliveries, retries
\* and concurrent invocations of its stream record: ProvisionedOnce.
THEOREM ProvisionsOnce == Spec => ProvisionedOnce
<1>1. ASSUME ProvisioningInv, [Next]_vars, NEW p \in ProjectIds, result[p] # "notRun"
      PROVE  result'[p] = result[p]
  <2> USE DEF ProvisioningInv
  <2>1. ASSUME NEW w \in Workers, Provision(w) PROVE result'[p] = result[p]
    BY <1>1, <2>1, TypeStep, ProvisionKeepsProvisioning
  <2>2. CASE ~\E w \in Workers : Provision(w)
    BY <1>1, <2>2 DEF Next, Consumer, Api, Invocation, Begin, Complete, Fail, Respond, Deliver,
       Crash, Abandon, Arrive, Create, Delete, vars
  <2> QED
    BY <2>1, <2>2
<1>2. ProvisioningInv /\ [Next]_vars =>
         [\A p \in ProjectIds : result[p] # "notRun" => result'[p] = result[p]]_vars
  BY <1>1
<1> QED
  BY <1>2, ProvisioningIsSound, PTL DEF Spec, ProvisionedOnce

-----------------------------------------------------------------------------
(***************************************************************************)
(* What may become of a record.                                            *)
(***************************************************************************)
StatusSteps == {<<"CREATED", "PROVISIONING">>, <<"PROVISIONING", "READY">>,
                <<"PROVISIONING", "FAILED">>}

RecordStep(p) ==
    \/ records'[p] = records[p]
    \/ records'[p] = Absent
    \/ (\A i \in Positions : stream[i] # p) /\ \E i \in Positions' : stream'[i] = p
    \/ Live(p) /\ <<records[p].status, records'[p].status>> \in StatusSteps

\* What any step does to a record is one of the record's own steps, and the stream only grows.
LEMMA RecordSteps ==
    ASSUME TypeInv, [Next]_vars, NEW p \in ProjectIds
    PROVE  /\ RecordStep(p)
           /\ \A i \in Positions : i \in Positions' /\ stream'[i] = stream[i]
<1>1. ASSUME NEW w \in Workers, Begin(w)
      PROVE  RecordStep(p) /\ UNCHANGED stream
  <2>1. runs[w].pc = "begin" /\ UNCHANGED stream
    BY <1>1, BeginDoes
  <2>2. PICK q \in ProjectIds : q = ProjectAt(w)
    BY <2>1, UnderWay
  <2>3. PICK answer \in Answers : Transition(q, "CREATED", "PROVISIONING", "none", answer)
    BY <1>1, <2>2, BeginDoes
  <2>4. /\ \A r \in ProjectIds \ {q} : records'[r] = records[r]
        /\ \/ records' = records
           \/ Expected(q, "CREATED") /\ records'[q].status = "PROVISIONING"
    BY <2>3, TransitionWrites DEF ProjectStatus
  <2> QED
    BY <2>1, <2>4 DEF RecordStep, Expected, StatusSteps
<1>2. ASSUME NEW w \in Workers, Complete(w)
      PROVE  RecordStep(p) /\ UNCHANGED stream
  <2>1. runs[w].pc = "complete" /\ UNCHANGED stream
    BY <1>2, CompleteDoes
  <2>2. PICK q \in ProjectIds : q = ProjectAt(w)
    BY <2>1, UnderWay
  <2>3. PICK got \in Successes : got = runs[w].got
    BY <2>1, UnderWay DEF Run
  <2>4. PICK answer \in Answers : Transition(q, "PROVISIONING", "READY", got, answer)
    BY <1>2, <2>2, <2>3, CompleteDoes
  <2>5. /\ \A r \in ProjectIds \ {q} : records'[r] = records[r]
        /\ \/ records' = records
           \/ Expected(q, "PROVISIONING") /\ records'[q].status = "READY"
    BY <2>4, TransitionWrites DEF ProjectStatus, Successes
  <2> QED
    BY <2>1, <2>5 DEF RecordStep, Expected, StatusSteps
<1>3. ASSUME NEW w \in Workers, Fail(w)
      PROVE  RecordStep(p) /\ UNCHANGED stream
  <2>1. runs[w].pc = "fail" /\ UNCHANGED stream
    BY <1>3, FailDoes
  <2>2. PICK q \in ProjectIds : q = ProjectAt(w)
    BY <2>1, UnderWay
  <2>3. PICK answer \in Answers : Transition(q, "PROVISIONING", "FAILED", "failureReason", answer)
    BY <1>3, <2>2, FailDoes
  <2>4. /\ \A r \in ProjectIds \ {q} : records'[r] = records[r]
        /\ \/ records' = records
           \/ Expected(q, "PROVISIONING") /\ records'[q].status = "FAILED"
    BY <2>3, TransitionWrites DEF ProjectStatus
  <2> QED
    BY <2>1, <2>4 DEF RecordStep, Expected, StatusSteps
<1>4. ASSUME NEW r \in ProjectIds, Create(r)
      PROVE  /\ RecordStep(p)
             /\ \A i \in Positions : i \in Positions' /\ stream'[i] = stream[i]
  BY <1>4, CreateDoes DEF RecordStep
<1>5. ASSUME NEW r \in ProjectIds, Delete(r)
      PROVE  RecordStep(p) /\ UNCHANGED stream
  BY <1>5, DeleteDoes DEF RecordStep
<1>6. ASSUME NEW u \in late, Arrive(u)
      PROVE  RecordStep(p) /\ UNCHANGED stream
  <2>1. /\ UNCHANGED stream /\ u \in SentUpdates /\ u.project \in ProjectIds
        /\ \A r \in ProjectIds \ {u.project} : records'[r] = records[r]
        /\ \/ records' = records
           \/ Expected(u.project, u.expected) /\ records'[u.project].status = u.target
    BY <1>6, ArriveDoes
  <2>2. <<u.expected, u.target>> \in StatusSteps
    BY <2>1, SentUpdate DEF StatusSteps, ProjectStatus
  <2> QED
    BY <2>1, <2>2 DEF RecordStep, Expected
<1>7. CASE UNCHANGED <<records, stream>>
  BY <1>7 DEF RecordStep
<1> QED
  BY <1>1, <1>2, <1>3, <1>4, <1>5, <1>6, <1>7
     DEF Next, Consumer, Api, Invocation, Provision, Respond, Deliver, Crash, Abandon, vars

\* A project's id is on the stream from its creation on.
OnStream == \A p \in ProjectIds : Live(p) => \E i \in Positions : stream[i] = p

\* Every project that ever was stays on the stream.
LEMMA OnStreamStep == TypeInv /\ OnStream /\ [Next]_vars => OnStream'
<1> SUFFICES ASSUME TypeInv, OnStream, [Next]_vars, NEW p \in ProjectIds, Live(p)'
             PROVE  \E i \in Positions' : stream'[i] = p
  BY DEF OnStream
<1>1. /\ RecordStep(p)
      /\ \A i \in Positions : i \in Positions' /\ stream'[i] = stream[i]
  BY RecordSteps
<1>2. CASE Live(p)
  BY <1>1, <1>2 DEF OnStream
<1>3. CASE ~Live(p)
  BY <1>1, <1>3 DEF RecordStep
<1> QED
  BY <1>2, <1>3

OnStreamInv == TypeInv /\ OnStream

\* It holds throughout.
LEMMA ProjectsAreOnStream == Spec => []OnStreamInv
<1>1. Init => OnStreamInv
  BY TypeInit DEF OnStreamInv, OnStream, Init
<1>2. OnStreamInv /\ [Next]_vars => OnStreamInv'
  BY TypeStep, OnStreamStep DEF OnStreamInv
<1> QED
  BY <1>1, <1>2, PTL DEF Spec

\* No status update takes a status back or overwrites a final one:
\* StatusMovesForward.
THEOREM StatusesMoveForward == Spec => StatusMovesForward
<1>1. ASSUME OnStreamInv, [Next]_vars, NEW p \in ProjectIds, Live(p), records'[p] # Absent
      PROVE  \/ records'[p] = records[p]
             \/ StatusOrder[records'[p].status] = StatusOrder[records[p].status] + 1
  <2>1. RecordStep(p)
    BY <1>1, RecordSteps DEF OnStreamInv
  <2>2. \/ records'[p] = records[p]
        \/ <<records[p].status, records'[p].status>> \in StatusSteps
    BY <1>1, <2>1 DEF RecordStep, OnStreamInv, OnStream
  <2>3. /\ StatusOrder["CREATED"] = 0 /\ StatusOrder["PROVISIONING"] = 1
        /\ StatusOrder["READY"] = 2 /\ StatusOrder["FAILED"] = 2
    BY DEF StatusOrder
  <2> QED
    BY <2>2, <2>3 DEF StatusSteps
<1>2. OnStreamInv /\ [Next]_vars =>
         [\A p \in ProjectIds :
             (Live(p) /\ records'[p] # Absent) =>
                 \/ records'[p] = records[p]
                 \/ StatusOrder[records'[p].status] = StatusOrder[records[p].status] + 1]_vars
  BY <1>1
<1> QED
  BY <1>2, ProjectsAreOnStream, PTL DEF Spec, StatusMovesForward

\* A project that was deleted is never written again, whatever an invocation
\* that still works on it does: DeletedStaysDeleted.
THEOREM StaysDeleted == Spec => DeletedStaysDeleted
<1>1. ASSUME TypeInv, [Next]_vars, NEW p \in ProjectIds, ~Live(p), records'[p] # Absent
      PROVE  p \notin {stream[i] : i \in Positions}
  BY <1>1, RecordSteps DEF RecordStep
<1>2. TypeInv /\ [Next]_vars =>
         [\A p \in ProjectIds :
             (~Live(p) /\ records'[p] # Absent) => p \notin {stream[i] : i \in Positions}]_vars
  BY <1>1
<1>3. OnStreamInv => TypeInv
  BY DEF OnStreamInv
<1> QED
  BY <1>2, <1>3, ProjectsAreOnStream, PTL DEF Spec, DeletedStaysDeleted

-----------------------------------------------------------------------------
(***************************************************************************)
(* How a project gets stuck.                                               *)
(***************************************************************************)
\* The invocation that moved p to PROVISIONING dies, or its last update fails.
WorkIsLost(w, p) ==
    /\ AtWork(w) /\ ProjectAt(w) = p
    /\ \/ runs'[w].pc = "idle"
       \/ runs[w].pc # "provision" /\ runs[w].at \in runs'[w].failed

\* The update to PROVISIONING takes effect, and its invocation does not hear of it.
BeginIsUnheard(w, p) ==
    /\ runs[w].pc = "begin" /\ ProjectAt(w) = p
    /\ Expected(p, "CREATED") /\ runs'[w].pc # "provision"

BeginIsLate(p) == Update(p, "CREATED", "PROVISIONING", "none") \in late \ late'

\* A step of one invocation that is not at p, or was not and is not at work and
\* leaves p's record alone, does not get p stuck.
LEMMA OthersDoNotStick ==
    ASSUME TypeInv, NEW p \in ProjectIds, NEW w \in Workers, NEW q \in Run,
           runs' = [runs EXCEPT ![w] = q], UNCHANGED stream,
           Expected(p, "PROVISIONING")' => Expected(p, "PROVISIONING"),
           AtWork(w) => ProjectAt(w) # p
    PROVE  ~Stuck(p) => ~Stuck(p)'
<1>1. \A v \in Workers : v # w => runs'[v] = runs[v] /\ ProjectAt(v)' = ProjectAt(v)
  BY DEF TypeInv, ProjectAt
<1> SUFFICES ASSUME Stuck(p)' PROVE Stuck(p)
  OBVIOUS
<1>2. \A v \in Workers : AtWork(v) => ProjectAt(v) # p
  BY <1>1 DEF Stuck, AtWork
<1> QED
  BY <1>2 DEF Stuck, AtWork

\* A project gets stuck in PROVISIONING only when the invocation that moved it
\* there dies, its last update fails, or the update to PROVISIONING takes effect
\* unheard or late: StuckOnlyByFailure.
THEOREM FailuresStick == Spec => StuckOnlyByFailure
<1>1. ASSUME TypeInv, [Next]_vars, NEW p \in ProjectIds, ~Stuck(p), Stuck(p)'
      PROVE  \/ \E w \in Workers : WorkIsLost(w, p) \/ BeginIsUnheard(w, p)
             \/ BeginIsLate(p)
  <2>1. ASSUME NEW w \in Workers, Begin(w) PROVE BeginIsUnheard(w, p)
    <3>1. runs[w].pc = "begin" /\ UNCHANGED stream
      BY <1>1, <2>1, BeginDoes
    <3>2. PICK r \in ProjectIds : r = ProjectAt(w)
      BY <1>1, <3>1, UnderWay
    <3>3. PICK answer \in Answers, q \in Run :
            /\ Transition(r, "CREATED", "PROVISIONING", "none", answer)
            /\ \/ answer = "true" /\ Stays(w, q, "provision")
               \/ answer # "true" /\ Leaves(w, q, answer = "raised")
      BY <1>1, <2>1, <3>2, BeginDoes
    <3>4. /\ \A s \in ProjectIds \ {r} : records'[s] = records[s]
          /\ records' = records \/ Expected(r, "CREATED")
      BY <1>1, <3>3, TransitionWrites DEF ProjectStatus
    <3>5. runs' = [runs EXCEPT ![w] = q] /\ runs'[w] = q
      BY <1>1, <3>3 DEF Stays, Leaves, TypeInv
    <3>6. r = p /\ Expected(p, "CREATED")
      <4>1. ~(Expected(p, "PROVISIONING")' => Expected(p, "PROVISIONING"))
        <5>1. ~AtWork(w)
          BY <3>1 DEF AtWork
        <5> QED
          BY <1>1, <3>1, <3>5, <5>1, OthersDoNotStick
      <4> QED
        BY <3>4, <4>1 DEF Expected
    <3>7. q.pc # "provision"
      <4>1. CASE Stays(w, q, "provision")
        <5>1. AtWork(w)' /\ ProjectAt(w)' = p
          BY <3>1, <3>2, <3>5, <3>6, <4>1 DEF Stays, AtWork, ProjectAt
        <5> QED
          BY <1>1, <5>1 DEF Stuck, AtWork
      <4>2. CASE Leaves(w, q, answer = "raised")
        BY <4>2 DEF Leaves
      <4> QED
        BY <3>3, <4>1, <4>2
    <3> QED
      BY <3>1, <3>2, <3>5, <3>6, <3>7 DEF BeginIsUnheard
  <2>2. ASSUME NEW w \in Workers, Complete(w) \/ Fail(w) PROVE WorkIsLost(w, p)
    <3>1. runs[w].pc \in {"complete", "fail"} /\ UNCHANGED stream
      BY <1>1, <2>2, CompleteDoes, FailDoes
    <3>2. PICK r \in ProjectIds : r = ProjectAt(w)
      BY <1>1, <3>1, UnderWay
    <3>3. PICK got \in Successes : got = runs[w].got
      BY <1>1, <3>1, UnderWay DEF Run
    <3>4. PICK answer \in Answers, q \in Run :
            /\ \/ Transition(r, "PROVISIONING", "READY", got, answer)
               \/ Transition(r, "PROVISIONING", "FAILED", "failureReason", answer)
            /\ Leaves(w, q, answer = "raised")
      BY <1>1, <2>2, <3>2, <3>3, CompleteDoes, FailDoes
    <3>5. /\ \A s \in ProjectIds \ {r} : records'[s] = records[s]
          /\ records' = records \/ records'[r].status # "PROVISIONING"
          /\ answer = "false" => ~Expected(r, "PROVISIONING")'
          /\ answer = "true" => ~Expected(r, "PROVISIONING")'
      <4>1. CASE Transition(r, "PROVISIONING", "READY", got, answer)
        BY <1>1, <4>1, TransitionWrites DEF ProjectStatus, Successes, Expected
      <4>2. CASE Transition(r, "PROVISIONING", "FAILED", "failureReason", answer)
        BY <1>1, <4>2, TransitionWrites DEF ProjectStatus, Expected
      <4> QED
        BY <3>4, <4>1, <4>2
    <3>6. /\ runs' = [runs EXCEPT ![w] = q] /\ runs'[w] = q
          /\ answer = "raised" => runs[w].at \in q.failed
      BY <1>1, <3>4 DEF Leaves, TypeInv
    <3>7. Expected(p, "PROVISIONING")' => Expected(p, "PROVISIONING")
      BY <3>5 DEF Expected
    <3>8. r = p
      BY <1>1, <3>1, <3>2, <3>6, <3>7, OthersDoNotStick
    <3>9. answer = "raised"
      BY <1>1, <3>5, <3>8 DEF Stuck, Answers
    <3> QED
      BY <3>1, <3>2, <3>6, <3>8, <3>9 DEF WorkIsLost, AtWork
  <2>3. ASSUME NEW w \in Workers, Provision(w) PROVE FALSE
    <3>1. runs[w].pc = "provision" /\ UNCHANGED <<records, stream>>
      BY <1>1, <2>3, ProvisionDoes
    <3>2. PICK q \in Run : Stays(w, q, "fail") \/ Stays(w, q, "complete")
      BY <1>1, <2>3, ProvisionDoes
    <3>3. runs' = [runs EXCEPT ![w] = q] /\ q.pc \in {"fail", "complete"} /\ q.at = runs[w].at
      BY <3>2 DEF Stays
    <3>4. \A v \in Workers :
            runs'[v] = (IF v = w THEN q ELSE runs[v]) /\ ProjectAt(v)' = ProjectAt(v)
      BY <1>1, <3>1, <3>3 DEF TypeInv, ProjectAt
    <3>5. \A v \in Workers : AtWork(v) => AtWork(v)'
      BY <3>3, <3>4 DEF AtWork
    <3>6. Expected(p, "PROVISIONING")' = Expected(p, "PROVISIONING")
      BY <3>1 DEF Expected
    <3> QED
      BY <1>1, <3>4, <3>5, <3>6 DEF Stuck, AtWork
  <2>4. ASSUME NEW w \in Workers, Respond(w) \/ Crash(w) PROVE WorkIsLost(w, p)
    <3>1. runs' = [runs EXCEPT ![w] = Idle] /\ UNCHANGED <<records, stream>>
      BY <1>1, <2>4, RespondDoes, CrashDoes
    <3>2. Idle \in Run /\ Idle.pc = "idle"
      BY DEF Idle, Run, Successes
    <3>3. runs'[w].pc = "idle"
      BY <1>1, <3>1, <3>2 DEF TypeInv
    <3>4. Expected(p, "PROVISIONING")' => Expected(p, "PROVISIONING")
      BY <3>1 DEF Expected
    <3>5. AtWork(w) /\ ProjectAt(w) = p
      BY <1>1, <3>1, <3>2, <3>4, OthersDoNotStick
    <3> QED
      BY <3>3, <3>5 DEF WorkIsLost
  <2>5. ASSUME NEW w \in Workers, Deliver(w) PROVE FALSE
    <3>1. runs[w].pc = "idle" /\ UNCHANGED <<records, stream>>
      BY <1>1, <2>5, DeliverDoes
    <3>2. PICK q \in Run : runs' = [runs EXCEPT ![w] = q]
      BY <1>1, <2>5, DeliverDoes
    <3>3. ~AtWork(w) /\ (Expected(p, "PROVISIONING")' => Expected(p, "PROVISIONING"))
      BY <3>1 DEF AtWork, Expected
    <3> QED
      BY <1>1, <3>1, <3>2, <3>3, OthersDoNotStick
  <2>6. ASSUME NEW r \in ProjectIds, Create(r) \/ Delete(r) PROVE FALSE
    <3>1. /\ UNCHANGED runs /\ \A i \in Positions : stream'[i] = stream[i]
          /\ \A s \in ProjectIds \ {r} : records'[s] = records[s]
          /\ ~Expected(r, "PROVISIONING")'
      BY <1>1, <2>6, CreateDoes, DeleteDoes DEF Expected
    <3>2. Expected(p, "PROVISIONING")' => Expected(p, "PROVISIONING")
      BY <3>1 DEF Expected
    <3>3. \A v \in Workers : AtWork(v) => AtWork(v)' /\ ProjectAt(v)' = ProjectAt(v)
      BY <1>1, <3>1, UnderWay DEF AtWork, ProjectAt
    <3> QED
      BY <1>1, <3>2, <3>3 DEF Stuck, AtWork
  <2>7. ASSUME UNCHANGED <<records, stream, runs>> PROVE FALSE
    BY <1>1, <2>7 DEF Stuck, Expected, ProjectAt
  <2>8. CASE UNCHANGED vars
    BY <2>7, <2>8 DEF vars
  <2>9. ASSUME NEW w \in Workers, Abandon(w) PROVE FALSE
    BY <2>7, <2>9 DEF Abandon
  <2>10. ASSUME NEW u \in late, Arrive(u) PROVE BeginIsLate(p)
    <3>1. /\ UNCHANGED <<stream, runs>> /\ late' = late \ {u} /\ u \in SentUpdates
          /\ \A r \in ProjectIds \ {u.project} : records'[r] = records[r]
          /\ records' = records \/ records'[u.project].status = u.target
      BY <1>1, <2>10, ArriveDoes
    <3>2. Expected(p, "PROVISIONING")' /\ ~Expected(p, "PROVISIONING")
      BY <1>1, <3>1 DEF Stuck, ProjectAt
    <3>3. u.project = p /\ u.target = "PROVISIONING"
      BY <3>1, <3>2 DEF Expected
    <3>4. u = Update(p, "CREATED", "PROVISIONING", "none")
      BY <3>1, <3>3, SentUpdate
    <3> QED
      BY <3>1, <3>4 DEF BeginIsLate
  <2> QED
    BY <1>1, <2>1, <2>2, <2>3, <2>4, <2>5, <2>6, <2>8, <2>9, <2>10, ZenonT(60)
       DEF Next, Consumer, Api, Invocation
<1>2. TypeInv /\ [Next]_vars =>
         [\A p \in ProjectIds :
             (~Stuck(p) /\ Stuck(p)') =>
                 \/ \E w \in Workers :
                       /\ runs[w].pc \in {"provision", "complete", "fail"}
                       /\ ProjectAt(w) = p
                       /\ \/ runs'[w].pc = "idle"
                          \/ runs[w].pc # "provision" /\ runs[w].at \in runs'[w].failed
                 \/ \E w \in Workers :
                       /\ runs[w].pc = "begin" /\ ProjectAt(w) = p
                       /\ Expected(p, "CREATED") /\ runs'[w].pc # "provision"
                 \/ Update(p, "CREATED", "PROVISIONING", "none") \in late \ late']_vars
  BY <1>1 DEF WorkIsLost, BeginIsUnheard, BeginIsLate, AtWork
<1> QED
  BY <1>2, TypeInit, TypeStep, PTL DEF Spec, StuckOnlyByFailure

-----------------------------------------------------------------------------
(***************************************************************************)
(* No stream record is lost.                                               *)
(***************************************************************************)

\* A record that is handled stays handled.
LEMMA HandledStaysHandled ==
    ASSUME TypeInv, [Next]_vars, NEW i \in Positions, ~Expected(stream[i], "CREATED")
    PROVE  i \in Positions' /\ stream'[i] = stream[i] /\ ~Expected(stream[i], "CREATED")'
<1>1. PICK p \in ProjectIds : p = stream[i]
  BY DEF TypeInv, TypeOK
<1>2. /\ RecordStep(p)
      /\ i \in Positions' /\ stream'[i] = stream[i]
  BY RecordSteps
<1>3. ~Expected(p, "CREATED")
  BY <1>1
<1>4. ~Expected(p, "CREATED")'
  BY <1>1, <1>2, <1>3 DEF RecordStep, Expected, StatusSteps
<1>5. ~Expected(stream[i], "CREATED")'
  BY <1>1, <1>2, <1>4 DEF Expected
<1> QED
  BY <1>2, <1>5

\* The mapping moves past records that were handled, or hands them to the
\* dead-letter queue.
LEMMA MovesPastHandled ==
    ASSUME TypeInv, NothingSkipped, NEW w \in Workers, esm.worker = w,
           UNCHANGED <<records, stream>>,
           \/ /\ Advance /\ dlq' = dlq
              /\ \A i \in Positions :
                    (esm.next <= i /\ i <= esm.last) => ~Expected(stream[i], "CREATED")
           \/ \E from \in esm.next .. esm.last :
                 /\ RetryOrDiscard(from)
                 /\ \A i \in Positions :
                       (esm.next <= i /\ i < from) => ~Expected(stream[i], "CREATED")
    PROVE  NothingSkipped' /\ esm'.worker = Absent
<1>1. esm.next \in Nat /\ esm.last \in Nat /\ Len(stream) \in Nat
  BY Window, UnderWay
<1>2. \A i \in Positions : (i < esm.next /\ i \notin dlq) => ~Expected(stream[i], "CREATED")
  BY DEF NothingSkipped
<1>3. SUFFICES
        /\ esm'.worker = Absent
        /\ \A i \in Positions : (i < esm'.next /\ i \notin dlq') => ~Expected(stream[i], "CREATED")
  <2>1. \A i \in Positions : ~Expected(stream[i], "CREATED") => ~Expected(stream[i], "CREATED")'
    BY DEF Expected
  <2> QED
    BY <2>1 DEF NothingSkipped
<1>4. CASE /\ Advance /\ dlq' = dlq
           /\ \A i \in Positions :
                 (esm.next <= i /\ i <= esm.last) => ~Expected(stream[i], "CREATED")
  <2>1. esm'.next = esm.last + 1 /\ esm'.worker = Absent
    BY <1>4 DEF Advance
  <2> QED
    BY <1>1, <1>2, <1>4, <2>1
<1>5. ASSUME NEW from \in esm.next .. esm.last, RetryOrDiscard(from),
             \A i \in Positions :
                (esm.next <= i /\ i < from) => ~Expected(stream[i], "CREATED")
      PROVE  /\ esm'.worker = Absent
             /\ \A i \in Positions :
                   (i < esm'.next /\ i \notin dlq') => ~Expected(stream[i], "CREATED")
  <2>1. CASE esm'.next = from /\ esm'.worker = Absent /\ dlq' = dlq
    BY <1>1, <1>2, <1>5, <2>1
  <2>2. CASE Advance /\ dlq' = dlq \cup (from .. esm.last)
    <3>1. esm'.next = esm.last + 1 /\ esm'.worker = Absent
      BY <2>2 DEF Advance
    <3>2. ASSUME NEW i \in Positions, i < esm'.next, i \notin dlq'
          PROVE  i < from /\ i \notin dlq
      BY <1>1, <2>2, <3>1, <3>2
    <3> QED
      BY <1>1, <1>2, <1>5, <3>1, <3>2
  <2> QED
    BY <1>5, <2>1, <2>2 DEF RetryOrDiscard
<1> QED
  BY <1>4, <1>5

\* The steps that leave the mapping alone leave its account alone, but for the
\* record the invocation leaves.
LEMMA AccountIsKept ==
    ASSUME TypeInv, TypeInv', Delivery, [Next]_vars, NEW w \in Workers, NEW q \in Run,
           runs' = [runs EXCEPT ![w] = q], UNCHANGED <<stream, esm, dlq>>,
           runs[w].pc \notin {"idle", "respond"},
           \/ Stays(w, q, q.pc) /\ q.pc # "respond"
           \/ \E raised \in BOOLEAN :
                 /\ Leaves(w, q, raised)
                 /\ ~raised => \A p \in ProjectIds :
                                  p = ProjectAt(w) => ~Expected(p, "CREATED")'
    PROVE  Delivery'
<1>1. /\ runs'[w] = q /\ \A v \in Workers : v # w => runs'[v] = runs[v]
  BY DEF TypeInv
<1>2. \A i \in Positions : ~Expected(stream[i], "CREATED") => ~Expected(stream[i], "CREATED")'
  BY HandledStaysHandled
<1>3. NothingSkipped'
  BY <1>2 DEF Delivery, NothingSkipped
<1>4. ASSUME NEW v \in Workers, esm.worker = v
      PROVE  /\ runs'[v].pc = "respond" => runs'[v].at = runs'[v].last
             /\ \A i \in DoneWith(v)' \ runs'[v].failed : ~Expected(stream[i], "CREATED")'
  <2>1. /\ runs[v].pc = "respond" => runs[v].at = runs[v].last
        /\ \A i \in DoneWith(v) \ runs[v].failed : ~Expected(stream[i], "CREATED")
    BY <1>4 DEF Delivery, WindowIsAccounted
  <2>2. CASE v # w
    <3>1. DoneWith(v)' = DoneWith(v)
      BY <1>1, <2>2 DEF DoneWith
    <3>2. DoneWith(v) \subseteq Positions
      BY DEF DoneWith
    <3> QED
      BY <1>1, <1>2, <2>1, <2>2, <3>1, <3>2
  <2>3. CASE v = w /\ Stays(w, q, q.pc) /\ q.pc # "respond"
    <3>1. q.at = runs[w].at /\ q.failed = runs[w].failed /\ q.pc # "respond"
      BY <2>3 DEF Stays
    <3>2. DoneWith(w)' \subseteq DoneWith(w) /\ DoneWith(w) \subseteq Positions
      BY <1>1, <3>1 DEF DoneWith
    <3> QED
      BY <1>1, <1>2, <2>1, <2>3, <3>1, <3>2
  <2>4. ASSUME v = w, NEW raised \in BOOLEAN, Leaves(w, q, raised),
               ~raised => \A p \in ProjectIds : p = ProjectAt(w) => ~Expected(p, "CREATED")'
        PROVE  /\ runs'[v].pc = "respond" => runs'[v].at = runs'[v].last
               /\ \A i \in DoneWith(v)' \ runs'[v].failed : ~Expected(stream[i], "CREATED")'
    <3>1. /\ q.last = runs[w].last
          /\ q.failed = IF raised THEN runs[w].failed \cup {runs[w].at} ELSE runs[w].failed
          /\ \/ runs[w].at < runs[w].last /\ q.pc = "begin" /\ q.at = runs[w].at + 1
             \/ runs[w].at = runs[w].last /\ q.pc = "respond" /\ q.at = runs[w].at
      BY <2>4 DEF Leaves
    <3>2. runs[w].at \in Positions /\ Len(stream) \in Nat
      BY UnderWay
    <3>3. runs'[w].pc = "respond" => runs'[w].at = runs'[w].last
      BY <1>1, <3>1
    <3>4. ASSUME NEW i \in DoneWith(w)', i \notin runs'[w].failed
          PROVE  ~Expected(stream[i], "CREATED")'
      <4>1. /\ i \in Positions /\ esm.next <= i /\ i <= q.at
            /\ i = q.at => q.pc = "respond"
            /\ i \notin q.failed
        BY <1>1, <3>4 DEF DoneWith
      <4>2. i <= runs[w].at
        BY <3>1, <3>2, <4>1
      <4>3. CASE i = runs[w].at
        <5>1. ~raised
          BY <3>1, <4>1, <4>3
        <5>2. PICK p \in ProjectIds : p = ProjectAt(w)
          BY UnderWay
        <5>3. ~Expected(p, "CREATED")'
          BY <2>4, <5>1, <5>2
        <5>4. p = stream[i] /\ stream' = stream
          BY <4>3, <5>2 DEF ProjectAt
        <5> QED
          BY <5>3, <5>4 DEF Expected
      <4>4. CASE i < runs[w].at
        <5>1. i \in DoneWith(w)
          BY <3>2, <4>1, <4>4 DEF DoneWith
        <5>2. i \notin runs[w].failed
          BY <3>1, <4>1
        <5> QED
          BY <1>2, <2>1, <2>4, <4>1, <5>1, <5>2
      <4> QED
        BY <3>2, <4>1, <4>2, <4>3, <4>4
    <3> QED
      BY <2>4, <3>3, <3>4
  <2> QED
    BY <2>2, <2>3, <2>4
<1>5. WindowIsAccounted'
  BY <1>4 DEF WindowIsAccounted, Expected
<1> QED
  BY <1>3, <1>5 DEF Delivery

\* What an invocation makes of its record is accounted for.
LEMMA WorkIsAccounted ==
    ASSUME TypeInv, TypeInv', Provisioning, Delivery, [Next]_vars, NEW w \in Workers,
           Begin(w) \/ Provision(w) \/ Complete(w) \/ Fail(w)
    PROVE  Delivery'
<1>1. CASE Begin(w)
  <2>1. runs[w].pc = "begin" /\ UNCHANGED <<stream, esm, dlq>>
    BY <1>1, BeginDoes
  <2>2. PICK p \in ProjectIds : p = ProjectAt(w)
    BY <2>1, UnderWay
  <2>3. PICK answer \in Answers, q \in Run :
           /\ Transition(p, "CREATED", "PROVISIONING", "none", answer)
           /\ \/ answer = "true" /\ Stays(w, q, "provision")
              \/ answer # "true" /\ Leaves(w, q, answer = "raised")
    BY <1>1, <2>2, BeginDoes
  <2>4. answer = "false" => ~Expected(p, "CREATED")'
    BY <2>3, TransitionWrites DEF ProjectStatus
  <2>5. runs' = [runs EXCEPT ![w] = q]
    BY <2>3 DEF Stays, Leaves
  <2>6. CASE answer = "true"
    <3>1. Stays(w, q, q.pc) /\ q.pc # "respond"
      BY <2>3, <2>6 DEF Stays
    <3> QED
      BY <2>1, <2>5, <3>1, AccountIsKept
  <2>7. CASE answer = "false"
    <3>1. Leaves(w, q, FALSE)
      <4>1. Leaves(w, q, answer = "raised") /\ answer # "raised"
        BY <2>3, <2>7
      <4> QED
        BY <4>1 DEF Leaves
    <3>2. \A r \in ProjectIds : r = ProjectAt(w) => ~Expected(r, "CREATED")'
      BY <2>2, <2>4, <2>7
    <3> QED
      BY <2>1, <2>5, <3>1, <3>2, AccountIsKept
  <2>8. CASE answer = "raised"
    <3>1. Leaves(w, q, TRUE)
      <4>1. Leaves(w, q, answer = "raised")
        BY <2>3, <2>8
      <4> QED
        BY <2>8, <4>1 DEF Leaves
    <3> QED
      BY <2>1, <2>5, <3>1, AccountIsKept
  <2> QED
    BY <2>6, <2>7, <2>8 DEF Answers
<1>2. CASE Provision(w)
  <2>1. runs[w].pc = "provision" /\ UNCHANGED <<stream, esm, dlq>>
    BY <1>2, ProvisionDoes
  <2>2. PICK q \in Run : Stays(w, q, "fail") \/ Stays(w, q, "complete")
    BY <1>2, ProvisionDoes
  <2>3. runs' = [runs EXCEPT ![w] = q] /\ Stays(w, q, q.pc) /\ q.pc # "respond"
    BY <2>2 DEF Stays
  <2> QED
    BY <2>1, <2>3, AccountIsKept
<1>3. CASE Complete(w) \/ Fail(w)
  <2>1. runs[w].pc \in {"complete", "fail"} /\ UNCHANGED <<stream, esm, dlq>>
    BY <1>3, CompleteDoes, FailDoes
  <2>2. PICK answer \in Answers, q \in Run : Leaves(w, q, answer = "raised")
    BY <1>3, CompleteDoes, FailDoes
  <2>3. PICK raised \in BOOLEAN : raised = (answer = "raised")
    OBVIOUS
  <2>4. Leaves(w, q, raised)
    BY <2>2, <2>3
  <2>5. runs' = [runs EXCEPT ![w] = q]
    BY <2>4 DEF Leaves
  <2>6. ASSUME NEW p \in ProjectIds, p = ProjectAt(w) PROVE ~Expected(p, "CREATED")'
    <3>1. runs[w].at \in Positions /\ p = stream[runs[w].at]
      BY <2>1, <2>6, UnderWay DEF ProjectAt
    <3>2. ~Expected(stream[runs[w].at], "CREATED")
      BY <2>1, <2>6, <3>1 DEF Provisioning, KnowsItsProject, AtWork
    <3>3. PICK i \in Positions : i = runs[w].at
      BY <3>1
    <3>4. stream'[i] = stream[i] /\ ~Expected(stream[i], "CREATED")'
      BY <3>2, <3>3, HandledStaysHandled
    <3> QED
      BY <3>1, <3>3, <3>4 DEF Expected
  <2> QED
    BY <2>1, <2>4, <2>5, <2>6, AccountIsKept
<1> QED
  BY <1>1, <1>2, <1>3

\* The mapping takes up again where the account of the invocation ends.
LEMMA RespondKeepsDelivery ==
    ASSUME TypeInv, TypeInv', Delivery, [Next]_vars, NEW w \in Workers, Respond(w)
    PROVE  Delivery'
<1>1. /\ runs[w].pc = "respond" /\ runs' = [runs EXCEPT ![w] = Idle]
      /\ UNCHANGED <<records, stream>>
  BY RespondDoes
<1>2. \A v \in Workers : v # w => runs'[v] = runs[v]
  BY <1>1 DEF TypeInv
<1>3. CASE esm.worker # w /\ UNCHANGED <<esm, dlq>>
  <2>1. NothingSkipped'
    BY <1>1, <1>3 DEF Delivery, NothingSkipped, Expected
  <2>2. WindowIsAccounted'
    BY <1>1, <1>2, <1>3 DEF Delivery, WindowIsAccounted, DoneWith, Expected
  <2> QED
    BY <2>1, <2>2 DEF Delivery
<1>4. CASE esm.worker = w
  <2>1. /\ runs[w].at = esm.last /\ esm.next \in Nat /\ esm.last \in Nat
        /\ runs[w].failed \subseteq esm.next .. esm.last
        /\ \A i \in DoneWith(w) \ runs[w].failed : ~Expected(stream[i], "CREATED")
    BY <1>1, <1>4, Window DEF Delivery, WindowIsAccounted
  <2>2. \A i \in Positions :
           (esm.next <= i /\ i <= esm.last /\ i \notin runs[w].failed) =>
               ~Expected(stream[i], "CREATED")
    BY <1>1, <2>1 DEF DoneWith
  <2>3. NothingSkipped' /\ esm'.worker = Absent
    <3>1. CASE runs[w].failed = {} /\ Advance /\ dlq' = dlq
      BY <1>1, <1>4, <2>2, <3>1, MovesPastHandled DEF Delivery
    <3>2. CASE runs[w].failed # {} /\ RetryOrDiscard(FirstFailed(runs[w]))
      <4>1. PICK from \in runs[w].failed :
               from = FirstFailed(runs[w]) /\ \A j \in runs[w].failed : from <= j
        BY <3>2, FirstFailedIsFirst
      <4>2. from \in esm.next .. esm.last /\ from \in Nat
        BY <2>1, <4>1
      <4>3. \A i \in Positions :
               (esm.next <= i /\ i < from) => ~Expected(stream[i], "CREATED")
        <5> SUFFICES ASSUME NEW i \in Positions, esm.next <= i, i < from
                     PROVE  ~Expected(stream[i], "CREATED")
          OBVIOUS
        <5>1. Len(stream) \in Nat
          BY <1>1, UnderWay
        <5>2. i \notin runs[w].failed
          BY <4>1, <4>2, <5>1
        <5>3. i <= esm.last
          BY <2>1, <4>2, <5>1
        <5> QED
          BY <2>2, <5>2, <5>3
      <4>4. RetryOrDiscard(from)
        BY <3>2, <4>1
      <4> QED
        BY <1>1, <1>4, <4>2, <4>3, <4>4, MovesPastHandled DEF Delivery
    <3> QED
      BY <1>4, <3>1, <3>2 DEF Respond
  <2>4. WindowIsAccounted'
    BY <2>3, NobodyIsNoWorker DEF WindowIsAccounted
  <2> QED
    BY <2>3, <2>4 DEF Delivery
<1> QED
  BY <1>3, <1>4 DEF Respond

\* Given up, it starts the window over.
LEMMA GivingUpKeepsDelivery ==
    ASSUME TypeInv, TypeInv', Delivery, [Next]_vars, NEW w \in Workers, Crash(w) \/ Abandon(w)
    PROVE  Delivery'
<1>1. /\ UNCHANGED <<records, stream>>
      /\ \A v \in Workers : v # w => runs'[v] = runs[v]
      /\ \/ esm.worker # w /\ UNCHANGED <<esm, dlq>>
         \/ esm.worker = w /\ RetryOrDiscard(esm.next)
  BY CrashDoes DEF Abandon, TypeInv
<1>2. CASE esm.worker # w /\ UNCHANGED <<esm, dlq>>
  <2>1. NothingSkipped'
    BY <1>1, <1>2 DEF Delivery, NothingSkipped, Expected
  <2>2. WindowIsAccounted'
    BY <1>1, <1>2 DEF Delivery, WindowIsAccounted, DoneWith, Expected
  <2> QED
    BY <2>1, <2>2 DEF Delivery
<1>3. CASE esm.worker = w /\ RetryOrDiscard(esm.next)
  <2>1. PICK from \in esm.next .. esm.last : from = esm.next
    BY <1>3, Window
  <2>2. /\ RetryOrDiscard(from) /\ esm.next \in Nat /\ Len(stream) \in Nat
    BY <1>3, <2>1, Window, UnderWay
  <2>3. \A i \in Positions : (esm.next <= i /\ i < from) => ~Expected(stream[i], "CREATED")
    BY <2>1, <2>2
  <2>4. NothingSkipped' /\ esm'.worker = Absent
    BY <1>1, <1>3, <2>2, <2>3, MovesPastHandled DEF Delivery
  <2>5. WindowIsAccounted'
    BY <2>4, NobodyIsNoWorker DEF WindowIsAccounted
  <2> QED
    BY <2>4, <2>5 DEF Delivery
<1> QED
  BY <1>1, <1>2, <1>3

\* A delivery starts an account, with nothing in it.
LEMMA DeliverKeepsDelivery ==
    ASSUME TypeInv, TypeInv', Delivery, [Next]_vars, NEW w \in Workers, Deliver(w)
    PROVE  Delivery'
<1>1. /\ esm.worker = Absent /\ UNCHANGED <<records, stream, dlq>>
  BY DeliverDoes
<1>2. PICK q \in Run :
         /\ runs' = [runs EXCEPT ![w] = q]
         /\ q.pc = "begin" /\ q.at = esm.next
         /\ esm' = [esm EXCEPT !.last = q.last, !.worker = w]
  BY DeliverDoes
<1>3. runs'[w] = q /\ esm.next \in Nat /\ Len(stream) \in Nat
  BY <1>2 DEF TypeInv, TypeOK
<1>4. esm'.next = esm.next /\ esm'.worker = w
  BY <1>2 DEF TypeInv, TypeOK
<1>5. NothingSkipped'
  BY <1>1, <1>4 DEF Delivery, NothingSkipped, Expected
<1>6. DoneWith(w)' = {}
  BY <1>1, <1>2, <1>3, <1>4 DEF DoneWith
<1>7. WindowIsAccounted'
  BY <1>2, <1>3, <1>4, <1>6 DEF WindowIsAccounted
<1> QED
  BY <1>5, <1>7 DEF Delivery

\* The API adds records behind the window, or handles one by deleting it.
LEMMA ApiKeepsDelivery ==
    ASSUME TypeInv, TypeInv', Delivery, [Next]_vars, NEW p \in ProjectIds, Create(p) \/ Delete(p)
    PROVE  Delivery'
<1>1. /\ UNCHANGED <<esm, dlq, runs>>
      /\ Len(stream) \in Nat /\ Len(stream') \in Nat /\ Len(stream) <= Len(stream')
  <2>1. CASE Create(p)
    BY <2>1, CreateDoes
  <2>2. CASE Delete(p)
    BY <2>2, DeleteDoes DEF TypeInv, TypeOK
  <2> QED
    BY <2>1, <2>2
<1>2. \A i \in Positions :
         ~Expected(stream[i], "CREATED") => (~Expected(stream[i], "CREATED"))'
  <2> SUFFICES ASSUME NEW i \in Positions, ~Expected(stream[i], "CREATED")
               PROVE  (~Expected(stream[i], "CREATED"))'
    OBVIOUS
  <2> QED
    BY HandledStaysHandled
<1>3. NothingSkipped'
  <2> SUFFICES ASSUME NEW i \in Positions', i < esm.next, i \notin dlq
               PROVE  (~Expected(stream[i], "CREATED"))'
    BY <1>1 DEF NothingSkipped
  <2>1. esm.next \in Nat /\ esm.next <= Len(stream) + 1
    BY <1>1 DEF TypeInv, TypeOK
  <2>2. i \in Positions
    BY <1>1, <2>1
  <2> QED
    BY <1>2, <2>2 DEF Delivery, NothingSkipped
<1>4. WindowIsAccounted'
  <2> SUFFICES ASSUME NEW v \in Workers, esm.worker = v
               PROVE  (/\ runs[v].pc = "respond" => runs[v].at = runs[v].last
                       /\ \A i \in DoneWith(v) \ runs[v].failed : ~Expected(stream[i], "CREATED"))'
    BY <1>1 DEF WindowIsAccounted
  <2>1. runs[v].at \in Nat /\ runs[v].at <= Len(stream)
    BY Window
  <2>2. DoneWith(v)' = DoneWith(v) /\ DoneWith(v) \subseteq Positions
    BY <1>1, <2>1 DEF DoneWith
  <2>3. \A i \in DoneWith(v)' \ runs'[v].failed : (~Expected(stream[i], "CREATED"))'
    BY <1>1, <1>2, <2>2 DEF Delivery, WindowIsAccounted
  <2> QED
    BY <1>1, <2>3 DEF Delivery, WindowIsAccounted
<1> QED
  BY <1>3, <1>4 DEF Delivery

\* A late update can only take a record out of CREATED.
LEMMA ArriveKeepsDelivery ==
    ASSUME TypeInv, TypeInv', Delivery, [Next]_vars, NEW u \in late, Arrive(u)
    PROVE  Delivery'
<1>1. UNCHANGED <<stream, esm, dlq, runs>>
  BY DEF Arrive
<1>2. \A i \in Positions :
         ~Expected(stream[i], "CREATED") => (~Expected(stream[i], "CREATED"))'
  <2> SUFFICES ASSUME NEW i \in Positions, ~Expected(stream[i], "CREATED")
               PROVE  (~Expected(stream[i], "CREATED"))'
    OBVIOUS
  <2> QED
    BY HandledStaysHandled
<1>3. NothingSkipped'
  BY <1>1, <1>2 DEF Delivery, NothingSkipped
<1>4. \A v \in Workers : DoneWith(v)' = DoneWith(v) /\ DoneWith(v) \subseteq Positions
  BY <1>1 DEF DoneWith
<1>5. WindowIsAccounted'
  BY <1>1, <1>2, <1>4 DEF Delivery, WindowIsAccounted
<1> QED
  BY <1>3, <1>5 DEF Delivery

DeliveryInv == TypeInv /\ Provisioning /\ Delivery

\* Every step keeps it.
LEMMA DeliveryStep == DeliveryInv /\ [Next]_vars => DeliveryInv'
<1> SUFFICES ASSUME TypeInv, Provisioning, Delivery, [Next]_vars PROVE DeliveryInv'
  BY DEF DeliveryInv
<1>1. TypeInv' /\ Provisioning'
  BY TypeStep, ProvisioningStep
<1>2. ASSUME NEW w \in Workers, Invocation(w) PROVE Delivery'
  BY <1>1, <1>2, WorkIsAccounted, RespondKeepsDelivery DEF Invocation
<1>3. ASSUME UNCHANGED vars PROVE Delivery'
  BY <1>3 DEF vars, Delivery, NothingSkipped, WindowIsAccounted, DoneWith, Expected
<1>4. Delivery'
  BY <1>1, <1>2, <1>3, GivingUpKeepsDelivery, DeliverKeepsDelivery, ApiKeepsDelivery,
     ArriveKeepsDelivery DEF Next, Consumer, Api
<1> QED
  BY <1>1, <1>4 DEF DeliveryInv

\* Whatever fails, dies or is delivered twice: every stream record the mapping
\* has moved past was handled or is in the dead-letter queue: NothingSkipped.
THEOREM SkipsNothing == Spec => []NothingSkipped
<1>1. Init => DeliveryInv
  <2>1. Init => Delivery
    BY NobodyIsNoWorker DEF Init, Delivery, NothingSkipped, WindowIsAccounted
  <2> QED
    BY <2>1, TypeInit, ProvisioningInit DEF DeliveryInv
<1>2. DeliveryInv => NothingSkipped
  BY DEF DeliveryInv, Delivery
<1> QED
  BY <1>1, <1>2, DeliveryStep, PTL DEF Spec
=============================================================================
