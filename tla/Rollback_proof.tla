---------------------------- MODULE Rollback_proof ----------------------------
(***************************************************************************)
(* What runs of the rollback script do to the alias, for any number of     *)
(* runs and any number of versions.                                        *)
(***************************************************************************)
EXTENDS Rollback, TLAPS

Scripts == [pc : {"idle", "getAlias", "listVersions", "confirm", "update", "verify", "exited"},
            explicit : Nat, dry : BOOLEAN, current : Nat, target : Nat, moved : BOOLEAN,
            exit : {"none", "usage", "nothingToDo", "aborted", "success", "failure"}]

\* The alias and what the runs know of it are published versions, or none.
TypeInv ==
    /\ published \in Nat
    /\ alias \in 0 .. published
    /\ applying \in BOOLEAN
    /\ script \in [Operators -> Scripts]
    /\ \A o \in Operators : script[o].current <= published /\ script[o].target <= published

\* A run with a target has picked it; one that has moved the alias is done
\* with it.
Picked(o) ==
    /\ script[o].pc \in {"confirm", "update", "verify"} => script[o].target # NoVersion
    /\ script[o].moved =>
          script[o].pc \in {"verify", "exited"} /\ script[o].target # NoVersion
    /\ script[o].pc \in {"idle", "getAlias", "listVersions"} => script[o].target = NoVersion

\* Since a run read the alias it has moved back only by another run.
BackByAnother(o) ==
    script[o].pc \in {"listVersions", "confirm", "update"} =>
        \/ alias >= script[o].current
        \/ \E q \in Operators \ {o} : script[q].moved /\ script[q].target = alias

Sound ==
    /\ NothingInBetween
    /\ \A o \in Operators : Picked(o) /\ BackByAnother(o)

Inv == TypeInv /\ Sound

-----------------------------------------------------------------------------
\* The default target is the version just below the current one.
LEMMA TargetIs ==
    ASSUME TypeInv, NEW o \in Operators
    PROVE  /\ Target(script[o]) \in 0 .. published
           /\ (Target(script[o]) # NoVersion /\ script[o].explicit = NoVersion) =>
                 Target(script[o]) = script[o].current - 1 /\ script[o].current >= 1
<1> DEFINE run == script[o]
<1>1. run \in Scripts /\ published \in Nat /\ run.current \in 0 .. published
  BY DEF TypeInv, Scripts
<1>2. ASSUME run.current # Latest, Previous(run.current) # {}
      PROVE  Max(Previous(run.current)) = run.current - 1
  <2>1. Previous(run.current) = 1 .. (run.current - 1)
    BY <1>1 DEF Previous, Versions
  <2>2. run.current - 1 \in Previous(run.current)
    BY <1>1, <1>2, <2>1
  <2>3. \A v \in Previous(run.current) : run.current - 1 >= v
    BY <1>1, <2>1
  <2> QED
    BY <1>1, <2>1, <2>2, <2>3 DEF Max
<1>3. CASE run.explicit # NoVersion
  BY <1>1, <1>3 DEF Target, NoVersion, Versions
<1>4. CASE run.explicit = NoVersion
  BY <1>1, <1>2, <1>4 DEF Target, NoVersion, Latest
<1> QED
  BY <1>3, <1>4

\* At first nobody knows anything.
LEMMA TypeInit == Init => TypeInv
<1> SUFFICES ASSUME Init PROVE TypeInv
  OBVIOUS
<1>1. Run \in Scripts /\ Run.current = 0 /\ Run.target = 0
  BY DEF Run, Scripts, NoVersion, Latest
<1>2. published \in Nat /\ alias \in 0 .. published
  BY DEF Init
<1>5. applying \in BOOLEAN
  BY Zenon DEF Init
<1>3. \A o \in Operators : script[o] = Run
  BY DEF Init
<1>4. script \in [Operators -> Scripts]
  BY <1>1 DEF Init
<1> QED
  BY <1>1, <1>2, <1>3, <1>4, <1>5 DEF TypeInv

-----------------------------------------------------------------------------
(***************************************************************************)
(* What each action of a run does: the run becomes q, the others stay.     *)
(***************************************************************************)
Becomes(o, q, pc) ==
    /\ q \in Scripts /\ q.pc = pc /\ q.explicit = script[o].explicit
    /\ script' = [script EXCEPT ![o] = q]

SameTarget(o, q) == q.target = script[o].target /\ q.current = script[o].current

\* A run that exits changes nothing else of its own.
LEMMA ExitDoes ==
    ASSUME TypeInv, NEW o \in Operators,
           NEW status \in {"usage", "nothingToDo", "aborted", "success", "failure"},
           Exit(o, status)
    PROVE  \E q : Becomes(o, q, "exited") /\ SameTarget(o, q) /\ q.moved = script[o].moved
<1> DEFINE q == [script[o] EXCEPT !.pc = "exited", !.exit = status]
<1>1. script[o] \in Scripts
  BY DEF TypeInv
<1>2. q \in Scripts /\ q.pc = "exited" /\ q.explicit = script[o].explicit
      /\ q.target = script[o].target /\ q.current = script[o].current
      /\ q.moved = script[o].moved
  BY <1>1 DEF Scripts
<1>3. script' = [script EXCEPT ![o] = q]
  BY DEF Exit, TypeInv
<1> HIDE DEF q
<1> QED
  BY <1>2, <1>3 DEF Becomes, SameTarget

\* A run that starts has its arguments, and nothing else yet.
LEMMA StartDoes ==
    ASSUME TypeInv, NEW o \in Operators, Start(o)
    PROVE  /\ script[o].pc = "idle" /\ UNCHANGED <<published, alias, applying>>
           /\ \E q : /\ q \in Scripts /\ script' = [script EXCEPT ![o] = q]
                     /\ q.pc \in {"getAlias", "exited"} /\ SameTarget(o, q)
                     /\ q.moved = script[o].moved
<1>1. CASE Exit(o, "usage")
  BY <1>1, ExitDoes DEF Start, Becomes
<1>2. ASSUME NEW explicit \in 0 .. MaxVersion, NEW dry \in BOOLEAN,
             script' = [script EXCEPT ![o].pc = "getAlias", ![o].explicit = explicit,
                          ![o].dry = dry]
      PROVE  \E q : /\ q \in Scripts /\ script' = [script EXCEPT ![o] = q]
                    /\ q.pc = "getAlias" /\ SameTarget(o, q) /\ q.moved = script[o].moved
  <2> DEFINE q == [script[o] EXCEPT !.pc = "getAlias", !.explicit = explicit, !.dry = dry]
  <2>1. script[o] \in Scripts /\ explicit \in Nat
    BY MaxVersionType DEF TypeInv
  <2>2. q \in Scripts /\ q.pc = "getAlias" /\ q.target = script[o].target
        /\ q.current = script[o].current /\ q.moved = script[o].moved
    BY <2>1 DEF Scripts
  <2>3. script' = [script EXCEPT ![o] = q]
    BY <1>2 DEF TypeInv
  <2> HIDE DEF q
  <2> QED
    BY <2>2, <2>3 DEF SameTarget
<1> QED
  BY <1>1, <1>2 DEF Start

\* A run that reads the alias notes where it is.
LEMMA GetAliasDoes ==
    ASSUME TypeInv, NEW o \in Operators, GetAlias(o)
    PROVE  /\ script[o].pc = "getAlias" /\ UNCHANGED <<published, alias, applying>>
           /\ \E q : /\ Becomes(o, q, "listVersions") /\ q.current = alias
                     /\ q.target = script[o].target /\ q.moved = script[o].moved
<1> DEFINE q == [script[o] EXCEPT !.pc = "listVersions", !.current = alias]
<1>1. script[o] \in Scripts /\ alias \in Nat
  BY DEF TypeInv
<1>2. q \in Scripts /\ q.pc = "listVersions" /\ q.explicit = script[o].explicit
      /\ q.target = script[o].target /\ q.current = alias /\ q.moved = script[o].moved
  BY <1>1 DEF Scripts
<1>3. script' = [script EXCEPT ![o] = q]
  BY DEF GetAlias, TypeInv
<1> HIDE DEF q
<1> QED
  BY <1>2, <1>3 DEF Becomes, GetAlias

\* A run that lists the versions picks its target, or exits.
LEMMA ListVersionsDoes ==
    ASSUME TypeInv, NEW o \in Operators, ListVersions(o)
    PROVE  /\ script[o].pc = "listVersions" /\ UNCHANGED <<published, alias, applying>>
           /\ \E q : \/ /\ Becomes(o, q, "exited") /\ SameTarget(o, q)
                        /\ q.moved = script[o].moved
                     \/ /\ Becomes(o, q, "confirm") /\ q.target = Target(script[o])
                        /\ q.target # NoVersion /\ q.current = script[o].current
                        /\ q.moved = script[o].moved
<1>1. CASE Exit(o, "nothingToDo")
  BY <1>1, ExitDoes DEF ListVersions
<1>2. CASE /\ Target(script[o]) # NoVersion
           /\ script' = [script EXCEPT ![o].pc = "confirm", ![o].target = Target(script[o])]
  <2> DEFINE q == [script[o] EXCEPT !.pc = "confirm", !.target = Target(script[o])]
  <2>1. script[o] \in Scripts /\ Target(script[o]) \in Nat
    BY TargetIs DEF TypeInv
  <2>2. q \in Scripts /\ q.pc = "confirm" /\ q.explicit = script[o].explicit
        /\ q.target = Target(script[o]) /\ q.current = script[o].current
        /\ q.moved = script[o].moved
    BY <2>1 DEF Scripts
  <2>3. script' = [script EXCEPT ![o] = q]
    BY <1>2 DEF TypeInv
  <2> HIDE DEF q
  <2> QED
    BY <1>2, <2>2, <2>3 DEF Becomes, ListVersions
<1> QED
  BY <1>1, <1>2 DEF ListVersions

\* A run that is confirmed goes on to the update, or exits.
LEMMA ConfirmDoes ==
    ASSUME TypeInv, NEW o \in Operators, Confirm(o)
    PROVE  /\ script[o].pc = "confirm" /\ UNCHANGED <<published, alias, applying>>
           /\ \E q, pc : /\ Becomes(o, q, pc) /\ pc \in {"exited", "update"}
                         /\ SameTarget(o, q) /\ q.moved = script[o].moved
<1>1. CASE Exit(o, "success") \/ Exit(o, "aborted")
  BY <1>1, ExitDoes DEF Confirm
<1>2. CASE script' = [script EXCEPT ![o].pc = "update"]
  <2> DEFINE q == [script[o] EXCEPT !.pc = "update"]
  <2>1. script[o] \in Scripts
    BY DEF TypeInv
  <2>2. q \in Scripts /\ q.pc = "update" /\ q.explicit = script[o].explicit
        /\ q.target = script[o].target /\ q.current = script[o].current
        /\ q.moved = script[o].moved
    BY <2>1 DEF Scripts
  <2>3. script' = [script EXCEPT ![o] = q]
    BY <1>2 DEF TypeInv
  <2> HIDE DEF q
  <2> QED
    BY <2>2, <2>3 DEF Becomes, SameTarget, Confirm
<1> QED
  BY <1>1, <1>2 DEF Confirm

Moves(o) ==
    /\ script[o].pc = "update" /\ UNCHANGED <<published, applying>>
    /\ alias' = script[o].target
    /\ \E q, pc : /\ Becomes(o, q, pc) /\ pc \in {"exited", "verify"}
                  /\ SameTarget(o, q) /\ q.moved

Ends(o) ==
    /\ script[o].pc # "idle" /\ UNCHANGED <<published, alias, applying>>
    /\ \E q : Becomes(o, q, "exited") /\ SameTarget(o, q) /\ q.moved = script[o].moved

\* The update moves the alias to the target, whether or not its answer comes.
LEMMA UpdateDoes ==
    ASSUME TypeInv, NEW o \in Operators, UpdateAlias(o) \/ Verify(o) \/ CallFails(o)
    PROVE  Moves(o) \/ Ends(o)
<1>1. CASE UpdateAlias(o)
  <2> DEFINE q == [script[o] EXCEPT !.pc = "verify", !.moved = TRUE]
  <2>1. script[o] \in Scripts
    BY DEF TypeInv
  <2>2. q \in Scripts /\ q.pc = "verify" /\ q.explicit = script[o].explicit
        /\ q.target = script[o].target /\ q.current = script[o].current /\ q.moved
    BY <2>1 DEF Scripts
  <2>3. script' = [script EXCEPT ![o] = q]
    BY <1>1 DEF TypeInv, UpdateAlias
  <2> HIDE DEF q
  <2> QED
    BY <1>1, <2>2, <2>3 DEF Becomes, SameTarget, UpdateAlias, Moves
<1>2. CASE Verify(o) \/ (alias' = alias /\ Exit(o, "failure") /\ CallFails(o))
  <2>1. \E status \in {"success", "failure"} : Exit(o, status)
    BY <1>2 DEF Verify
  <2> QED
    BY <1>2, <2>1, ExitDoes DEF Verify, CallFails, Ends
<1>3. CASE /\ script[o].pc = "update" /\ alias' = script[o].target
           /\ UNCHANGED <<published, applying>>
           /\ script' = [script EXCEPT ![o].pc = "exited", ![o].exit = "failure",
                           ![o].moved = TRUE]
  <2> DEFINE q == [script[o] EXCEPT !.pc = "exited", !.exit = "failure", !.moved = TRUE]
  <2>1. script[o] \in Scripts
    BY DEF TypeInv
  <2>2. q \in Scripts /\ q.pc = "exited" /\ q.explicit = script[o].explicit
        /\ q.target = script[o].target /\ q.current = script[o].current /\ q.moved
    BY <2>1 DEF Scripts
  <2>3. script' = [script EXCEPT ![o] = q]
    BY <1>3 DEF TypeInv
  <2> HIDE DEF q
  <2> QED
    BY <1>3, <2>2, <2>3 DEF Becomes, SameTarget, Moves
<1> QED
  BY <1>1, <1>2, <1>3 DEF CallFails

-----------------------------------------------------------------------------
(***************************************************************************)
(* Every step of a run, in one form.                                       *)
(***************************************************************************)
RunStep(o, q) ==
    /\ q \in Scripts /\ script' = [script EXCEPT ![o] = q]
    /\ published' = published
    /\ \/ /\ alias' = alias /\ q.moved = script[o].moved
          /\ \/ /\ script[o].pc = "idle" /\ q.pc \in {"getAlias", "exited"}
                /\ SameTarget(o, q)
             \/ /\ script[o].pc = "getAlias" /\ q.pc = "listVersions" /\ q.current = alias
                /\ q.target = script[o].target /\ q.explicit = script[o].explicit
             \/ /\ script[o].pc = "listVersions" /\ q.pc = "confirm"
                /\ q.target = Target(script[o]) /\ q.target # NoVersion
                /\ q.current = script[o].current /\ q.explicit = script[o].explicit
             \/ /\ script[o].pc = "confirm" /\ q.pc = "update"
                /\ SameTarget(o, q) /\ q.explicit = script[o].explicit
             \/ /\ script[o].pc # "idle" /\ q.pc = "exited"
                /\ SameTarget(o, q) /\ q.explicit = script[o].explicit
       \/ /\ script[o].pc = "update" /\ q.pc \in {"exited", "verify"} /\ q.moved
          /\ alias' = script[o].target
          /\ SameTarget(o, q) /\ q.explicit = script[o].explicit

Deployment == published' \in {published, published + 1} /\ alias' \in {alias, published}
              /\ script' = script

\* A step is one of a run, or terraform's, or changes nothing that matters.
LEMMA Steps ==
    ASSUME TypeInv, [Next]_vars
    PROVE  Deployment \/ \E o \in Operators : \E q : RunStep(o, q)
<1>1. ASSUME NEW o \in Operators, Start(o) PROVE \E q : RunStep(o, q)
  BY <1>1, StartDoes DEF RunStep
<1>2. ASSUME NEW o \in Operators, GetAlias(o) PROVE \E q : RunStep(o, q)
  BY <1>2, GetAliasDoes DEF RunStep, Becomes
<1>3. ASSUME NEW o \in Operators, ListVersions(o) PROVE \E q : RunStep(o, q)
  BY <1>3, ListVersionsDoes DEF RunStep, Becomes
<1>4. ASSUME NEW o \in Operators, Confirm(o) PROVE \E q : RunStep(o, q)
  BY <1>4, ConfirmDoes DEF RunStep, Becomes
<1>5. ASSUME NEW o \in Operators, UpdateAlias(o) \/ Verify(o) \/ CallFails(o)
      PROVE  \E q : RunStep(o, q)
  BY <1>5, UpdateDoes DEF RunStep, Becomes, Moves, Ends
<1>6. CASE Publish \/ MoveAlias \/ UNCHANGED vars
  BY <1>6 DEF Publish, MoveAlias, vars, Deployment
<1> QED
  BY <1>1, <1>2, <1>3, <1>4, <1>5, <1>6 DEF Next

\* Every step keeps the types.
LEMMA TypeStep == TypeInv /\ [Next]_vars => TypeInv'
<1> SUFFICES ASSUME TypeInv, [Next]_vars PROVE TypeInv'
  OBVIOUS
<1>1. applying' \in BOOLEAN
  BY DEF TypeInv, Next, vars, Publish, MoveAlias, Start, GetAlias, ListVersions, Confirm,
         UpdateAlias, Verify, CallFails
<1>2. CASE Deployment
  <2>1. published' \in Nat /\ alias' \in 0 .. published' /\ published <= published'
    BY <1>2 DEF Deployment, TypeInv
  <2>2. \A o \in Operators :
           script[o].current \in Nat /\ script[o].target \in Nat
           /\ script[o].current <= published /\ script[o].target <= published
    BY DEF TypeInv, Scripts
  <2>3. \A o \in Operators : script[o].current <= published' /\ script[o].target <= published'
    BY <2>1, <2>2 DEF TypeInv
  <2> QED
    BY <1>1, <1>2, <2>1, <2>3 DEF Deployment, TypeInv
<1>3. ASSUME NEW o \in Operators, NEW q, RunStep(o, q) PROVE TypeInv'
  <2>1. q.current <= published /\ q.target <= published
    BY <1>3, TargetIs DEF RunStep, SameTarget, TypeInv
  <2>2. published' \in Nat /\ published' = published /\ alias' \in 0 .. published'
    BY <1>3 DEF RunStep, TypeInv, Scripts
  <2>3. script' \in [Operators -> Scripts]
    BY <1>3 DEF RunStep, TypeInv
  <2>4. \A p \in Operators : script'[p] = IF p = o THEN q ELSE script[p]
    BY <1>3 DEF RunStep, TypeInv
  <2>5. \A p \in Operators : script'[p].current <= published' /\ script'[p].target <= published'
    BY <2>1, <2>2, <2>4 DEF TypeInv
  <2> QED
    BY <1>1, <2>2, <2>3, <2>5 DEF TypeInv
<1> QED
  BY <1>2, <1>3, Steps

-----------------------------------------------------------------------------
\* Every step keeps the runs sound.
LEMMA SoundStep == Inv /\ [Next]_vars => Sound'
<1> SUFFICES ASSUME Inv, [Next]_vars PROVE Sound'
  OBVIOUS
<1>0. TypeInv /\ TypeInv' /\ Sound
  BY TypeStep DEF Inv
<1>1. CASE Deployment
  <2>1. NothingInBetween'
    BY <1>0, <1>1 DEF Deployment, Sound, NothingInBetween, Default, Versions, TypeInv, Scripts
  <2>2. ASSUME NEW o \in Operators PROVE (Picked(o) /\ BackByAnother(o))'
    BY <1>0, <1>1 DEF Deployment, Sound, Picked, BackByAnother, TypeInv, Scripts
  <2> QED
    BY <2>1, <2>2 DEF Sound
<1>2. ASSUME NEW o \in Operators, NEW q, RunStep(o, q) PROVE Sound'
  <2>1. /\ script'[o] = q /\ \A p \in Operators \ {o} : script'[p] = script[p]
        /\ published' = published
    BY <1>0, <1>2 DEF RunStep, TypeInv
  <2>2. q.target # NoVersion /\ q.explicit = NoVersion =>
           q.target < q.current /\ \A v \in Versions : v < q.current => v <= q.target
    <3>1. CASE q.target = script[o].target /\ q.current = script[o].current
               /\ q.explicit = script[o].explicit
      BY <1>0, <3>1 DEF Sound, NothingInBetween, Default
    <3>2. CASE script[o].pc \in {"idle", "getAlias"} /\ q.target = script[o].target
      BY <1>0, <3>2 DEF Sound, Picked
    <3>3. CASE q.target = Target(script[o]) /\ q.current = script[o].current
               /\ q.explicit = script[o].explicit
      <4>1. script[o].current \in Nat /\ published \in Nat
        BY <1>0 DEF TypeInv, Scripts
      <4>2. q.target # NoVersion /\ q.explicit = NoVersion => q.target = q.current - 1
        BY <1>0, <3>3, TargetIs
      <4> QED
        BY <3>3, <4>1, <4>2 DEF Versions
    <3> QED
      BY <1>2, <3>1, <3>2, <3>3 DEF RunStep, SameTarget
  <2>3. NothingInBetween'
    BY <1>0, <2>1, <2>2 DEF Sound, NothingInBetween, Default, Versions
  <2>4. Picked(o)'
    BY <1>0, <1>2, <2>1 DEF RunStep, SameTarget, Sound, Picked
  <2>5. BackByAnother(o)'
    BY <1>0, <1>2, <2>1 DEF RunStep, SameTarget, Sound, BackByAnother, TypeInv, Scripts
  <2>6. ASSUME NEW p \in Operators \ {o} PROVE (Picked(p) /\ BackByAnother(p))'
    <3>1. Picked(p)'
      BY <1>0, <2>1 DEF Sound, Picked
    <3>2. CASE alias' = alias /\ q.moved = script[o].moved
      <4>1. script[o].moved => q.target = script[o].target
        BY <1>0, <1>2, <3>2 DEF RunStep, SameTarget, Sound, Picked
      <4> QED
        BY <1>0, <2>1, <3>1, <3>2, <4>1 DEF Sound, BackByAnother
    <3>3. CASE q.moved /\ alias' = script[o].target /\ q.target = script[o].target
      BY <2>1, <3>1, <3>3 DEF BackByAnother
    <3> QED
      BY <1>2, <3>1, <3>2, <3>3 DEF RunStep, SameTarget
  <2> QED
    BY <2>3, <2>4, <2>5, <2>6 DEF Sound
<1> QED
  BY <1>0, <1>1, <1>2, Steps

\* The invariant holds at first.
LEMMA SoundInit == Init => Sound
  BY DEF Init, Run, Sound, NothingInBetween, Default, Picked, BackByAnother, NoVersion

\* The runs are sound in every state.
LEMMA InvHolds == Spec => []Inv
<1>1. Init => Inv
  BY TypeInit, SoundInit DEF Inv
<1>2. Inv /\ [Next]_vars => Inv'
  BY TypeStep, SoundStep DEF Inv
<1> QED
  BY <1>1, <1>2, PTL DEF Spec

\* rollback.sh's default target is the highest published version below the
\* current one it has shown, and stays so while versions are published.
THEOREM TargetIsTheOneBefore == Spec => []NothingInBetween
<1>1. Inv => NothingInBetween
  BY DEF Inv, Sound
<1> QED
  BY <1>1, InvHolds, PTL

\* Only a rollback that another run has made since can turn one into a step
\* forward; no deployment can.
THEOREM DeploymentsTurnNoRollback == Spec => ForwardOnlyAfterAnother
<1> DEFINE Forward ==
             \A o \in Operators :
                 (/\ ~script[o].moved /\ script'[o].moved
                  /\ Default(o) /\ alias' > alias) =>
                     \E q \in Operators \ {o} : script[q].moved /\ script[q].target = alias
<1>1. ASSUME Inv, [Next]_vars PROVE Forward
  <2> SUFFICES ASSUME NEW o \in Operators, ~script[o].moved, script'[o].moved, Default(o), alias' > alias
               PROVE  \E q \in Operators \ {o} : script[q].moved /\ script[q].target = alias
    OBVIOUS
  <2>1. TypeInv /\ Sound
    BY <1>1 DEF Inv
  <2>2. ~Deployment
    BY DEF Deployment
  <2> PICK p \in Operators : \E q : RunStep(p, q)
    BY <1>1, <2>1, <2>2, Steps
  <2>3. PICK q : RunStep(p, q)
    OBVIOUS
  <2>4. p = o /\ script'[o] = q
    BY <2>1, <2>3 DEF RunStep, TypeInv
  <2>5. script[o].pc = "update" /\ alias' = script[o].target
    BY <2>3, <2>4 DEF RunStep
  <2>6. script[o].target < script[o].current
    BY <2>1 DEF Sound, NothingInBetween
  <2>7. ~(alias >= script[o].current)
    BY <2>1, <2>5, <2>6 DEF TypeInv, Scripts
  <2> QED
    BY <2>1, <2>5, <2>7 DEF Sound, BackByAnother
<1>2. Inv /\ [Next]_vars => [Forward]_vars
  BY <1>1
<1> QED
  BY <1>2, InvHolds, PTL DEF Spec, ForwardOnlyAfterAnother
=============================================================================
