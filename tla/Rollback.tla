------------------------------- MODULE Rollback -------------------------------
(***************************************************************************)
(* scripts/rollback.sh: the alias `live` is moved back to an earlier       *)
(* published version.  Several people may run the script at once, and      *)
(* `terraform apply` publishes versions and moves the alias meanwhile.     *)
(* The script reads the alias, then the versions, waits for its operator,  *)
(* and updates the alias unconditionally.                                  *)
(***************************************************************************)
EXTENDS Naturals, FiniteSetsExt

CONSTANTS
    Operators,    \* the runs of the script
    MaxVersion    \* bound on the versions that are published

ASSUME MaxVersionType == MaxVersion \in Nat \ {0}

VARIABLES
    published,    \* the newest published version; 0 if there is none
    alias,        \* the version `live` points at; Latest if at $LATEST
    applying,     \* whether terraform has published and not yet moved the alias
    script        \* the runs of the script

vars == <<published, alias, applying, script>>

Latest == 0    \* $LATEST is not a published version
NoVersion == 0 \* no --version, or no target

Versions == 1 .. published

Run == [pc |-> "idle", explicit |-> NoVersion, dry |-> FALSE, current |-> Latest,
        target |-> NoVersion, moved |-> FALSE, exit |-> "none"]

\* The alias exists from the first apply on; by hand it may have been put on
\* $LATEST, before or after versions were published.
Init ==
    /\ published \in 0 .. 1
    /\ alias \in 0 .. published
    /\ applying = FALSE
    /\ script = [o \in Operators |-> Run]

-----------------------------------------------------------------------------
Exit(o, status) == script' = [script EXCEPT ![o].pc = "exited", ![o].exit = status]

\* Here 0 stands for no --version.  A `--version 0` passes the usage check like
\* any other number that is not published, and ends like one: exit 2, once the
\* versions are listed.
Start(o) ==
    /\ script[o].pc = "idle"
    /\ \/ Exit(o, "usage")
       \/ \E explicit \in 0 .. MaxVersion, dry \in BOOLEAN :
             script' = [script EXCEPT ![o].pc = "getAlias", ![o].explicit = explicit,
                          ![o].dry = dry]
    /\ UNCHANGED <<published, alias, applying>>

GetAlias(o) ==
    /\ script[o].pc = "getAlias"
    /\ script' = [script EXCEPT ![o].pc = "listVersions", ![o].current = alias]
    /\ UNCHANGED <<published, alias, applying>>

\* Mutant: the newest version that is not the current one.
MutPrevious(current) == {v \in Versions : v # current}

\* The published versions strictly below the current one.
Previous(current) == {v \in Versions : v < current}

\* The script lists the versions and picks its target from them.
Target(run) ==
    IF run.explicit # NoVersion
    THEN IF run.explicit \in Versions /\ run.explicit # run.current
         THEN run.explicit ELSE NoVersion
    ELSE IF run.current # Latest /\ Previous(run.current) # {}
         THEN Max(Previous(run.current)) ELSE NoVersion

ListVersions(o) ==
    /\ script[o].pc = "listVersions"
    /\ \/ /\ Target(script[o]) = NoVersion
          /\ Exit(o, "nothingToDo")
       \/ /\ Target(script[o]) # NoVersion
          /\ script' = [script EXCEPT ![o].pc = "confirm", ![o].target = Target(script[o])]
    /\ UNCHANGED <<published, alias, applying>>

\* A dry run ends here; so does one whose operator does not say yes.
Confirm(o) ==
    /\ script[o].pc = "confirm"
    /\ \/ script[o].dry /\ Exit(o, "success")
       \/ ~script[o].dry /\ Exit(o, "aborted")
       \/ ~script[o].dry /\ script' = [script EXCEPT ![o].pc = "update"]
    /\ UNCHANGED <<published, alias, applying>>

\* update-alias carries no revision id: it takes effect wherever the alias is.
UpdateAlias(o) ==
    /\ script[o].pc = "update"
    /\ alias' = script[o].target
    /\ script' = [script EXCEPT ![o].pc = "verify", ![o].moved = TRUE]
    /\ UNCHANGED <<published, applying>>

Verify(o) ==
    /\ script[o].pc = "verify"
    /\ Exit(o, IF alias = script[o].target THEN "success" ELSE "failure")
    /\ UNCHANGED <<published, alias, applying>>

\* aws_call: a call of the CLI fails; an update may have taken effect.
CallFails(o) ==
    /\ script[o].pc \in {"getAlias", "listVersions", "update", "verify"}
    /\ \/ alias' = alias
          /\ Exit(o, "failure")
       \/ /\ script[o].pc = "update"
          /\ alias' = script[o].target
          /\ script' = [script EXCEPT ![o].pc = "exited", ![o].exit = "failure",
                          ![o].moved = TRUE]
    /\ UNCHANGED <<published, applying>>

-----------------------------------------------------------------------------
(***************************************************************************)
(* terraform apply: publish = true makes a version when the code changed;  *)
(* in any case the alias is moved to the newest one.                       *)
(***************************************************************************)
Publish ==
    /\ ~applying
    /\ published < MaxVersion
    /\ published' = published + 1
    /\ applying' = TRUE
    /\ UNCHANGED <<alias, script>>

MoveAlias ==
    /\ alias # published \/ applying
    /\ alias' = published
    /\ applying' = FALSE
    /\ UNCHANGED <<published, script>>

Next ==
    \/ Publish \/ MoveAlias
    \/ \E o \in Operators :
          \/ Start(o) \/ GetAlias(o) \/ ListVersions(o) \/ Confirm(o)
          \/ UpdateAlias(o) \/ Verify(o) \/ CallFails(o)

Spec == Init /\ [][Next]_vars
-----------------------------------------------------------------------------
Default(o) == script[o].target # NoVersion /\ script[o].explicit = NoVersion

\* "Default: the highest version below the current one": although the alias
\* and the versions are read one after the other and the operator takes time to
\* confirm, no version lies between the one shown as current and the target,
\* then or later.
NothingInBetween ==
    \A o \in Operators :
        Default(o) => /\ script[o].target < script[o].current
                      /\ \A v \in Versions : v < script[o].current => v <= script[o].target

\* A run without --version moves the alias forward only when another run has
\* moved it further back since it read the alias: the deployments that go on
\* meanwhile cannot make a rollback one.
ForwardOnlyAfterAnother ==
    [][\A o \in Operators :
          (/\ ~script[o].moved /\ script'[o].moved
           /\ Default(o) /\ alias' > alias) =>
              \E q \in Operators \ {o} : script[q].moved /\ script[q].target = alias]_vars
=============================================================================
