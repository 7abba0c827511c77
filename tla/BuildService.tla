---------------------------- MODULE BuildService ----------------------------
(***************************************************************************)
(* What the build system promises to whoever starts a batch: the rules of  *)
(* a batch settle once each, none before its dependencies, a rule above a  *)
(* failure is skipped and no other one is, a batch is answered when all    *)
(* have settled, and a circular graph is refused.  How rules are found out *)
(* of date is not its concern.                                             *)
(***************************************************************************)
CONSTANTS Rules, Builds

VARIABLES
  deps,      \* dependsOn of every rule
  outcome,   \* build -> what became of its batch
  status     \* build -> results of the rules that settled, "none" for the others

serviceVars == <<deps, outcome, status>>

Unsettled == [r \in Rules |-> "none"]

\* A set of rules each of which waits for another one of the set.
Circular == \E ring \in (SUBSET Rules) \ {{}} : \A r \in ring : deps[r] \intersect ring # {}

ServiceInit ==
  /\ deps \in [Rules -> SUBSET Rules]
  /\ outcome = [b \in Builds |-> "none"]
  /\ status = [b \in Builds |-> Unsettled]

Begin(b) ==
  /\ outcome[b] # "running"
  /\ outcome' = [outcome EXCEPT ![b] = IF Circular THEN "rejected" ELSE "running"]
  /\ status' = [status EXCEPT ![b] = Unsettled]
  /\ UNCHANGED deps

\* Some rules settle, each in view of its dependencies.  Those of a batch that was
\* rejected meanwhile still may.
Verdicts(below) ==
  IF below \intersect {"failure", "skipped"} # {} THEN {"skipped"}
  ELSE IF "none" \in below THEN {} ELSE {"success", "failure", "cached"}

Settle(b) ==
  LET settling == {r \in Rules : status'[b][r] # status[b][r]} IN
  /\ outcome[b] \in {"running", "rejected"}
  /\ settling # {}
  /\ \A r \in settling :
       /\ status[b][r] = "none"
       /\ status'[b][r] \in Verdicts({status[b][d] : d \in deps[r]})
  /\ DOMAIN status'[b] = Rules /\ status' = [status EXCEPT ![b] = status'[b]]
  /\ UNCHANGED <<deps, outcome>>

Answer(b) ==
  /\ outcome[b] = "running"
  /\ \A r \in Rules : status[b][r] # "none"
  /\ outcome' = [outcome EXCEPT ![b] = "answered"]
  /\ UNCHANGED <<deps, status>>

Reject(b) ==
  /\ outcome[b] = "running"
  /\ outcome' = [outcome EXCEPT ![b] = "rejected"]
  /\ UNCHANGED <<deps, status>>

ServiceNext == \E b \in Builds : Begin(b) \/ Settle(b) \/ Answer(b) \/ Reject(b)

ServiceSpec == ServiceInit /\ [][ServiceNext]_serviceVars
=============================================================================
