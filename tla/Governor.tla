------------------------------ MODULE Governor ------------------------------
(***************************************************************************)
(* What the controller promises about the replicas of a namespace, without *)
(* caches, versions, processes or a clock: an atomic governor shares the   *)
(* replica counts with people and other autoscalers.  They may set any     *)
(* count; it only ever raises one, by a bounded step, inside an envelope a *)
(* user has applied for that Deployment.                                   *)
(***************************************************************************)
EXTENDS Integers

CONSTANTS
    Deployments,
    Envelopes,      \* the envelopes users may apply: [deployment, min, max, up]
    MaxCount        \* the largest count

VARIABLES
    replicas,       \* Deployment -> replicas
    edits           \* number of edits by others

vars == <<replicas, edits>>

Init ==
    /\ replicas \in [Deployments -> 0..MaxCount]
    /\ edits = 0

\* One step of the governor, atomic: the count it starts from is the count.
Raise(e) ==
    LET from == replicas[e.deployment]
    IN  /\ from \in e.min..e.max
        /\ \E to \in from + 1..e.max :
              /\ to <= from + e.up
              /\ replicas' = [replicas EXCEPT ![e.deployment] = to]
        /\ UNCHANGED edits

\* Someone else: a count or a spec.
Edit ==
    /\ edits' = edits + 1
    /\ \/ \E d \in Deployments, n \in 0..MaxCount : replicas' = [replicas EXCEPT ![d] = n]
       \/ UNCHANGED replicas

Next == Edit \/ \E e \in Envelopes : Raise(e)

Spec == Init /\ [][Next]_vars

=============================================================================
