-------------------------- MODULE ExactlyOnceQueue --------------------------
(***************************************************************************)
(* What a Tigon queue promises, and nothing about how: the entries of a    *)
(* transaction become available together, and every consumer group uses an *)
(* available entry up in exactly one transaction ("exactly-once event      *)
(* processing").                                                           *)
(***************************************************************************)
EXTENDS Naturals

CONSTANTS Entry, Group

VARIABLES published,   \* entries of committed transactions
          deliveries   \* per group and entry: transactions that used it up

eoVars == <<published, deliveries>>

Init ==
  /\ published = {}
  /\ deliveries = [g \in Group |-> [e \in Entry |-> 0]]

(* A transaction commits the entries it enqueued. *)
Publish(S) ==
  /\ S \cap published = {}
  /\ published' = published \cup S
  /\ UNCHANGED deliveries

(* A transaction of group g commits, having used up the entries S. *)
Consume(g, S) ==
  /\ S \subseteq published
  /\ \A e \in S : deliveries[g][e] = 0
  /\ deliveries' = [deliveries EXCEPT ![g] =
                      [e \in Entry |-> deliveries[g][e] + IF e \in S THEN 1 ELSE 0]]
  /\ UNCHANGED published

Next ==
  \/ \E S \in SUBSET Entry : Publish(S)
  \/ \E g \in Group, S \in SUBSET Entry : Consume(g, S)

Spec == Init /\ [][Next]_eoVars
=============================================================================
