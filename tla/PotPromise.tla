----------------------------- MODULE PotPromise -----------------------------
(***************************************************************************)
(* What the settlement of one round's pot promises to the people who paid  *)
(* into it, with no vault, cursor, batch or counter: the pot has one       *)
(* outcome.  Either at most three winners receive it in a single step, in  *)
(* equal parts up to the indivisible remainder; or the entrants get the    *)
(* same amount each, once each, in any grouping, and the refund is over    *)
(* exactly when nobody is left.                                            *)
(***************************************************************************)
EXTENDS Integers, FiniteSets

CONSTANT People

VARIABLES outcome, entrants, each, received

vars == <<outcome, entrants, each, received>>

Init ==
  /\ outcome = "NONE"
  /\ entrants = {}
  /\ each = 0
  /\ received = [p \in People |-> 0]

\* Nobody enters once the pot has an outcome.
Enter ==
  /\ outcome = "NONE"
  /\ entrants \subseteq entrants' /\ entrants' \subseteq People
  /\ UNCHANGED <<outcome, each, received>>

PayWinners ==
  LET winners == {p \in People : received'[p] > 0} IN
  /\ outcome = "NONE"
  /\ outcome' = "PAID"
  /\ winners \subseteq entrants
  /\ Cardinality(winners) <= 3
  /\ \A p, q \in winners : received'[p] - received'[q] <= 2
  /\ UNCHANGED <<entrants, each>>

Refund ==
  /\ outcome \in {"NONE", "PENDING"}
  /\ outcome = "PENDING" => each' = each
  /\ \A p \in People :
       received'[p] # received[p] =>
         p \in entrants /\ received[p] = 0 /\ received'[p] = each'
  /\ outcome' = IF \A p \in entrants : received'[p] = each'
                THEN "REFUNDED" ELSE "PENDING"
  /\ UNCHANGED entrants

Next == Enter \/ PayWinners \/ Refund

Spec == Init /\ [][Next]_vars
=============================================================================
