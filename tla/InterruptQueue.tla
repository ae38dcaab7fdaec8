--------------------------- MODULE InterruptQueue ---------------------------
(***************************************************************************)
(* What the interrupt controller promises to the simulator, with no heap:  *)
(* a set of pending vectors, each with the priority of its first alert.    *)
(* An alert for a pending vector is merged into it, and take removes the   *)
(* vector that outranks all others: highest priority, then highest vector. *)
(***************************************************************************)
EXTENDS Integers

CONSTANTS
  Vec,       \* the interrupt vectors devices use
  Priority   \* the priorities they use

VARIABLE pending   \* function from the pending vectors to their priorities

(* v is served before w when both are pending in q. *)
Outranks(q, v, w) == q[v] > q[w] \/ (q[v] = q[w] /\ v > w)

IsTop(q, v) ==
  /\ v \in DOMAIN q
  /\ \A w \in DOMAIN q \ {v} : Outranks(q, v, w)

(* q after an alert: a vector that is already pending keeps its priority. *)
WithAlert(q, v, p) ==
  [w \in DOMAIN q \cup {v} |-> IF w \in DOMAIN q THEN q[w] ELSE p]

Without(q, v) == [w \in DOMAIN q \ {v} |-> q[w]]

TypeOK ==
  /\ DOMAIN pending \subseteq Vec
  /\ \A v \in DOMAIN pending : pending[v] \in Priority

Init == pending = [v \in {} |-> 0]

Alert(v, p) == pending' = WithAlert(pending, v, p)

Take(v) == IsTop(pending, v) /\ pending' = Without(pending, v)

Next ==
  \/ \E v \in Vec, p \in Priority : Alert(v, p)
  \/ \E v \in Vec : Take(v)

Spec == Init /\ [][Next]_pending
=============================================================================
