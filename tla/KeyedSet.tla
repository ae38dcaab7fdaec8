------------------------------ MODULE KeyedSet ------------------------------
(***************************************************************************)
(* What the calls of the hash map do to what a map holds: one value for    *)
(* each key that was set and not removed, the last one that was set.       *)
(***************************************************************************)
VARIABLE content     \* function from the keys present to their values

Init == content = [k \in {} |-> k]

Set(key, value) ==
  content' = [k \in DOMAIN content \cup {key} |-> IF k = key THEN value ELSE content[k]]

Remove(key) == content' = [k \in DOMAIN content \ {key} |-> content[k]]
=============================================================================
