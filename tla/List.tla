-------------------------------- MODULE List --------------------------------
(***************************************************************************)
(* src/src/list.c: a growing array.  A list is a record of its elements    *)
(* and its capacity; expand_mult, fixed when a list is made, is passed to  *)
(* the operations that may grow it.  Allocation does not fail.             *)
(***************************************************************************)
EXTENDS Integers, Sequences, Functions

list_new(init_capacity) == [elements |-> <<>>, capacity |-> init_capacity]

num_elements(list) == Len(list.elements)

(* Fault for TypeOK of Bus: the list grows when it is already too late. *)
FullTooLate(list) == num_elements(list) > list.capacity

Full(list) == num_elements(list) = list.capacity

list_resize(list, expand_mult) ==
  [list EXCEPT !.capacity = list.capacity * expand_mult]

list_add(list, expand_mult, data) ==
  LET roomy == IF Full(list) THEN list_resize(list, expand_mult) ELSE list
  IN  [roomy EXCEPT !.elements = Append(@, data)]

(* Fault for SessionTypeOK: the elements stay. *)
list_keep(list) == list

list_clear(list) == [list EXCEPT !.elements = <<>>]

(* list_get returns NULL for an index, from 0, past the last element.      *)
list_has(list, index) == index < num_elements(list)
list_get(list, index) == list.elements[index + 1]

(* qsort: the elements in an order in which none follows a greater one.    *)
(* compare[<<x, y>>] is negative when x lies before y.                     *)
list_sort(list, compare) ==
  LET indices == DOMAIN list.elements
      element(i) == list.elements[i]
      order == CHOOSE p \in [indices -> indices] :
                 /\ \A i, j \in indices :
                      i < j => compare[<<element(p[i]), element(p[j])>>] <= 0
                 /\ IsInjective(p) /\ Range(p) = indices
  IN  [list EXCEPT !.elements = [i \in indices |-> element(order[i])]]

(* bsearch: the index of an element that is equal to the key, or 0.        *)
(* compare[i] is negative when the key lies before element i.              *)
list_bsearch(list, compare) ==
  LET n == num_elements(list)
      search[part \in (1 .. n + 1) \X (0 .. n)] ==
        LET low == part[1]
            high == part[2]
            mid == (low + high) \div 2
        IN  IF low > high THEN 0
            ELSE IF compare[mid] < 0 THEN search[<<low, mid - 1>>]
            ELSE IF compare[mid] > 0 THEN search[<<mid + 1, high>>]
            ELSE mid
  IN  search[<<1, n>>]
=============================================================================
