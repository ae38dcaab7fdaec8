---------------------- MODULE InterruptControllerProofs ----------------------
(***************************************************************************)
(* The interrupt controller is a priority queue, for every size of its     *)
(* arrays, every set of vectors they have room for and every set of        *)
(* priorities: its invariants, and that it implements InterruptQueue.      *)
(*                                                                         *)
(* The inductive invariant is the loop invariant of the percolations       *)
(* (HeapButOne), that the table and the heap agree (TableMatchesHeap), and *)
(* that the live entries are vectors of the devices.  The lemmas say what  *)
(* a swap does to the order of a heap, for any table t and heap h.         *)
(***************************************************************************)
EXTENDS InterruptController, LeastNumber, FiniteSetTheorems

(* The vectors in use are those the arrays have an entry for: all but the  *)
(* top one, see EntryPerVector.                                            *)
InRange == Vec \subseteq Index

Entries == \A i \in Live : queue_heap[i] \in Vec

IInv ==
  /\ TypeOK
  /\ TableMatchesHeap
  /\ HeapButOne
  /\ Entries
  /\ pc = "down" => vec \in Vec

-----------------------------------------------------------------------------
(* The order of vectors under a table t *)

Over(t, v, w) == t[v] > t[w] \/ (t[v] = t[w] /\ v > w)

(* Over is a strict total order on the vectors, whatever the table holds. *)
LEMMA OverIsTotal ==
  ASSUME NEW t \in [Index -> Byte]
  PROVE  /\ \A v, w \in Index : Over(t, v, w) => ~ Over(t, w, v)
         /\ \A v, w \in Index : v = w \/ Over(t, v, w) \/ Over(t, w, v)
         /\ \A u, v, w \in Index : ~ Over(t, u, v) /\ ~ Over(t, v, w) => ~ Over(t, u, w)
BY ControllerAssumption DEF Over, Index, Byte

(* Below the top vector, the order of the heap is Over of the table. *)
LEMMA OutranksIsOver ==
  ASSUME InRange, NEW v \in Index, NEW w \in Index
  PROVE  /\ PriorityOf(v) = interrupts[v]
         /\ Outranks(v, w) = Over(interrupts, v, w)
BY ControllerAssumption DEF Outranks, Over, PriorityOf, Index, InRange

(* Heap geometry. *)
LEMMA ParentOf ==
  ASSUME NEW i \in Nat, i # 0
  PROVE  /\ parent_index(i) \in Nat
         /\ parent_index(i) < i
         /\ \A c \in Nat :
              parent_index(i) = c <=> i = left_child_index(c) \/ i = right_child_index(c)
BY DEF parent_index, left_child_index, right_child_index

(* A parent of a live entry is not past the last parent. *)
LEMMA LastParent ==
  ASSUME NEW n \in Nat, NEW i \in Nat, i # 0, i < n
  PROVE  parent_index(i) <= last_parent_index(n)
BY DEF parent_index, last_parent_index

(* An entry up to the last parent has a left child in the heap. *)
LEMMA ChildrenOfParent ==
  ASSUME NEW n \in Nat, NEW c \in Nat, c <= last_parent_index(n)
  PROVE  /\ left_child_index(c) \in Nat \ {0} /\ left_child_index(c) < n
         /\ right_child_index(c) \in Nat \ {0}
BY DEF last_parent_index, left_child_index, right_child_index

-----------------------------------------------------------------------------
(* Heaps with one entry out of place *)

(* HeapButOne for a table t, a heap h and its size n, with the entry at c  *)
(* out of place with its parent, or with its children.                     *)
UpHeap(t, h, n, c) ==
  \A i \in 1 .. n - 1 :
    /\ i # c => ~ Over(t, h[i], h[parent_index(i)])
    /\ parent_index(i) = c /\ c # 0 => ~ Over(t, h[i], h[parent_index(c)])

DownHeap(t, h, n, c) ==
  \A i \in 1 .. n - 1 :
    /\ parent_index(i) # c => ~ Over(t, h[i], h[parent_index(i)])
    /\ parent_index(i) = c /\ c # 0 => ~ Over(t, h[i], h[parent_index(c)])

Heap(t, h, n) == \A i \in 1 .. n - 1 : ~ Over(t, h[i], h[parent_index(i)])

Swapped(h, i, j) == [h EXCEPT ![i] = h[j], ![j] = h[i]]

(* A swap with the parent moves the one misplaced entry up. *)
LEMMA ClimbKeepsOrder ==
  ASSUME NEW t \in [Index -> Byte], NEW h \in [Index -> Byte],
         NEW n \in 0 .. UINT8_MAX, NEW c \in 1 .. n - 1,
         \A i \in 0 .. n - 1 : h[i] \in Index,
         UpHeap(t, h, n, c), Over(t, h[c], h[parent_index(c)])
  PROVE  UpHeap(t, Swapped(h, c, parent_index(c)), n, parent_index(c))
<1> DEFINE p == parent_index(c)
           g == Swapped(h, c, p)
<1>1. p \in 0 .. n - 1 /\ p < c
  BY ParentOf
<1>2. \A i \in 1 .. n - 1 : parent_index(i) \in 0 .. n - 1 /\ parent_index(i) < i
  BY ParentOf
<1>3. /\ g[c] = h[p] /\ g[p] = h[c]
      /\ \A i \in 0 .. n - 1 : i # c /\ i # p => g[i] = h[i]
  BY <1>1, ControllerAssumption DEF Swapped, Index
<1>4. /\ \A v, w \in Index : Over(t, v, w) => ~ Over(t, w, v)
      /\ \A u, v, w \in Index : ~ Over(t, u, v) /\ ~ Over(t, v, w) => ~ Over(t, u, w)
  BY OverIsTotal
<1> SUFFICES ASSUME NEW i \in 1 .. n - 1
             PROVE  /\ i # p => ~ Over(t, g[i], g[parent_index(i)])
                    /\ parent_index(i) = p /\ p # 0 => ~ Over(t, g[i], g[parent_index(p)])
  BY DEF UpHeap
<1> DEFINE q == parent_index(i)
<1>5. q \in 0 .. n - 1 /\ q < i
  BY <1>2
<1>6. i # c => ~ Over(t, h[i], h[q])
  BY DEF UpHeap
<1>7. q = c => ~ Over(t, h[i], h[p])
  BY DEF UpHeap
<1>8. ~ Over(t, h[p], h[c])
  BY <1>1, <1>4
<1>9. i # p => ~ Over(t, g[i], g[q])
  <2> SUFFICES ASSUME i # p PROVE ~ Over(t, g[i], g[q])
    OBVIOUS
  <2> HIDE DEF q, p, g
  <2>1. CASE i = c
    BY <2>1, <1>3, <1>8 DEF q, p
  <2>2. CASE i # c /\ q = p
    <3>1. ~ Over(t, h[i], h[p])
      BY <2>2, <1>6
    <3>2. h[i] \in Index /\ h[p] \in Index /\ h[c] \in Index
      BY <1>1
    <3>3. ~ Over(t, h[i], h[c])
      BY <3>1, <3>2, <1>8, <1>4
    <3> QED BY <3>3, <2>2, <1>3
  <2>3. CASE i # c /\ q = c
    BY <2>3, <1>3, <1>7
  <2>4. CASE i # c /\ q # p /\ q # c
    BY <2>4, <1>3, <1>5, <1>6
  <2> QED BY <2>1, <2>2, <2>3, <2>4
<1>10. ASSUME q = p, p # 0
       PROVE  ~ Over(t, g[i], g[parent_index(p)])
  <2> DEFINE r == parent_index(p)
  <2>1. r \in 0 .. n - 1 /\ r < p /\ p \in 1 .. n - 1
    BY <1>1, <1>2, <1>10
  <2>2. ~ Over(t, h[p], h[r])
    BY <2>1, <1>1 DEF UpHeap
  <2> HIDE DEF r, q, p, g
  <2>3. g[r] = h[r]
    BY <2>1, <1>1, <1>3
  <2>4. CASE i = c
    BY <2>4, <2>2, <2>3, <1>3 DEF r
  <2>5. CASE i # c
    <3>1. g[i] = h[i]
      BY <2>5, <1>10, <1>3, <1>5
    <3>2. ~ Over(t, h[i], h[p])
      BY <2>5, <1>6, <1>10
    <3>3. h[i] \in Index /\ h[p] \in Index /\ h[r] \in Index
      BY <1>1, <2>1
    <3> QED BY <3>1, <3>2, <3>3, <2>2, <2>3, <1>4 DEF r
  <2> QED BY <2>4, <2>5
<1> QED
  BY <1>9, <1>10

(* m is the child of c that no child of c outranks. *)
IsMaxChild(t, h, n, c, m) ==
  /\ m \in 1 .. n - 1
  /\ parent_index(m) = c
  /\ \A i \in 1 .. n - 1 : parent_index(i) = c => ~ Over(t, h[i], h[m])

(* A swap with the larger child moves the one misplaced entry down. *)
LEMMA SinkKeepsOrder ==
  ASSUME NEW t \in [Index -> Byte], NEW h \in [Index -> Byte],
         NEW n \in 0 .. UINT8_MAX, NEW c \in 0 .. n - 1, NEW m,
         \A i \in 0 .. n - 1 : h[i] \in Index,
         DownHeap(t, h, n, c), IsMaxChild(t, h, n, c, m), Over(t, h[m], h[c])
  PROVE  DownHeap(t, Swapped(h, c, m), n, m)
<1> DEFINE g == Swapped(h, c, m)
<1>1. m \in 1 .. n - 1 /\ c < m /\ parent_index(m) = c
  BY ParentOf DEF IsMaxChild
<1>2. /\ g[c] = h[m] /\ g[m] = h[c]
      /\ \A i \in 0 .. n - 1 : i # c /\ i # m => g[i] = h[i]
  BY <1>1, ControllerAssumption DEF Swapped, Index
<1>3. ~ Over(t, h[c], h[m])
  BY <1>1, OverIsTotal
<1> SUFFICES ASSUME NEW i \in 1 .. n - 1
             PROVE  /\ parent_index(i) # m => ~ Over(t, g[i], g[parent_index(i)])
                    /\ parent_index(i) = m /\ m # 0 => ~ Over(t, g[i], g[parent_index(m)])
  BY DEF DownHeap
<1> DEFINE q == parent_index(i)
<1>4. q \in 0 .. n - 1 /\ q < i
  BY ParentOf
<1>5. /\ q # c => ~ Over(t, h[i], h[q])
      /\ q = c => ~ Over(t, h[i], h[m])
  BY DEF DownHeap, IsMaxChild
<1>6. c # 0 => ~ Over(t, h[m], h[parent_index(c)])
  BY <1>1 DEF DownHeap
<1>7. ASSUME q # m PROVE ~ Over(t, g[i], g[q])
  <2>1. CASE i = m
    BY <2>1, <1>1, <1>2, <1>3
  <2>2. CASE i = c
    <3>1. g[i] = h[m] /\ g[q] = h[q]
      BY <2>2, <1>4, <1>2, <1>7
    <3> QED BY <3>1, <2>2, <1>6
  <2>3. CASE i # m /\ i # c
    <3>1. g[i] = h[i]
      BY <2>3, <1>2
    <3>2. q # c => g[q] = h[q]
      BY <1>7, <1>4, <1>2
    <3> QED BY <3>1, <3>2, <1>2, <1>5
  <2> QED BY <2>1, <2>2, <2>3
<1>8. ASSUME q = m PROVE ~ Over(t, g[i], g[parent_index(m)])
  <2>1. g[i] = h[i]
    BY <1>8, <1>4, <1>1, <1>2
  <2>2. ~ Over(t, h[i], h[m])
    BY <1>8, <1>1, <1>5
  <2> QED BY <2>1, <2>2, <1>1, <1>2
<1> QED
  BY <1>7, <1>8

(* An entry that has sunk far enough leaves a heap in order. *)
LEMMA SunkIsHeap ==
  ASSUME NEW t \in [Index -> Byte], NEW h \in [Index -> Byte],
         NEW n \in 0 .. UINT8_MAX, NEW c \in Nat, NEW m,
         \A i \in 0 .. n - 1 : h[i] \in Index,
         DownHeap(t, h, n, c),
         \/ c > last_parent_index(n)
         \/ c \in 0 .. n - 1 /\ IsMaxChild(t, h, n, c, m) /\ ~ Over(t, h[m], h[c])
  PROVE  Heap(t, h, n)
<1> SUFFICES ASSUME NEW i \in 1 .. n - 1
             PROVE  ~ Over(t, h[i], h[parent_index(i)])
  BY DEF Heap
<1>1. CASE parent_index(i) # c
  BY <1>1 DEF DownHeap
<1>2. CASE parent_index(i) = c
  <2>1. c <= last_parent_index(n)
    BY <1>2, LastParent
  <2>2. last_parent_index(n) \in Int
    BY DEF last_parent_index
  <2>3. /\ c \in 0 .. n - 1 /\ m \in 1 .. n - 1
        /\ ~ Over(t, h[i], h[m]) /\ ~ Over(t, h[m], h[c])
    BY <2>1, <2>2, <1>2 DEF IsMaxChild
  <2>4. h[i] \in Index /\ h[m] \in Index /\ h[c] \in Index
    BY <2>3
  <2> QED BY <2>3, <2>4, <1>2, OverIsTotal
<1> QED
  BY <1>1, <1>2

(* No entry of a heap outranks its root: the least one that did would have *)
(* a parent that does too.                                                 *)
LEMMA RootIsTop ==
  ASSUME NEW t \in [Index -> Byte], NEW h \in [Index -> Byte],
         NEW n \in 0 .. UINT8_MAX,
         \A i \in 0 .. n - 1 : h[i] \in Index,
         Heap(t, h, n)
  PROVE  \A i \in 0 .. n - 1 : ~ Over(t, h[i], h[0])
<1> DEFINE Bad == {i \in 0 .. n - 1 : Over(t, h[i], h[0])}
<1> SUFFICES ASSUME Bad # {} PROVE FALSE
  OBVIOUS
<1>1. PICK m \in Bad : \A k \in Bad : m <= k
  <2> Bad \subseteq Nat
    OBVIOUS
  <2> HIDE DEF Bad
  <2> QED BY LeastElement
<1>2. m \in 0 .. n - 1 /\ Over(t, h[m], h[0])
  BY <1>1
<1>3. m # 0
  BY <1>2, OverIsTotal
<1> DEFINE q == parent_index(m)
<1>4. q \in 0 .. n - 1 /\ q < m
  BY <1>2, <1>3, ParentOf
<1>5. ~ Over(t, h[m], h[q])
  BY <1>2, <1>3 DEF Heap
<1>6. h[m] \in Index /\ h[q] \in Index /\ h[0] \in Index
  BY <1>2, <1>4
<1>7. Over(t, h[q], h[0])
  BY <1>2, <1>5, <1>6, OverIsTotal
<1>8. q \in Bad
  BY <1>7, <1>4
<1> HIDE DEF q
<1> QED
  BY <1>8, <1>1, <1>4

-----------------------------------------------------------------------------
(* The controller's state in these terms *)

(* HeapButOne, said of the arrays as values, for each value of pc. *)
LEMMA HeapShape ==
  TypeOK /\ InRange /\ Entries =>
    /\ pc = "idle" =>
         (HeapButOne <=> Heap(interrupts, queue_heap, queue_heap_size))
    /\ pc = "up" =>
         (HeapButOne <=> UpHeap(interrupts, queue_heap, queue_heap_size, cur_i))
    /\ pc = "down" =>
         (HeapButOne <=> /\ DownHeap(interrupts, queue_heap, queue_heap_size, cur_i)
                         /\ \A i \in Live : Outranks(vec, queue_heap[i]))
<1> SUFFICES ASSUME TypeOK, InRange, Entries
             PROVE  /\ pc = "idle" =>
                         (HeapButOne <=> Heap(interrupts, queue_heap, queue_heap_size))
                    /\ pc = "up" =>
                         (HeapButOne <=> UpHeap(interrupts, queue_heap, queue_heap_size, cur_i))
                    /\ pc = "down" =>
                         (HeapButOne <=>
                            /\ DownHeap(interrupts, queue_heap, queue_heap_size, cur_i)
                            /\ \A i \in Live : Outranks(vec, queue_heap[i]))
  OBVIOUS
<1>1. Live \ {0} = 1 .. queue_heap_size - 1
  BY ControllerAssumption DEF TypeOK, Live
<1>2. \A i, j \in Live : InOrder(i, j) = ~ Over(interrupts, queue_heap[i], queue_heap[j])
  BY OutranksIsOver DEF Entries, InOrder, InRange
<1>3. \A i \in 1 .. queue_heap_size - 1 : i \in Live /\ parent_index(i) \in Live
  BY ParentOf, ControllerAssumption DEF TypeOK, Live
<1>4. CASE pc = "idle"
  BY <1>1, <1>2, <1>3, <1>4 DEF HeapButOne, Placed, Heap
<1>5. CASE pc = "up"
  <2>1. cur_i # 0 => parent_index(cur_i) \in Live
    BY <1>5, <1>1, <1>3 DEF TypeOK
  <2> QED BY <2>1, <1>1, <1>2, <1>3, <1>5 DEF HeapButOne, Placed, UpHeap
<1>6. CASE pc = "down"
  <2>1. cur_i # 0 => parent_index(cur_i) \in Live
    BY <1>6, <1>1, <1>3 DEF TypeOK
  <2> QED BY <2>1, <1>1, <1>2, <1>3, <1>6 DEF HeapButOne, Placed, DownHeap
<1> QED
  BY <1>4, <1>5, <1>6 DEF TypeOK

(* The same of the next state. *)
LEMMA HeapShapeNext ==
  (TypeOK /\ InRange /\ Entries =>
    /\ pc = "idle" =>
         (HeapButOne <=> Heap(interrupts, queue_heap, queue_heap_size))
    /\ pc = "up" =>
         (HeapButOne <=> UpHeap(interrupts, queue_heap, queue_heap_size, cur_i))
    /\ pc = "down" =>
         (HeapButOne <=> /\ DownHeap(interrupts, queue_heap, queue_heap_size, cur_i)
                         /\ \A i \in Live : Outranks(vec, queue_heap[i])))'
BY HeapShape, PTL

(* max_child_index returns a live child that no other child outranks. *)
LEMMA MaxChild ==
  ASSUME TypeOK, InRange, Entries, NEW c \in Nat, c <= last_parent_index(queue_heap_size)
  PROVE  /\ c \in Live
         /\ IsMaxChild(interrupts, queue_heap, queue_heap_size, c, max_child_index(c))
<1> DEFINE l == left_child_index(c)
           r == right_child_index(c)
           m == max_child_index(c)
           n == queue_heap_size
<1>1. n \in Nat
  BY ControllerAssumption DEF TypeOK
<1>2. /\ l \in 1 .. n - 1 /\ r \in Nat \ {0} /\ c \in Live
      /\ parent_index(l) = c /\ parent_index(r) = c
  BY <1>1, ChildrenOfParent, ParentOf
     DEF Live, left_child_index, right_child_index, parent_index
<1>3. \A i \in 1 .. n - 1 : parent_index(i) = c => i = l \/ i = r
  BY ParentOf
<1>4. \A i \in 1 .. n - 1 : queue_heap[i] \in Index
  BY <1>1 DEF Entries, InRange, Live
<1> HIDE DEF l, r
<1>5. CASE r < n /\ ~ Outranks(queue_heap[l], queue_heap[r])
  <2>1. m = r /\ r \in 1 .. n - 1
    BY <1>5, <1>2, <1>1 DEF max_child_index, l, r
  <2>2. ~ Over(interrupts, queue_heap[l], queue_heap[r])
    BY <1>5, <1>4, <1>2, <2>1, OutranksIsOver
  <2>3. ~ Over(interrupts, queue_heap[r], queue_heap[r])
    BY <1>4, <2>1, OverIsTotal DEF TypeOK
  <2> HIDE DEF m
  <2> QED BY <2>1, <2>2, <2>3, <1>2, <1>3 DEF IsMaxChild, m
<1>6. CASE ~ (r < n /\ ~ Outranks(queue_heap[l], queue_heap[r]))
  <2>1. m = l
    BY <1>6 DEF max_child_index, l, r
  <2>2. ~ Over(interrupts, queue_heap[l], queue_heap[l])
    BY <1>4, <1>2, OverIsTotal DEF TypeOK
  <2>3. r < n => ~ Over(interrupts, queue_heap[r], queue_heap[l])
    <3> SUFFICES ASSUME r < n PROVE ~ Over(interrupts, queue_heap[r], queue_heap[l])
      OBVIOUS
    <3>1. r \in 1 .. n - 1
      BY <1>1, <1>2
    <3>2. Over(interrupts, queue_heap[l], queue_heap[r])
      BY <3>1, <1>2, <1>4, <1>6, OutranksIsOver
    <3> QED BY <3>1, <3>2, <1>2, <1>4, OverIsTotal DEF TypeOK
  <2>4. \A i \in 1 .. n - 1 :
          parent_index(i) = c => ~ Over(interrupts, queue_heap[i], queue_heap[l])
    BY <2>2, <2>3, <1>3, <1>1
  <2> HIDE DEF m
  <2> QED BY <2>1, <2>4, <1>2 DEF IsMaxChild, m
<1> QED
  BY <1>5, <1>6

(* A heap that does not hold v has room for it: the live entries are       *)
(* different vectors, and fewer than there are.                            *)
LEMMA RoomForOneMore ==
  ASSUME NEW n \in 0 .. UINT8_MAX, NEW h \in [Index -> Byte], NEW v \in Index,
         \A i \in 0 .. n - 1 : h[i] \in Index \ {v},
         \A i, j \in 0 .. n - 1 : h[i] = h[j] => i = j
  PROVE  n < UINT8_MAX
<1> SUFFICES ASSUME n = UINT8_MAX PROVE FALSE
  BY ControllerAssumption
<1> DEFINE S == 0 .. UINT8_MAX - 1
           f == [i \in S |-> h[i]]
<1>1. IsFiniteSet(S) /\ Cardinality(S) = UINT8_MAX
  BY FS_Interval, ControllerAssumption
<1>2. IsFiniteSet(S \ {v}) /\ Cardinality(S \ {v}) = UINT8_MAX - 1
  BY <1>1, FS_RemoveElement DEF Index
<1>3. f \in [S -> S \ {v}]
  BY DEF Index
<1>4. Cardinality(S \ {v}) < Cardinality(S)
  BY <1>1, <1>2, ControllerAssumption
<1> HIDE DEF S, f
<1>5. \E x, y \in S : x # y /\ f[x] = f[y]
  BY <1>1, <1>2, <1>3, <1>4, FS_PigeonHole
<1> QED
  BY <1>5 DEF S, f

(* What a percolation step does to the invariant, but for the order. *)
LEMMA SwapStep ==
  ASSUME IInv, InRange, NEW j \in Live, cur_i \in Live, pc \in {"up", "down"},
         Swap(cur_i, j), cur_i' = j,
         UNCHANGED <<interrupts, queue_heap_size, pc, vec>>
  PROVE  /\ TypeOK' /\ TableMatchesHeap' /\ Entries'
         /\ (pc = "down" => vec \in Vec)'
         /\ (pc = "down" => \A i \in Live : Outranks(vec, queue_heap[i]))'
<1>1. queue_heap' = Swapped(queue_heap, cur_i, j)
  BY DEF Swap, Swapped
<1>2. Live' = Live /\ Live = 0 .. queue_heap_size - 1
  BY DEF Live
<1>3. /\ queue_heap' \in [Index -> Byte]
      /\ \A k \in Live : \E l \in Live : queue_heap'[k] = queue_heap[l]
      /\ \A k \in Live : \E l \in Live : queue_heap[k] = queue_heap'[l]
      /\ (\A k, l \in Live : queue_heap[k] = queue_heap[l] => k = l)
           => (\A k, l \in Live : queue_heap'[k] = queue_heap'[l] => k = l)
  <2> DEFINE h == queue_heap
             g == queue_heap'
             i == cur_i
  <2>1. h \in [Index -> Byte] /\ Live \subseteq Index
    BY ControllerAssumption DEF IInv, TypeOK, Live, Index
  <2>2. i \in Live /\ j \in Live
    OBVIOUS
  <2>3. /\ g \in [Index -> Byte]
        /\ g[i] = h[j] /\ g[j] = h[i]
        /\ \A k \in Live : k # i /\ k # j => g[k] = h[k]
    BY <1>1, <2>1 DEF Swapped
  <2> HIDE DEF h, g, i
  <2>4. /\ \A k \in Live : \E l \in Live : g[k] = h[l]
        /\ \A k \in Live : \E l \in Live : h[k] = g[l]
    BY <2>2, <2>3
  <2>5. (\A k, l \in Live : h[k] = h[l] => k = l)
          => (\A k, l \in Live : g[k] = g[l] => k = l)
    BY <2>2, <2>3
  <2> QED BY <2>3, <2>4, <2>5 DEF h, g
<1>4. Live \subseteq Index
  BY ControllerAssumption DEF IInv, TypeOK, Live, Index
<1>5. TypeOK'
  BY <1>2, <1>3, <1>4 DEF IInv, TypeOK
<1>6. Entries'
  BY <1>2, <1>3, ZenonT(40) DEF IInv, Entries
<1>7. \A v \in Vec : PriorityOf(v)' = PriorityOf(v)
  BY ControllerAssumption DEF PriorityOf, InRange, Index
<1>8. \A v \in Vec : (\E i \in Live : queue_heap'[i] = v) <=> (\E i \in Live : queue_heap[i] = v)
  <2>1. ASSUME NEW v \in Vec, NEW i \in Live, queue_heap'[i] = v
        PROVE  \E k \in Live : queue_heap[k] = v
    BY <2>1, <1>3
  <2>2. ASSUME NEW v \in Vec, NEW i \in Live, queue_heap[i] = v
        PROVE  \E k \in Live : queue_heap'[k] = v
    BY <2>2, <1>3
  <2> QED BY <2>1, <2>2
<1>9. TableMatchesHeap'
  <2>1. (\A v \in Vec :
          PriorityOf(v) # IMPOSSIBLE_PRIORITY
            <=> (\E i \in Live : queue_heap[i] = v) \/ (pc = "down" /\ v = vec))'
    BY <1>2, <1>7, <1>8 DEF IInv, TableMatchesHeap
  <2>2. (\A i, k \in Live : queue_heap[i] = queue_heap[k] => i = k)'
    BY <1>2, <1>3 DEF IInv, TableMatchesHeap
  <2>3. ASSUME pc = "down", NEW k \in Live PROVE queue_heap'[k] # vec
    <3>1. PICK l \in Live : queue_heap'[k] = queue_heap[l]
      BY <1>3
    <3> QED BY <3>1, <2>3 DEF IInv, TableMatchesHeap
  <2>4. (pc = "down" => \A i \in Live : queue_heap[i] # vec)'
    BY <2>3, <1>2
  <2> QED BY <2>1, <2>2, <2>4 DEF TableMatchesHeap
<1>10. ASSUME pc = "down", NEW k \in Live PROVE Outranks(vec, queue_heap[k])'
  <2>1. PICK l \in Live : queue_heap'[k] = queue_heap[l]
    BY <1>3
  <2>2. Outranks(vec, queue_heap[l]) /\ vec \in Vec /\ queue_heap[l] \in Vec
    BY <1>10 DEF IInv, HeapButOne, Entries
  <2> QED BY <2>1, <2>2, <1>7 DEF Outranks
<1> QED
  BY <1>5, <1>6, <1>9, <1>10, <1>2 DEF IInv

(* One iteration of percolate_up. *)
LEMMA PercolateUpKeepsIInv ==
  ASSUME IInv, InRange, PercolateUp
  PROVE  IInv'
<1> DEFINE p == parent_index(cur_i)
<1>1. /\ queue_heap_size \in 0 .. UINT8_MAX /\ cur_i \in 1 .. queue_heap_size - 1
      /\ cur_i \in Live /\ p \in Live
  BY ParentOf, ControllerAssumption DEF PercolateUp, CanGoUp, IInv, TypeOK, Live
<1>2. \A i \in 0 .. queue_heap_size - 1 : queue_heap[i] \in Index
  BY DEF IInv, Entries, InRange, Live
<1>3. UpHeap(interrupts, queue_heap, queue_heap_size, cur_i)
  BY HeapShape DEF IInv, PercolateUp
<1>4. Over(interrupts, queue_heap[cur_i], queue_heap[p])
  BY <1>1, <1>2, OutranksIsOver DEF PercolateUp, CanGoUp, should_percolate_up, Live
<1>5. UpHeap(interrupts, Swapped(queue_heap, cur_i, p), queue_heap_size, p)
  BY <1>1, <1>2, <1>3, <1>4, ClimbKeepsOrder DEF IInv, TypeOK
<1>6. TypeOK' /\ TableMatchesHeap' /\ Entries' /\ (pc = "down" => vec \in Vec)'
  BY <1>1, SwapStep DEF PercolateUp
<1>7. UpHeap(interrupts, queue_heap, queue_heap_size, cur_i)'
  BY <1>5 DEF PercolateUp, Swap, Swapped, UpHeap, Over
<1>8. HeapButOne'
  BY <1>6, <1>7, HeapShapeNext DEF PercolateUp
<1> QED
  BY <1>6, <1>8 DEF IInv

(* One iteration of percolate_down. *)
LEMMA PercolateDownKeepsIInv ==
  ASSUME IInv, InRange, PercolateDown
  PROVE  IInv'
<1> DEFINE m == max_child_index(cur_i)
<1>1. cur_i \in Nat /\ queue_heap_size \in 0 .. UINT8_MAX
  BY ControllerAssumption DEF IInv, TypeOK, Index
<1>2. /\ cur_i \in Live
      /\ IsMaxChild(interrupts, queue_heap, queue_heap_size, cur_i, m)
  BY <1>1, MaxChild DEF PercolateDown, CanGoDown, IInv
<1>3. \A i \in 0 .. queue_heap_size - 1 : queue_heap[i] \in Index
  BY DEF IInv, Entries, InRange, Live
<1>4. m \in Live
  BY <1>1, <1>2 DEF IsMaxChild, Live
<1>5. DownHeap(interrupts, queue_heap, queue_heap_size, cur_i)
  BY HeapShape DEF IInv, PercolateDown
<1>6. Over(interrupts, queue_heap[m], queue_heap[cur_i])
  BY <1>2, <1>3, <1>4, OutranksIsOver
     DEF PercolateDown, CanGoDown, should_percolate_up, Live
<1>7. DownHeap(interrupts, Swapped(queue_heap, cur_i, m), queue_heap_size, m)
  BY <1>1, <1>2, <1>3, <1>5, <1>6, SinkKeepsOrder DEF IInv, TypeOK, Live
<1>8. /\ TypeOK' /\ TableMatchesHeap' /\ Entries' /\ (pc = "down" => vec \in Vec)'
      /\ (pc = "down" => \A i \in Live : Outranks(vec, queue_heap[i]))'
  BY <1>2, <1>4, SwapStep DEF PercolateDown
<1>9. DownHeap(interrupts, queue_heap, queue_heap_size, cur_i)'
  BY <1>7 DEF PercolateDown, Swap, Swapped, DownHeap, Over
<1>10. HeapButOne'
  BY <1>8, <1>9, HeapShapeNext DEF PercolateDown
<1> QED
  BY <1>8, <1>10 DEF IInv

(* An alert appends a vector that the heap has room for. *)
LEMMA AlertKeepsIInv ==
  ASSUME IInv, InRange, NEW v \in Vec, NEW p \in Priority, Alert(v, p)
  PROVE  IInv'
<1> DEFINE n == queue_heap_size
<1>1. v \in Index /\ p \in Byte /\ p # IMPOSSIBLE_PRIORITY /\ pc = "idle"
  BY ControllerAssumption DEF InRange, Alert
<1>2. \A i \in Live : queue_heap[i] \in Index \ {v}
  <2>1. PriorityOf(v) = IMPOSSIBLE_PRIORITY
    BY DEF Alert
  <2>2. \A i \in Live : queue_heap[i] # v
    BY <2>1 DEF IInv, TableMatchesHeap
  <2> QED BY <2>2 DEF IInv, Entries, InRange
<1>3. n \in Nat /\ n < UINT8_MAX
  <2>1. n \in 0 .. UINT8_MAX /\ Live = 0 .. n - 1
    BY DEF IInv, TypeOK, Live
  <2> QED BY <2>1, <1>1, <1>2, RoomForOneMore, ControllerAssumption
            DEF IInv, TypeOK, TableMatchesHeap
<1>4. /\ interrupts' = [w \in Index |-> IF w = v THEN p ELSE interrupts[w]]
      /\ queue_heap' = [queue_heap EXCEPT ![n] = v]
      /\ n' = n + 1 /\ pc' = "up" /\ cur_i' = n /\ vec' = vec
  <2>1. v < UINT8_MAX
    BY <1>1, ControllerAssumption DEF Index
  <2>2. queue_heap' = [queue_heap EXCEPT ![queue_heap_size] = v]
    BY <2>1 DEF Alert
  <2> QED BY <2>2 DEF Alert
<1>5. TypeOK'
  BY <1>1, <1>3, <1>4, ControllerAssumption DEF IInv, TypeOK, Index, Byte, Live
<1>6. Live' = Live \cup {n} /\ n \notin Live /\ Live \subseteq Index /\ n \in Index
  BY <1>3, <1>4, ControllerAssumption DEF Live, Index
<1>7. /\ queue_heap'[n] = v
      /\ \A i \in Live : queue_heap'[i] = queue_heap[i]
  BY <1>4, <1>6 DEF IInv, TypeOK
<1>8. Entries'
  BY <1>6, <1>7 DEF IInv, Entries
<1>9. /\ PriorityOf(v)' = p
      /\ \A w \in Vec \ {v} : PriorityOf(w)' = PriorityOf(w)
  BY <1>1, <1>4, ControllerAssumption DEF PriorityOf, InRange, Index, IInv, TypeOK
<1>10. TableMatchesHeap'
  <2>1. ASSUME NEW w \in Vec
        PROVE  PriorityOf(w)' # IMPOSSIBLE_PRIORITY <=> \E i \in Live' : queue_heap'[i] = w
    <3>1. CASE w = v
      BY <3>1, <1>1, <1>6, <1>7, <1>9
    <3>2. CASE w # v
      BY <3>2, <1>1, <1>6, <1>7, <1>9 DEF IInv, TableMatchesHeap
    <3> QED BY <3>1, <3>2
  <2>2. \A i, j \in Live' : queue_heap'[i] = queue_heap'[j] => i = j
    BY <1>2, <1>6, <1>7 DEF IInv, TableMatchesHeap
  <2> QED BY <2>1, <2>2, <1>4 DEF TableMatchesHeap, IMPOSSIBLE_PRIORITY
<1>11. HeapButOne'
  <2>1. Heap(interrupts, queue_heap, n)
    BY <1>1, HeapShape DEF IInv
  <2>2. UpHeap(interrupts, queue_heap, queue_heap_size, cur_i)'
    <3>1. n' - 1 = n /\ cur_i' = n
      BY <1>3, <1>4
    <3> SUFFICES ASSUME NEW i \in 1 .. n
                 PROVE  /\ i # n => ~ Over(interrupts', queue_heap'[i],
                                           queue_heap'[parent_index(i)])
                        /\ parent_index(i) # n
      BY <3>1 DEF UpHeap
    <3>2. parent_index(i) \in Live /\ parent_index(i) # n
      BY <1>3, ParentOf DEF Live
    <3>3. ASSUME i # n
          PROVE  ~ Over(interrupts', queue_heap'[i], queue_heap'[parent_index(i)])
      <4>1. i \in Live /\ i \in 1 .. n - 1
        BY <1>3, <3>3 DEF Live
      <4>2. ~ Over(interrupts, queue_heap[i], queue_heap[parent_index(i)])
        BY <2>1, <4>1 DEF Heap
      <4>3. /\ queue_heap'[i] = queue_heap[i]
            /\ queue_heap'[parent_index(i)] = queue_heap[parent_index(i)]
            /\ interrupts'[queue_heap[i]] = interrupts[queue_heap[i]]
            /\ interrupts'[queue_heap[parent_index(i)]]
                 = interrupts[queue_heap[parent_index(i)]]
        BY <4>1, <3>2, <1>2, <1>4, <1>7 DEF IInv, TypeOK
      <4> QED BY <4>2, <4>3 DEF Over
    <3> QED BY <3>2, <3>3
  <2> QED BY <2>2, <1>4, <1>5, <1>8, HeapShapeNext DEF InRange
<1> QED
  BY <1>4, <1>5, <1>8, <1>10, <1>11 DEF IInv

(* percolate_up stops where the entry is in place: a heap. *)
LEMMA AlertReturnsKeepsIInv ==
  ASSUME IInv, InRange, AlertReturns
  PROVE  IInv'
<1>1. /\ pc = "up" /\ pc' = "idle" /\ cur_i' = 0
      /\ UNCHANGED <<interrupts, queue_heap, queue_heap_size, vec>>
  BY DEF AlertReturns
<1>2. TypeOK' /\ Entries' /\ TableMatchesHeap'
  BY <1>1, ControllerAssumption
     DEF IInv, TypeOK, Entries, TableMatchesHeap, Live, PriorityOf, Index,
         IMPOSSIBLE_PRIORITY
<1>3. UpHeap(interrupts, queue_heap, queue_heap_size, cur_i)
  BY <1>1, HeapShape DEF IInv
<1>4. cur_i # 0 => ~ Over(interrupts, queue_heap[cur_i], queue_heap[parent_index(cur_i)])
  <2> SUFFICES ASSUME cur_i # 0
               PROVE  ~ Over(interrupts, queue_heap[cur_i], queue_heap[parent_index(cur_i)])
    OBVIOUS
  <2>1. cur_i \in Live /\ parent_index(cur_i) \in Live
    BY <1>1, ParentOf, ControllerAssumption DEF IInv, TypeOK, Live, Index
  <2>2. queue_heap[cur_i] \in Index /\ queue_heap[parent_index(cur_i)] \in Index
    BY <2>1 DEF IInv, Entries, InRange
  <2> QED BY <2>2, OutranksIsOver DEF AlertReturns, CanGoUp, should_percolate_up
<1>5. Heap(interrupts, queue_heap, queue_heap_size)
  BY <1>3, <1>4 DEF UpHeap, Heap
<1>6. HeapButOne'
  <2>1. Heap(interrupts, queue_heap, queue_heap_size)'
    BY <1>1, <1>5 DEF Heap, Over
  <2> QED BY <2>1, <1>1, <1>2, HeapShapeNext DEF InRange
<1> QED
  BY <1>1, <1>2, <1>6 DEF IInv

(* The last entry moves to the root, the only one out of place there. *)
LEMMA DequeueKeepsIInv ==
  ASSUME IInv, InRange, Dequeue
  PROVE  IInv'
<1> DEFINE n == queue_heap_size
           h == queue_heap
<1>1. n \in 1 .. UINT8_MAX /\ pc = "idle"
  BY ControllerAssumption DEF Dequeue, IInv, TypeOK
<1>2. /\ vec' = h[0] /\ h' = [h EXCEPT ![0] = h[n - 1]]
      /\ n' = n - 1 /\ pc' = "down" /\ cur_i' = 0 /\ interrupts' = interrupts
  BY DEF Dequeue
<1>3. Live = 0 .. n - 1 /\ Live' = 0 .. n - 2 /\ Live \subseteq Index
  BY <1>1, <1>2, ControllerAssumption DEF Live, Index
<1>4. \A i \in Live : h[i] \in Index /\ h[i] \in Vec
  BY DEF IInv, Entries, InRange
<1>5. /\ h' \in [Index -> Byte]
      /\ 0 \in Live' => h'[0] = h[n - 1]
      /\ \A i \in Live' \ {0} : h'[i] = h[i]
  BY <1>1, <1>2, <1>3 DEF IInv, TypeOK
<1>6. TypeOK'
  BY <1>1, <1>2, <1>3, <1>4, <1>5, ControllerAssumption DEF IInv, TypeOK, Index, Byte
<1>7. Entries' /\ vec' \in Vec
  BY <1>1, <1>2, <1>3, <1>4, <1>5 DEF Entries
<1>8. \A i, j \in Live : h[i] = h[j] => i = j
  BY DEF IInv, TableMatchesHeap
<1>9. TableMatchesHeap'
  <2>1. \A v \in Vec : PriorityOf(v)' = PriorityOf(v)
    BY <1>2, ControllerAssumption DEF PriorityOf, InRange, Index
  <2>2. ASSUME NEW v \in Vec
        PROVE  (\E i \in Live : h[i] = v) <=> (\E i \in Live' : h'[i] = v) \/ v = vec'
    <3>1. ASSUME NEW i \in Live, h[i] = v
          PROVE  (\E k \in Live' : h'[k] = v) \/ v = vec'
      <4>1. CASE i = 0
        BY <4>1, <3>1, <1>2
      <4>2. CASE i # 0 /\ i = n - 1
        <5> 0 \in Live' /\ h'[0] = v
          BY <4>2, <3>1, <1>1, <1>3, <1>5
        <5> QED OBVIOUS
      <4>3. CASE i # 0 /\ i # n - 1
        <5> i \in Live' /\ h'[i] = v
          BY <4>3, <3>1, <1>1, <1>3, <1>5
        <5> QED OBVIOUS
      <4> QED BY <4>1, <4>2, <4>3
    <3>2. ASSUME NEW i \in Live', h'[i] = v
          PROVE  \E k \in Live : h[k] = v
      <4>1. i \in Live /\ n - 1 \in Live
        BY <1>1, <1>3
      <4> QED BY <4>1, <3>2, <1>5
    <3>3. vec' = h[0] /\ 0 \in Live
      BY <1>1, <1>2, <1>3
    <3> QED BY <3>1, <3>2, <3>3
  <2>3. \A v \in Vec : PriorityOf(v) # IMPOSSIBLE_PRIORITY <=> \E i \in Live : h[i] = v
    BY <1>1 DEF IInv, TableMatchesHeap
  <2>4. (\A v \in Vec :
          PriorityOf(v) # IMPOSSIBLE_PRIORITY
            <=> (\E i \in Live : queue_heap[i] = v) \/ (pc = "down" /\ v = vec))'
    BY <2>1, <2>2, <2>3, <1>2 DEF IMPOSSIBLE_PRIORITY
  <2>5. ASSUME NEW i \in Live' PROVE h'[i] # vec'
    <3>1. i \in Live /\ n - 1 \in Live /\ 0 \in Live /\ (i = 0 => n - 1 # 0)
      BY <1>1, <1>3
    <3> QED BY <3>1, <1>2, <1>5, <1>8
  <2>6. ASSUME NEW i \in Live', NEW j \in Live', h'[i] = h'[j] PROVE i = j
    <3>1. i \in Live /\ j \in Live /\ n - 1 \in Live /\ i # n - 1 /\ j # n - 1
      BY <1>1, <1>3
    <3> QED BY <3>1, <2>6, <1>5, <1>8
  <2> QED BY <2>4, <2>5, <2>6 DEF TableMatchesHeap
<1>10. HeapButOne'
  <2>1. Heap(interrupts, h, n)
    BY <1>1, HeapShape DEF IInv
  <2>2. \A i \in Live : ~ Over(interrupts, h[i], h[0])
    BY <1>1, <1>3, <1>4, <2>1, RootIsTop DEF IInv, TypeOK
  <2>3. DownHeap(interrupts, queue_heap, queue_heap_size, cur_i)'
    <3> SUFFICES ASSUME NEW i \in 1 .. n - 2, parent_index(i) # 0
                 PROVE  ~ Over(interrupts, h'[i], h'[parent_index(i)])
      BY <1>1, <1>2 DEF DownHeap
    <3>1. parent_index(i) \in Live' \ {0} /\ i \in Live' \ {0} /\ i \in 1 .. n - 1
      BY <1>1, <1>3, ParentOf
    <3> QED BY <3>1, <1>5, <2>1 DEF Heap
  <2>4. ASSUME NEW i \in Live' PROVE Outranks(vec, queue_heap[i])'
    <3>1. PICK k \in Live \ {0} : h'[i] = h[k]
      <4> CASE i = 0
        <5> n - 1 \in Live \ {0} /\ h'[i] = h[n - 1]
          BY <1>1, <1>3, <1>5
        <5> QED OBVIOUS
      <4> CASE i # 0
        <5> i \in Live \ {0} /\ h'[i] = h[i]
          BY <1>1, <1>3, <1>5
        <5> QED OBVIOUS
      <4> QED OBVIOUS
    <3>2. 0 \in Live /\ h[k] # h[0]
      BY <1>1, <1>3, <1>8
    <3>3. Over(interrupts, h[0], h[k])
      BY <3>2, <2>2, <1>4, OverIsTotal DEF IInv, TypeOK
    <3>4. Outranks(h[0], h[k])
      BY <3>2, <3>3, <1>4, OutranksIsOver
    <3>5. h[0] < UINT8_MAX /\ h[k] < UINT8_MAX
      BY <3>2, <1>4, ControllerAssumption DEF Index
    <3> QED BY <3>1, <3>4, <3>5, <1>2 DEF Outranks, PriorityOf
  <2> QED BY <2>3, <2>4, <1>2, <1>6, <1>7, HeapShapeNext DEF InRange
<1> QED
  BY <1>2, <1>6, <1>7, <1>9, <1>10 DEF IInv

(* percolate_down stops at a heap, and the table forgets the vector. *)
LEMMA TakeReturnsKeepsIInv ==
  ASSUME IInv, InRange, TakeReturns
  PROVE  IInv'
<1>1. vec \in Vec /\ vec \in Index /\ vec < UINT8_MAX /\ pc = "down"
  <2>1. pc = "down" /\ vec \in Vec
    BY DEF TakeReturns, IInv
  <2> QED BY <2>1, ControllerAssumption DEF InRange, Index
<1>2. /\ interrupts' = [w \in Index |-> IF w = vec THEN IMPOSSIBLE_PRIORITY ELSE interrupts[w]]
      /\ queue_heap' = queue_heap /\ queue_heap_size' = queue_heap_size
      /\ pc' = "idle" /\ cur_i' = 0 /\ vec' = 0
  BY <1>1 DEF TakeReturns
<1>3. \A i \in Live : queue_heap[i] \in Index /\ queue_heap[i] \in Vec /\ queue_heap[i] # vec
  BY <1>1 DEF IInv, Entries, InRange, TableMatchesHeap
<1>4. TypeOK'
  <2>1. /\ IMPOSSIBLE_PRIORITY \in Byte /\ 0 \in Byte /\ 0 \in Index
    BY ControllerAssumption DEF Byte, Index, IMPOSSIBLE_PRIORITY
  <2>2. interrupts' \in [Index -> Byte]
    BY <2>1, <1>2 DEF IInv, TypeOK
  <2> QED BY <2>1, <2>2, <1>2 DEF IInv, TypeOK
<1>5. Live' = Live /\ Live = 0 .. queue_heap_size - 1
  BY <1>2 DEF Live
<1>6. Entries'
  BY <1>2, <1>5 DEF IInv, Entries
<1>7. /\ PriorityOf(vec) # IMPOSSIBLE_PRIORITY
      /\ \A w \in Vec : PriorityOf(w)' = IF w = vec THEN IMPOSSIBLE_PRIORITY ELSE PriorityOf(w)
  <2>1. PriorityOf(vec) # IMPOSSIBLE_PRIORITY
    BY <1>1 DEF IInv, TableMatchesHeap
  <2>2. ASSUME NEW w \in Vec
        PROVE  PriorityOf(w)' = IF w = vec THEN IMPOSSIBLE_PRIORITY ELSE PriorityOf(w)
    <3>1. w \in Index /\ w < UINT8_MAX
      BY ControllerAssumption DEF InRange, Index
    <3> QED BY <3>1, <1>2 DEF PriorityOf
  <2> QED BY <2>1, <2>2
<1>8. TableMatchesHeap'
  <2>1. ASSUME NEW w \in Vec
        PROVE  PriorityOf(w)' # IMPOSSIBLE_PRIORITY <=> \E i \in Live : queue_heap[i] = w
    <3>1. CASE w = vec
      BY <3>1, <1>3, <1>7
    <3>2. CASE w # vec
      BY <3>2, <1>7 DEF IInv, TableMatchesHeap
    <3> QED BY <3>1, <3>2
  <2>2. \A i, j \in Live : queue_heap[i] = queue_heap[j] => i = j
    BY DEF IInv, TableMatchesHeap
  <2> QED BY <2>1, <2>2, <1>2, <1>5 DEF TableMatchesHeap, IMPOSSIBLE_PRIORITY
<1>9. Heap(interrupts, queue_heap, queue_heap_size)
  <2> DEFINE m == max_child_index(cur_i)
  <2>1. cur_i \in Nat /\ queue_heap_size \in 0 .. UINT8_MAX
    BY ControllerAssumption DEF IInv, TypeOK, Index
  <2>2. DownHeap(interrupts, queue_heap, queue_heap_size, cur_i)
    BY <1>1, HeapShape DEF IInv
  <2>3. \A i \in 0 .. queue_heap_size - 1 : queue_heap[i] \in Index
    BY <1>3, <1>5
  <2>4. interrupts \in [Index -> Byte] /\ queue_heap \in [Index -> Byte]
    BY DEF IInv, TypeOK
  <2>5. \/ cur_i > last_parent_index(queue_heap_size)
        \/ /\ cur_i \in 0 .. queue_heap_size - 1
           /\ IsMaxChild(interrupts, queue_heap, queue_heap_size, cur_i, m)
           /\ ~ Over(interrupts, queue_heap[m], queue_heap[cur_i])
    <3> SUFFICES ASSUME cur_i <= last_parent_index(queue_heap_size)
                 PROVE  /\ cur_i \in 0 .. queue_heap_size - 1
                        /\ IsMaxChild(interrupts, queue_heap, queue_heap_size, cur_i, m)
                        /\ ~ Over(interrupts, queue_heap[m], queue_heap[cur_i])
      <4> last_parent_index(queue_heap_size) \in Int
        BY <2>1 DEF last_parent_index
      <4> QED BY <2>1
    <3>1. /\ cur_i \in Live
          /\ IsMaxChild(interrupts, queue_heap, queue_heap_size, cur_i, m)
      BY <2>1, MaxChild DEF IInv
    <3>2. m \in Live
      BY <3>1, <2>1 DEF IsMaxChild, Live
    <3>3. ~ Outranks(queue_heap[m], queue_heap[cur_i])
      BY DEF TakeReturns, CanGoDown, should_percolate_up
    <3>4. ~ Over(interrupts, queue_heap[m], queue_heap[cur_i])
      BY <3>1, <3>2, <3>3, <1>3, OutranksIsOver
    <3> QED BY <3>1, <3>4, <1>5
  <2> HIDE DEF m
  <2> QED BY <2>1, <2>2, <2>3, <2>4, <2>5, SunkIsHeap
<1>10. HeapButOne'
  <2>1. Heap(interrupts, queue_heap, queue_heap_size)'
    <3> SUFFICES ASSUME NEW i \in 1 .. queue_heap_size - 1
                 PROVE  ~ Over(interrupts', queue_heap[i], queue_heap[parent_index(i)])
      BY <1>2 DEF Heap
    <3>1. i \in Live /\ parent_index(i) \in Live
      BY <1>5, ParentOf DEF IInv, TypeOK
    <3>2. /\ interrupts'[queue_heap[i]] = interrupts[queue_heap[i]]
          /\ interrupts'[queue_heap[parent_index(i)]]
               = interrupts[queue_heap[parent_index(i)]]
      BY <3>1, <1>2, <1>3
    <3>3. ~ Over(interrupts, queue_heap[i], queue_heap[parent_index(i)])
      BY <1>9 DEF Heap
    <3> QED BY <3>2, <3>3 DEF Over
  <2> QED BY <2>1, <1>2, <1>4, <1>6, HeapShapeNext DEF InRange
<1> QED
  BY <1>2, <1>4, <1>6, <1>8, <1>10 DEF IInv

(* Steps that change nothing. *)
LEMMA StutterKeepsIInv ==
  ASSUME IInv, UNCHANGED vars
  PROVE  IInv'
<1>1. /\ interrupts' = interrupts /\ queue_heap' = queue_heap
      /\ queue_heap_size' = queue_heap_size
      /\ pc' = pc /\ cur_i' = cur_i /\ vec' = vec
  BY DEF vars
<1>2. Live' = Live /\ \A v : PriorityOf(v)' = PriorityOf(v)
  BY <1>1 DEF Live, PriorityOf
<1>3. TypeOK'
  BY <1>1, <1>2 DEF IInv, TypeOK
<1>4. Entries'
  BY <1>1, <1>2 DEF IInv, Entries
<1>5. TableMatchesHeap'
  BY <1>1, <1>2 DEF IInv, TableMatchesHeap, IMPOSSIBLE_PRIORITY
<1>6. HeapButOne'
  BY <1>1, <1>2 DEF IInv, HeapButOne, Placed, InOrder, Outranks
<1> QED
  BY <1>1, <1>3, <1>4, <1>5, <1>6 DEF IInv

(* The empty heap, whatever bytes its array holds. *)
LEMMA InitIInv ==
  ASSUME Init, InRange
  PROVE  IInv
<1>1. queue_heap_size = 0 /\ pc = "idle" /\ Live = {}
  BY DEF Init, Live
<1>2. TypeOK
  <2>1. IMPOSSIBLE_PRIORITY \in Byte /\ 0 \in Byte /\ 0 \in Index /\ Garbage \subseteq Byte
    BY ControllerAssumption DEF Byte, Index, IMPOSSIBLE_PRIORITY
  <2>2. interrupts \in [Index -> Byte] /\ queue_heap \in [Index -> Byte]
    BY <2>1 DEF Init
  <2>3. queue_heap_size \in 0 .. UINT8_MAX /\ pc \in {"idle"} /\ cur_i = 0 /\ vec = 0
    BY ControllerAssumption DEF Init
  <2> QED BY <2>1, <2>2, <2>3 DEF TypeOK
<1>3. \A v \in Vec : PriorityOf(v) = IMPOSSIBLE_PRIORITY
  BY ControllerAssumption DEF Init, InRange, PriorityOf, Index
<1>4. TableMatchesHeap
  BY <1>1, <1>3 DEF TableMatchesHeap
<1>5. HeapButOne /\ Entries
  BY <1>1 DEF HeapButOne, Entries
<1> QED
  BY <1>1, <1>2, <1>4, <1>5 DEF IInv
-----------------------------------------------------------------------------
(* What the calls do to the table, as the queue sees it *)

(* A step that leaves the table alone is invisible to the queue. *)
LEMMA TableKept ==
  ASSUME InRange, UNCHANGED interrupts
  PROVE  Pending' = Pending
<1>1. \A v \in Vec : PriorityOf(v)' = PriorityOf(v)
  BY ControllerAssumption DEF InRange, PriorityOf, Index
<1>2. {w \in Vec : PriorityOf(w)' # IMPOSSIBLE_PRIORITY}
        = {w \in Vec : PriorityOf(w) # IMPOSSIBLE_PRIORITY}
  BY <1>1
<1> QED
  BY <1>1, <1>2 DEF Pending, IMPOSSIBLE_PRIORITY

(* Alert is the alert of the abstract queue. *)
LEMMA AlertIsQueued ==
  ASSUME InRange, NEW v \in Vec, NEW p \in Priority, Alert(v, p)
  PROVE  Queue!Alert(v, p)
<1>1. /\ PriorityOf(v) = IMPOSSIBLE_PRIORITY /\ p # IMPOSSIBLE_PRIORITY
      /\ interrupts' = [w \in Index |-> IF w = v THEN p ELSE interrupts[w]]
  BY ControllerAssumption DEF Alert
<1>2. \A w \in Vec : PriorityOf(w)' = IF w = v THEN p ELSE PriorityOf(w)
  BY <1>1, ControllerAssumption DEF InRange, PriorityOf, Index
<1> DEFINE D == {w \in Vec : PriorityOf(w) # IMPOSSIBLE_PRIORITY}
<1>3. {w \in Vec : PriorityOf(w)' # IMPOSSIBLE_PRIORITY} = D \cup {v} /\ v \notin D
  BY <1>1, <1>2
<1>4. Pending' = [w \in D \cup {v} |-> PriorityOf(w)']
  BY <1>3 DEF Pending, IMPOSSIBLE_PRIORITY
<1>5. DOMAIN Pending = D /\ \A w \in D : Pending[w] = PriorityOf(w)
  BY DEF Pending
<1>6. \A w \in D \cup {v} : PriorityOf(w)' = IF w \in D THEN PriorityOf(w) ELSE p
  BY <1>2, <1>3
<1> HIDE DEF D
<1> QED
  BY <1>4, <1>5, <1>6 DEF Queue!Alert, Queue!WithAlert

(* TakeReturns is the take of the abstract queue, of its top vector. *)
LEMMA TakeIsDequeued ==
  ASSUME IInv, InRange, TakeReturns
  PROVE  vec \in Vec /\ Queue!Take(vec)
<1>1. /\ pc = "down" /\ vec \in Vec
      /\ interrupts' = [w \in Index |-> IF w = vec THEN IMPOSSIBLE_PRIORITY ELSE interrupts[w]]
  BY DEF TakeReturns, IInv
<1>2. \A w \in Vec : PriorityOf(w)' = IF w = vec THEN IMPOSSIBLE_PRIORITY ELSE PriorityOf(w)
  BY <1>1, ControllerAssumption DEF InRange, PriorityOf, Index
<1> DEFINE D == {w \in Vec : PriorityOf(w) # IMPOSSIBLE_PRIORITY}
<1>3. {w \in Vec : PriorityOf(w)' # IMPOSSIBLE_PRIORITY} = D \ {vec}
  BY <1>2
<1>4. Pending' = [w \in D \ {vec} |-> PriorityOf(w)']
  BY <1>3 DEF Pending, IMPOSSIBLE_PRIORITY
<1>5. DOMAIN Pending = D /\ \A w \in D : Pending[w] = PriorityOf(w)
  BY DEF Pending
<1>6. vec \in D
  BY <1>1 DEF IInv, TableMatchesHeap
<1>7. ASSUME NEW w \in D \ {vec} PROVE Queue!Outranks(Pending, vec, w)
  <2>1. PICK i \in Live : queue_heap[i] = w
    BY <1>1 DEF IInv, TableMatchesHeap
  <2>2. Outranks(vec, w)
    BY <1>1, <2>1 DEF IInv, HeapButOne
  <2> HIDE DEF D
  <2> QED BY <2>2, <1>5, <1>6 DEF Outranks, Queue!Outranks
<1>8. \A w \in D \ {vec} : PriorityOf(w)' = PriorityOf(w)
  BY <1>2
<1> HIDE DEF D
<1>9. Queue!IsTop(Pending, vec)
  BY <1>5, <1>6, <1>7 DEF Queue!IsTop
<1>10. Pending' = Queue!Without(Pending, vec)
  BY <1>4, <1>5, <1>8 DEF Queue!Without
<1> QED
  BY <1>1, <1>9, <1>10 DEF Queue!Take

-----------------------------------------------------------------------------
(* The theorems *)

(* Every step keeps the inductive invariant. *)
LEMMA NextKeepsIInv ==
  ASSUME IInv, InRange, [Next]_vars
  PROVE  IInv'
<1>1. ASSUME NEW v \in Vec, NEW p \in Priority, Alert(v, p) PROVE IInv'
  BY <1>1, AlertKeepsIInv
<1>2. CASE Dequeue
  BY <1>2, DequeueKeepsIInv
<1>3. CASE PercolateUp
  BY <1>3, PercolateUpKeepsIInv
<1>4. CASE AlertReturns
  BY <1>4, AlertReturnsKeepsIInv
<1>5. CASE PercolateDown
  BY <1>5, PercolateDownKeepsIInv
<1>6. CASE TakeReturns
  BY <1>6, TakeReturnsKeepsIInv
<1>7. CASE UNCHANGED vars
  BY <1>7, StutterKeepsIInv
<1> QED
  BY <1>1, <1>2, <1>3, <1>4, <1>5, <1>6, <1>7 DEF Next

(* Every reachable state satisfies the inductive invariant, in the middle  *)
(* of the percolations of alert and take too.                              *)
THEOREM ControllerInvariant ==
  ASSUME InRange
  PROVE  Spec => []IInv
<1>1. Init => IInv
  BY InitIInv
<1>2. IInv /\ [Next]_vars => IInv'
  BY NextKeepsIInv
<1> QED
  BY <1>1, <1>2, PTL DEF Spec

(* The size stays within the array whatever is alerted, because a vector   *)
(* is enqueued once; the loops of the percolations index live entries.     *)
THEOREM TypeCorrect ==
  ASSUME InRange
  PROVE  Spec => []TypeOK
<1>1. IInv => TypeOK
  BY DEF IInv
<1> QED
  BY <1>1, ControllerInvariant, PTL

(* interrupts and queue_heap agree on what is pending, in the middle of a  *)
(* take too, when the vector is only in the table.                         *)
THEOREM TableAndHeapAgree ==
  ASSUME InRange
  PROVE  Spec => []TableMatchesHeap
<1>1. IInv => TableMatchesHeap
  BY DEF IInv
<1> QED
  BY <1>1, ControllerInvariant, PTL

(* One entry at most is out of place while a percolation runs. *)
THEOREM OneEntryOutOfPlace ==
  ASSUME InRange
  PROVE  Spec => []HeapButOne
<1>1. IInv => HeapButOne
  BY DEF IInv
<1> QED
  BY <1>1, ControllerInvariant, PTL

(* check_heap, which the code defines and never calls, would always        *)
(* return true between two operations.                                     *)
THEOREM HeapIsChecked ==
  ASSUME InRange
  PROVE  Spec => []CheckHeap
<1>1. IInv => CheckHeap
  <2> SUFFICES ASSUME IInv, pc = "idle",
                      NEW i \in 0 .. last_parent_index(queue_heap_size),
                      NEW c \in {left_child_index(i), right_child_index(i)}, c \in Live
               PROVE  ~ Outranks(queue_heap[c], queue_heap[i])
    BY DEF CheckHeap, check_heap, valid_child
  <2>1. queue_heap_size \in 0 .. UINT8_MAX
    BY DEF IInv, TypeOK
  <2>2. Heap(interrupts, queue_heap, queue_heap_size)
    BY HeapShape DEF IInv
  <2>3. c \in 1 .. queue_heap_size - 1 /\ i = parent_index(c) /\ i \in Live
    BY <2>1, ParentOf, ControllerAssumption
       DEF Live, left_child_index, right_child_index, parent_index
  <2>4. queue_heap[c] \in Index /\ queue_heap[i] \in Index
    BY <2>3 DEF IInv, Entries, InRange
  <2>5. ~ Over(interrupts, queue_heap[c], queue_heap[i])
    BY <2>2, <2>3 DEF Heap
  <2> QED BY <2>4, <2>5, OutranksIsOver
<1> QED
  BY <1>1, ControllerInvariant, PTL

(* interrupt_controller_peek names the pending vector that outranks every  *)
(* other, so cpu_signal_interrupt is offered the most urgent interrupt.    *)
THEOREM PeekReportsTop ==
  ASSUME InRange
  PROVE  Spec => []PeekIsTop
<1>1. IInv => PeekIsTop
  <2> SUFFICES ASSUME IInv, pc = "idle", queue_heap_size > 0, NEW v \in Vec,
                      PriorityOf(v) # IMPOSSIBLE_PRIORITY, v # queue_heap[0]
               PROVE  Outranks(queue_heap[0], v)
    BY DEF PeekIsTop
  <2>1. PICK i \in Live : queue_heap[i] = v
    BY DEF IInv, TableMatchesHeap
  <2>2. queue_heap_size \in 0 .. UINT8_MAX /\ 0 \in Live
    BY ControllerAssumption DEF IInv, TypeOK, Live
  <2>3. \A k \in 0 .. queue_heap_size - 1 : queue_heap[k] \in Index
    BY DEF IInv, Entries, InRange, Live
  <2>4. Heap(interrupts, queue_heap, queue_heap_size)
    BY HeapShape DEF IInv
  <2>5. ~ Over(interrupts, v, queue_heap[0])
    BY <2>1, <2>2, <2>3, <2>4, RootIsTop DEF IInv, TypeOK, Live
  <2>6. v \in Index /\ queue_heap[0] \in Index
    BY <2>1, <2>2, <2>3 DEF Live
  <2>7. Over(interrupts, queue_heap[0], v)
    BY <2>5, <2>6, OverIsTotal DEF IInv, TypeOK
  <2> QED BY <2>6, <2>7, OutranksIsOver
<1> QED
  BY <1>1, ControllerInvariant, PTL

(* The heap implements the queue: alert is a step of the queue when it     *)
(* records the priority, take when it forgets it, and each takes out the   *)
(* most urgent pending interrupt; what the loops do is not visible.        *)
THEOREM ImplementsQueue ==
  ASSUME InRange
  PROVE  Spec => QueueSpec
<1>1. Init => Queue!Init
  <2> SUFFICES ASSUME Init PROVE Pending = [v \in {} |-> 0]
    BY DEF Queue!Init
  <2>1. \A v \in Vec : PriorityOf(v) = IMPOSSIBLE_PRIORITY
    BY ControllerAssumption DEF Init, InRange, PriorityOf, Index
  <2>2. {w \in Vec : PriorityOf(w) # IMPOSSIBLE_PRIORITY} = {}
    BY <2>1
  <2> QED BY <2>2 DEF Pending
<1>2. IInv /\ [Next]_vars => [Queue!Next]_Pending
  <2> SUFFICES ASSUME IInv, [Next]_vars PROVE [Queue!Next]_Pending
    OBVIOUS
  <2>1. ASSUME NEW v \in Vec, NEW p \in Priority, Alert(v, p) PROVE Queue!Next
    BY <2>1, AlertIsQueued DEF Queue!Next
  <2>2. CASE TakeReturns
    BY <2>2, TakeIsDequeued DEF Queue!Next
  <2>3. CASE Dequeue \/ PercolateUp \/ AlertReturns \/ PercolateDown \/ UNCHANGED vars
    <3>1. UNCHANGED interrupts
      BY <2>3 DEF Dequeue, PercolateUp, AlertReturns, PercolateDown, vars
    <3> QED BY <3>1, TableKept
  <2> QED BY <2>1, <2>2, <2>3 DEF Next
<1> QED
  BY <1>1, <1>2, ControllerInvariant, PTL DEF Spec, QueueSpec, Queue!Spec
=============================================================================
