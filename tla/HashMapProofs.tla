---------------------------- MODULE HashMapProofs ---------------------------
(***************************************************************************)
(* For every hash function and list of sizes: the loops of the map stay in *)
(* its arrays, it grows in time, no node is lost or doubled while it does, *)
(* the iterator and hashmap_free forget none, and a lookup finds what was  *)
(* last set and not removed.                                               *)
(***************************************************************************)
EXTENDS HashMap, LeastNumber, FiniteSetTheorems

-----------------------------------------------------------------------------
(* Sizes and buckets *)

LEMMA SizesArePositive ==
  ASSUME NEW n \in 1 .. Len(Sizes)
  PROVE  Sizes[n] \in Nat \ {0}
BY HashMapAssumption

(* Every hash leads into the array. *)
LEMMA BucketInRange ==
  ASSUME NEW hash \in Nat, NEW n \in Nat \ {0}
  PROVE  hash % n \in Buckets(n)
BY DEF Buckets

LEMMA GrowIsInt ==
  ASSUME NEW n \in Nat
  PROVE  Grow(n) \in Int
<1>1. /\ LoadNumerator \in Nat
      /\ LoadDenominator \in Nat \ {0}
  BY HashMapAssumption
<1>2. n * LoadNumerator \in Int
  BY <1>1
<1> QED
  BY <1>1, <1>2 DEF Grow

-----------------------------------------------------------------------------
(* Chains *)

LEMMA AddedChain ==
  ASSUME NEW chain \in Seq(Node), NEW e \in Node
  PROVE  AddToBucket(chain, e) \in Seq(Node)
<1>1. CASE At(chain, e.key) = {}
  BY <1>1 DEF AddToBucket
<1>2. CASE At(chain, e.key) # {}
  <2>1. AddToBucket(chain, e)
          = [p \in DOMAIN chain |-> IF p \in At(chain, e.key) THEN e ELSE chain[p]]
    BY <1>2 DEF AddToBucket
  <2>2. DOMAIN chain = 1 .. Len(chain) /\ Len(chain) \in Nat
    OBVIOUS
  <2> QED
    BY <2>1, <2>2
<1> QED
  BY <1>1, <1>2

LEMMA RemovedChain ==
  ASSUME NEW chain \in Seq(Node), NEW p \in DOMAIN chain
  PROVE  RemoveAt(chain, p) \in Seq(Node)
<1>1. p \in 1 .. Len(chain) /\ Len(chain) \in Nat
  OBVIOUS
<1>2. SubSeq(chain, 1, p - 1) \in Seq(Node) /\ SubSeq(chain, p + 1, Len(chain)) \in Seq(Node)
  BY <1>1
<1> QED
  BY <1>2 DEF RemoveAt

(* The next full bucket is the first after i that is not empty.            *)
LEMMA NextFullBucket ==
  ASSUME TypeOK, NEW i \in Nat
  PROVE  /\ NextFull(i) \in 0 .. size
         /\ i < size => i < NextFull(i)
         /\ NextFull(i) < size => bucket_array[NextFull(i)] # <<>>
         /\ \A b \in Buckets(size) : i < b /\ b < NextFull(i) => bucket_array[b] = <<>>
<1> DEFINE full == {b \in Buckets(size) : b > i /\ bucket_array[b] # <<>>}
<1>1. size \in Nat \ {0}
  BY SizesArePositive DEF TypeOK, size
<1>2. full \subseteq Nat
  BY DEF Buckets
<1>3. CASE full = {}
  <2>1. NextFull(i) = size
    BY <1>3 DEF NextFull
  <2> QED
    BY <1>1, <1>3, <2>1
<1>4. CASE full # {}
  <2>1. \E b \in full : \A c \in full : b <= c
    BY <1>2, <1>4, LeastElement
  <2>2. NextFull(i) \in full /\ \A c \in full : NextFull(i) <= c
    BY <1>4, <2>1 DEF NextFull
  <2>3. \A b \in Buckets(size) : b \in Nat
    BY DEF Buckets
  <2> QED
    BY <1>1, <2>2, <2>3 DEF Buckets
<1> QED
  BY <1>3, <1>4

LEMMA FirstFullBucket ==
  ASSUME TypeOK
  PROVE  /\ FirstFull \in 0 .. size
         /\ FirstFull < size => bucket_array[FirstFull] # <<>>
<1>1. size \in Nat \ {0}
  BY SizesArePositive DEF TypeOK, size
<1> QED
  BY <1>1, NextFullBucket DEF FirstFull

-----------------------------------------------------------------------------
(* Types *)

LEMMA InitType == Init => TypeOK
<1> SUFFICES ASSUME Init PROVE TypeOK
  OBVIOUS
<1>1. 1 \in 1 .. Len(Sizes)
  BY HashMapAssumption
<1>2. bucket_array = [b \in Buckets(size) |-> <<>>] /\ cur_size = 1
  BY DEF Init, hashmap_allocate_bucket_array, size
<1> QED
  BY <1>1, <1>2 DEF Init, TypeOK

(* The types of what changes when an element is added.                     *)
LEMMA AddKeyType ==
  ASSUME TypeOK, NEW e \in Node, hashmap_add_key(e)
  PROVE  /\ DOMAIN bucket_array' = Buckets(size)
         /\ \A b \in Buckets(size) : bucket_array'[b] \in Seq(Node)
         /\ num_elements' \in Nat
         /\ num_elements' \in {num_elements, num_elements + 1}
<1> DEFINE b == hashmap_get_bucket(e.key)
<1>1. b \in Buckets(size)
  <2>1. size \in Nat \ {0} /\ Hash[e.key] \in Nat
    BY SizesArePositive, HashMapAssumption DEF TypeOK, size, Node
  <2> QED
    BY <2>1, BucketInRange DEF hashmap_get_bucket
<1>2. AddToBucket(bucket_array[b], e) \in Seq(Node)
  BY <1>1, AddedChain DEF TypeOK
<1>3. bucket_array' = [bucket_array EXCEPT ![b] = AddToBucket(@, e)]
  BY DEF hashmap_add_key
<1> HIDE DEF b
<1>4. num_elements' \in Nat /\ num_elements' \in {num_elements, num_elements + 1}
  BY DEF hashmap_add_key, TypeOK
<1> QED
  BY <1>1, <1>2, <1>3, <1>4 DEF TypeOK

(* The old array has a size while the map grows: it is not the first that  *)
(* is filled then.                                                         *)
Growing == pc = "rehash" => cur_size > 1

(* Every step keeps the types, one case for each operation of the map.     *)
LEMMA TypeKept == TypeOK /\ Growing /\ [Next]_vars => TypeOK' /\ Growing'
<1> SUFFICES ASSUME TypeOK, Growing, [Next]_vars PROVE TypeOK' /\ Growing'
  OBVIOUS
<1> USE DEF Growing
<1>1. size \in Nat \ {0}
  BY SizesArePositive DEF TypeOK, size
<1>2. CASE \E e \in Node : hashmap_set(e)
  <2>1. PICK e \in Node : hashmap_set(e)
    BY <1>2
  <2>2. hashmap_add_key(e) /\ pc = "idle"
    BY <2>1 DEF hashmap_set
  <2>3. UNCHANGED <<cur_size, pc>>
    BY <2>1 DEF hashmap_set
  <2> QED
    BY <2>2, <2>3, AddKeyType DEF TypeOK, size
<1>3. CASE \E e \in Node : hashmap_set_grows(e)
  <2>1. PICK e \in Node : hashmap_set_grows(e)
    BY <1>3
  <2>2. cur_size + 1 \in 1 .. Len(Sizes) /\ cur_size + 1 > 1
    BY <2>1, HashMapAssumption DEF hashmap_set_grows, MustGrow, TypeOK
  <2>3. /\ cur_size' = cur_size + 1
        /\ pc' = "rehash" /\ index' = 0 /\ element' = e
        /\ num_elements' = num_elements
        /\ old_bucket_array' = bucket_array
    BY <2>1 DEF hashmap_set_grows
  <2>4. size' = Sizes[cur_size + 1] /\ old_size' = size
    BY <2>3 DEF size, old_size, TypeOK
  <2>5. bucket_array' = [b \in Buckets(size') |-> <<>>]
    BY <2>1, <2>4 DEF hashmap_set_grows, hashmap_allocate_bucket_array
  <2>6. index' \in Buckets(old_size')
    BY <1>1, <2>3, <2>4 DEF Buckets
  <2> QED
    BY <2>2, <2>3, <2>4, <2>5, <2>6 DEF TypeOK
<1>4. CASE MoveNode
  <2> DEFINE node == Head(old_bucket_array[index])
             b == hashmap_get_bucket(node.key)
  <2>1. /\ pc = "rehash" /\ old_bucket_array[index] # <<>>
        /\ UNCHANGED <<cur_size, num_elements, pc, index, element>>
        /\ old_bucket_array' = [old_bucket_array EXCEPT ![index] = Tail(@)]
        /\ bucket_array' = [bucket_array EXCEPT ![b] = Append(@, node)]
    BY <1>4 DEF MoveNode
  <2>2. node \in Node /\ Tail(old_bucket_array[index]) \in Seq(Node)
    <3>1. old_bucket_array[index] \in Seq(Node)
      BY <2>1 DEF TypeOK
    <3> QED
      BY <2>1, <3>1
  <2>3. b \in Buckets(size)
    <3>1. Hash[node.key] \in Nat
      BY <2>2, HashMapAssumption DEF Node
    <3> QED
      BY <1>1, <3>1, BucketInRange DEF hashmap_get_bucket
  <2>4. Append(bucket_array[b], node) \in Seq(Node)
    BY <2>2, <2>3 DEF TypeOK
  <2>5. size' = size /\ old_size' = old_size
    BY <2>1 DEF size, old_size
  <2> HIDE DEF node, b
  <2> QED
    BY <2>1, <2>2, <2>3, <2>4, <2>5 DEF TypeOK
<1>5. CASE NextBucket
  <2>1. old_size \in Nat \ {0}
    <3>1. cur_size - 1 \in 1 .. Len(Sizes)
      BY <1>5 DEF NextBucket, TypeOK
    <3> QED
      BY <3>1, SizesArePositive DEF old_size
  <2>2. index' \in Buckets(old_size)
    BY <1>5, <2>1 DEF NextBucket, TypeOK, Buckets
  <2>3. UNCHANGED <<bucket_array, cur_size, num_elements, old_bucket_array, pc, element>>
    BY <1>5 DEF NextBucket
  <2>4. size' = size /\ old_size' = old_size
    BY <2>3 DEF size, old_size
  <2> QED
    BY <1>5, <2>2, <2>3, <2>4 DEF NextBucket, TypeOK
<1>6. CASE ResizeReturns
  <2>1. element \in Node /\ hashmap_add_key(element)
    BY <1>6 DEF ResizeReturns, TypeOK
  <2>2. pc' = "idle" /\ cur_size' = cur_size
    BY <1>6 DEF ResizeReturns
  <2> QED
    BY <2>1, <2>2, AddKeyType DEF TypeOK, size
<1>7. CASE \E key \in Key : hashmap_remove(key)
  <2>1. PICK key \in Key : hashmap_remove(key)
    BY <1>7
  <2> DEFINE b == hashmap_get_bucket(key)
  <2>2. /\ pc = "idle"
        /\ UNCHANGED <<cur_size, num_elements, pc>>
    BY <2>1 DEF hashmap_remove
  <2>3. PICK p \in At(bucket_array[b], key) :
          bucket_array' = [bucket_array EXCEPT ![b] = RemoveAt(@, p)]
    BY <2>1 DEF hashmap_remove
  <2>4. b \in Buckets(size)
    <3>1. Hash[key] \in Nat
      BY HashMapAssumption
    <3> QED
      BY <1>1, <3>1, BucketInRange DEF hashmap_get_bucket
  <2>5. RemoveAt(bucket_array[b], p) \in Seq(Node)
    <3>1. bucket_array[b] \in Seq(Node) /\ p \in DOMAIN bucket_array[b]
      BY <2>3, <2>4 DEF At, TypeOK
    <3> QED
      BY <3>1, RemovedChain
  <2>6. size' = size
    BY <2>2 DEF size
  <2> HIDE DEF b
  <2> QED
    BY <2>2, <2>3, <2>4, <2>5, <2>6 DEF TypeOK
<1>8. CASE GetIterator
  <2>1. /\ pc' = "iterate" /\ index' = FirstFull /\ position' = 1 /\ visited' = <<>>
        /\ UNCHANGED <<bucket_array, cur_size, num_elements>>
    BY <1>8 DEF GetIterator
  <2>2. size' = size
    BY <2>1 DEF size
  <2>3. FirstFull < size => 1 \in DOMAIN bucket_array[FirstFull]
    <3> SUFFICES ASSUME FirstFull < size PROVE 1 \in DOMAIN bucket_array[FirstFull]
      OBVIOUS
    <3>1. FirstFull \in Buckets(size) /\ bucket_array[FirstFull] # <<>>
      BY <1>1, FirstFullBucket DEF Buckets
    <3>2. bucket_array[FirstFull] \in Seq(Node)
      BY <3>1 DEF TypeOK
    <3> QED
      BY <3>1, <3>2
  <2> QED
    BY <2>1, <2>2, <2>3, FirstFullBucket DEF TypeOK
<1>9. CASE IteratorNext
  <2>1. /\ pc = "iterate" /\ pc' = "iterate" /\ index < size
        /\ visited' = Append(visited, bucket_array[index][position])
        /\ UNCHANGED <<bucket_array, cur_size, num_elements>>
    BY <1>9 DEF IteratorNext
  <2>2. size' = size
    BY <2>1 DEF size
  <2>3. index \in Buckets(size) /\ index \in Nat
    BY <1>1, <2>1 DEF TypeOK, Buckets
  <2>4. bucket_array[index] \in Seq(Node) /\ position \in DOMAIN bucket_array[index]
    BY <2>1, <2>3 DEF TypeOK
  <2>5. visited' \in Seq(Node)
    BY <2>1, <2>4 DEF TypeOK
  <2>6. index' \in 0 .. size /\ (index' < size => position' \in DOMAIN bucket_array[index'])
    <3>1. CASE position = Len(bucket_array[index])
      <4>1. index' = NextFull(index) /\ position' = 1
        BY <1>9, <3>1 DEF IteratorNext
      <4>2. NextFull(index) < size => NextFull(index) \in Buckets(size)
        BY <1>1, <2>3, NextFullBucket DEF Buckets
      <4>3. \A b \in Buckets(size) : bucket_array[b] # <<>> => 1 \in DOMAIN bucket_array[b]
        BY DEF TypeOK
      <4> QED
        BY <2>3, <4>1, <4>2, <4>3, NextFullBucket
    <3>2. CASE position # Len(bucket_array[index])
      <4>1. index' = index /\ position' = position + 1
        BY <1>9, <3>2 DEF IteratorNext
      <4>2. position + 1 \in DOMAIN bucket_array[index]
        BY <2>4, <3>2
      <4> QED
        BY <2>1, <4>1, <4>2 DEF TypeOK
    <3> QED
      BY <3>1, <3>2
  <2> QED
    BY <2>1, <2>2, <2>5, <2>6 DEF TypeOK
<1>10. CASE FreeNode
  <2>1. /\ pc = "free" /\ index < size /\ bucket_array[index] # <<>>
        /\ bucket_array' = [bucket_array EXCEPT ![index] = Tail(@)]
        /\ UNCHANGED <<cur_size, num_elements, pc>>
    BY <1>10 DEF FreeNode
  <2>2. size' = size
    BY <2>1 DEF size
  <2>3. index \in Buckets(size) => Tail(bucket_array[index]) \in Seq(Node)
    BY <2>1 DEF TypeOK
  <2> QED
    BY <2>1, <2>2, <2>3 DEF TypeOK
<1>11. CASE IteratorFree \/ BeginFree \/ FreeNextBucket \/ FreeArray
  <2>1. UNCHANGED <<bucket_array, cur_size, num_elements>> /\ pc' \in {"idle", "free", "freed"}
    BY <1>11 DEF IteratorFree, BeginFree, FreeNextBucket, FreeArray
  <2>2. size' = size
    BY <2>1 DEF size
  <2> QED
    BY <2>1, <2>2 DEF TypeOK
<1>12. CASE UNCHANGED vars
  <2>1. size' = size /\ old_size' = old_size
    BY <1>12 DEF vars, size, old_size
  <2> QED
    BY <1>12, <2>1 DEF vars, iterator, TypeOK
<1> QED
  BY <1>2, <1>3, <1>4, <1>5, <1>6, <1>7, <1>8, <1>9, <1>10, <1>11, <1>12 DEF Next

(* TypeOK is an invariant: whatever is set, removed and grown, the loops   *)
(* of hashmap_rehash and of the iterator stay inside their arrays.         *)
THEOREM TypeCorrect == Spec => []TypeOK
<1>1. Init => TypeOK /\ Growing
  BY InitType DEF Init, Growing
<1> QED
  BY <1>1, TypeKept, PTL DEF Spec

-----------------------------------------------------------------------------
(* Growth *)

(* While nodes are carried over there is room for the element that made    *)
(* the map grow, because the limits of the sizes increase.                 *)
RoomToGrow ==
  cur_size < Len(Sizes) =>
    /\ num_elements <= Grow(size)
    /\ pc = "rehash" => num_elements < Grow(size)

LEMMA RoomKept ==
  ASSUME TypeOK, RoomToGrow, [Next]_vars
  PROVE  RoomToGrow'
<1>1. size \in Nat \ {0} /\ Grow(size) \in Int /\ num_elements \in Nat
  BY SizesArePositive, GrowIsInt DEF TypeOK, size
<1>2. CASE \E e \in Node : hashmap_set(e)
  <2>1. PICK e \in Node : hashmap_set(e)
    BY <1>2
  <2>2. pc' = "idle" /\ cur_size' = cur_size /\ hashmap_add_key(e) /\ ~ MustGrow
    BY <2>1 DEF hashmap_set
  <2>3. num_elements' \in {num_elements, num_elements + 1}
    BY <2>2, AddKeyType
  <2>4. cur_size < Len(Sizes) => num_elements < Grow(size)
    BY <1>1, <2>2 DEF RoomToGrow, MustGrow
  <2>5. Grow(size)' = Grow(size)
    BY <2>2 DEF Grow, size
  <2> QED
    BY <1>1, <2>2, <2>3, <2>4, <2>5 DEF RoomToGrow
<1>3. CASE \E e \in Node : hashmap_set_grows(e)
  <2>1. num_elements = Grow(size) /\ cur_size \in 1 .. Len(Sizes) - 1
    BY <1>3, HashMapAssumption DEF hashmap_set_grows, MustGrow, TypeOK
  <2>2. cur_size' = cur_size + 1 /\ num_elements' = num_elements
    BY <1>3 DEF hashmap_set_grows
  <2>3. Grow(Sizes[cur_size]) < Grow(Sizes[cur_size + 1])
    BY <2>1, HashMapAssumption
  <2>4. Grow(size)' = Grow(Sizes[cur_size + 1])
    BY <2>2 DEF Grow, size
  <2>5. num_elements' < Grow(size)'
    BY <2>1, <2>2, <2>3, <2>4 DEF size
  <2>6. Grow(size)' \in Int
    <3>1. Sizes[cur_size + 1] \in Nat
      BY <2>1, HashMapAssumption
    <3> QED
      BY <2>4, <3>1, GrowIsInt
  <2> QED
    BY <1>1, <2>2, <2>5, <2>6 DEF RoomToGrow
<1>4. CASE ResizeReturns
  <2>1. /\ pc = "rehash" /\ pc' = "idle" /\ cur_size' = cur_size
        /\ hashmap_add_key(element) /\ element \in Node
    BY <1>4 DEF ResizeReturns, TypeOK
  <2>2. num_elements' \in {num_elements, num_elements + 1}
    BY <2>1, AddKeyType
  <2>3. Grow(size)' = Grow(size)
    BY <2>1 DEF Grow, size
  <2> QED
    BY <1>1, <2>1, <2>2, <2>3 DEF RoomToGrow
<1>5. CASE \/ MoveNode \/ NextBucket \/ (\E key \in Key : hashmap_remove(key))
           \/ GetIterator \/ IteratorNext \/ IteratorFree
           \/ BeginFree \/ FreeNode \/ FreeNextBucket \/ FreeArray \/ UNCHANGED vars
  <2>1. UNCHANGED <<cur_size, num_elements>> /\ (pc' = "rehash" => pc = "rehash")
    BY <1>5 DEF MoveNode, NextBucket, hashmap_remove, GetIterator, IteratorNext, IteratorFree,
                BeginFree, FreeNode, FreeNextBucket, FreeArray, vars
  <2>2. Grow(size)' = Grow(size)
    BY <2>1 DEF Grow, size
  <2> QED
    BY <2>1, <2>2 DEF RoomToGrow
<1> QED
  BY <1>2, <1>3, <1>4, <1>5 DEF Next

(* NeverPastGrowth is an invariant for every list of sizes whose limits    *)
(* increase: the == with which hashmap_set asks whether to grow misses no  *)
(* number of elements.                                                     *)
THEOREM GrowsInTime == Spec => []NeverPastGrowth
<1>1. Init => TypeOK /\ Growing /\ RoomToGrow
  <2> SUFFICES ASSUME Init PROVE RoomToGrow
    BY InitType DEF Init, Growing
  <2>1. /\ Sizes[1] \in Nat /\ LoadNumerator \in Nat /\ LoadDenominator \in Nat \ {0}
    BY HashMapAssumption
  <2>2. Sizes[1] * LoadNumerator \in Nat
    BY <2>1
  <2>3. Grow(Sizes[1]) >= 0
    BY <2>1, <2>2 DEF Grow
  <2> QED
    BY <2>3 DEF Init, RoomToGrow, size
<1>2. TypeOK /\ Growing /\ RoomToGrow /\ [Next]_vars => (TypeOK /\ Growing /\ RoomToGrow)'
  BY TypeKept, RoomKept
<1>3. RoomToGrow => NeverPastGrowth
  BY DEF RoomToGrow, NeverPastGrowth
<1> QED
  BY <1>1, <1>2, <1>3, PTL DEF Spec

-----------------------------------------------------------------------------
(* Freeing *)

(* The buckets that hashmap_free has passed are empty.                     *)
Emptied ==
  /\ pc = "free" =>
       /\ index \in 0 .. size
       /\ \A b \in Buckets(size) : b < index => bucket_array[b] = <<>>
  /\ pc = "freed" => \A b \in Buckets(size) : bucket_array[b] = <<>>

LEMMA EmptiedKept ==
  ASSUME TypeOK, Emptied, [Next]_vars
  PROVE  Emptied'
<1>1. size \in Nat \ {0} /\ \A b \in Buckets(size) : b \in Nat
  BY SizesArePositive DEF TypeOK, size, Buckets
<1>2. CASE BeginFree
  <2>1. pc' = "free" /\ index' = 0 /\ size' = size
    BY <1>2 DEF BeginFree, size
  <2> QED
    BY <1>1, <2>1 DEF Emptied, Buckets
<1>3. CASE FreeNode
  <2>1. /\ pc = "free" /\ index' = index /\ size' = size /\ pc' = pc
        /\ bucket_array' = [bucket_array EXCEPT ![index] = Tail(@)]
    BY <1>3 DEF FreeNode, size
  <2>2. \A b \in Buckets(size) : b < index => bucket_array'[b] = bucket_array[b]
    BY <1>1, <2>1 DEF Emptied, TypeOK
  <2> QED
    BY <2>1, <2>2 DEF Emptied
<1>4. CASE FreeNextBucket
  <2>1. /\ pc = "free" /\ index < size /\ bucket_array[index] = <<>>
        /\ index' = NextFull(index) /\ size' = size /\ pc' = pc /\ bucket_array' = bucket_array
    BY <1>4 DEF FreeNextBucket, size
  <2>2. index \in Nat /\ \A b \in Buckets(size) : b < index => bucket_array[b] = <<>>
    BY <1>1, <2>1 DEF Emptied
  <2>3. NextFull(index) \in 0 .. size
    BY <2>2, NextFullBucket
  <2>4. \A b \in Buckets(size) : b < NextFull(index) => bucket_array[b] = <<>>
    <3>1. \A b \in Buckets(size) : b < index \/ b = index \/ index < b
      BY <1>1, <2>2
    <3> QED
      BY <2>1, <2>2, <3>1, NextFullBucket
  <2> QED
    BY <2>1, <2>3, <2>4 DEF Emptied
<1>5. CASE FreeArray
  <2>1. pc = "free" /\ index >= size /\ pc' = "freed" /\ size' = size /\ bucket_array' = bucket_array
    BY <1>5 DEF FreeArray, size
  <2>2. \A b \in Buckets(size) : b < index
    BY <1>1, <2>1 DEF Emptied, Buckets
  <2> QED
    BY <2>1, <2>2 DEF Emptied
<1>6. CASE \/ \E e \in Node : hashmap_set(e) \/ hashmap_set_grows(e)
           \/ MoveNode \/ NextBucket \/ ResizeReturns \/ (\E key \in Key : hashmap_remove(key))
           \/ GetIterator \/ IteratorNext \/ IteratorFree
  <2>1. pc' \notin {"free", "freed"}
    BY <1>6 DEF hashmap_set, hashmap_set_grows, MoveNode, NextBucket, ResizeReturns, hashmap_remove,
                GetIterator, IteratorNext, IteratorFree
  <2> QED
    BY <2>1 DEF Emptied
<1>7. CASE UNCHANGED vars
  BY <1>7 DEF vars, Emptied, size
<1> QED
  BY <1>2, <1>3, <1>4, <1>5, <1>6, <1>7 DEF Next

(* FreesEverything is an invariant: whatever buckets are full, the walk of *)
(* hashmap_free has been through all of them when it frees the array.      *)
THEOREM AllNodesFreed == Spec => []FreesEverything
<1>1. Init => TypeOK /\ Growing /\ Emptied
  BY InitType DEF Init, Growing, Emptied
<1>2. TypeOK /\ Growing /\ Emptied /\ [Next]_vars => (TypeOK /\ Growing /\ Emptied)'
  BY TypeKept, EmptiedKept
<1>3. Emptied => FreesEverything
  BY DEF Emptied, FreesEverything
<1> QED
  BY <1>1, <1>2, <1>3, PTL DEF Spec

-----------------------------------------------------------------------------
(* Chains in which keys are different *)

(* A chain of a bucket of an array of n buckets: its nodes belong there,   *)
(* and have different keys.                                                *)
ChainOK(chain, b, n) ==
  \A p \in DOMAIN chain :
    /\ Hash[chain[p].key] % n = b
    /\ \A q \in DOMAIN chain : chain[p].key = chain[q].key => p = q

(* What a lookup in the chain can find. *)
ValuesOf(chain, key) == {chain[p].value : p \in At(chain, key)}

Absent(chain, key) == \A p \in DOMAIN chain : chain[p].key # key

(* A node for a key the chain does not have. *)
LEMMA AppendedChain ==
  ASSUME NEW chain \in Seq(Node), NEW e \in Node, NEW b, NEW n,
         ChainOK(chain, b, n), Hash[e.key] % n = b, Absent(chain, e.key)
  PROVE  /\ ChainOK(Append(chain, e), b, n)
         /\ \A key \in Key : key # e.key => ValuesOf(Append(chain, e), key) = ValuesOf(chain, key)
         /\ ValuesOf(Append(chain, e), e.key) = {e.value}
         /\ \A key : Absent(chain, key) /\ key # e.key => Absent(Append(chain, e), key)
<1> DEFINE new == Append(chain, e)
<1>1. /\ Len(chain) \in Nat
      /\ DOMAIN new = DOMAIN chain \cup {Len(chain) + 1}
      /\ Len(chain) + 1 \notin DOMAIN chain
      /\ \A p \in DOMAIN chain : new[p] = chain[p]
      /\ new[Len(chain) + 1] = e
  OBVIOUS
<1> HIDE DEF new
<1>2. ChainOK(new, b, n)
  BY <1>1 DEF ChainOK, Absent
<1>3. \A key : key # e.key => At(new, key) = At(chain, key)
  BY <1>1 DEF At
<1>4. \A key : At(chain, key) \subseteq DOMAIN chain
  BY DEF At
<1>5. \A key \in Key : key # e.key => ValuesOf(new, key) = ValuesOf(chain, key)
  BY <1>1, <1>3, <1>4 DEF ValuesOf
<1>6. At(new, e.key) = {Len(chain) + 1}
  BY <1>1 DEF At, Absent
<1>7. ValuesOf(new, e.key) = {e.value}
  BY <1>1, <1>6 DEF ValuesOf
<1>8. \A key : Absent(chain, key) /\ key # e.key => Absent(new, key)
  BY <1>1 DEF Absent
<1> QED
  BY <1>2, <1>5, <1>7, <1>8 DEF new

(* An equal key gives its node away.                                       *)
LEMMA ReplacedChain ==
  ASSUME NEW chain \in Seq(Node), NEW e \in Node, NEW b, NEW n,
         ChainOK(chain, b, n), At(chain, e.key) # {}
  PROVE  LET new == AddToBucket(chain, e)
         IN  /\ ChainOK(new, b, n)
             /\ \A key \in Key : key # e.key => ValuesOf(new, key) = ValuesOf(chain, key)
             /\ ValuesOf(new, e.key) = {e.value}
<1> DEFINE new == AddToBucket(chain, e)
<1>1. new = [p \in DOMAIN chain |-> IF p \in At(chain, e.key) THEN e ELSE chain[p]]
  BY DEF AddToBucket
<1> HIDE DEF new
<1>2. /\ DOMAIN new = DOMAIN chain
      /\ \A p \in DOMAIN chain : new[p].key = chain[p].key
      /\ \A p \in At(chain, e.key) : new[p] = e
      /\ \A p \in DOMAIN chain : p \notin At(chain, e.key) => new[p] = chain[p]
  BY <1>1 DEF At
<1>3. ChainOK(new, b, n)
  BY <1>2 DEF ChainOK
<1>4. \A key : At(new, key) = At(chain, key) /\ At(chain, key) \subseteq DOMAIN chain
  BY <1>2 DEF At
<1>5. ASSUME NEW key \in Key, key # e.key
      PROVE  ValuesOf(new, key) = ValuesOf(chain, key)
  <2>1. \A p \in At(chain, key) : new[p] = chain[p]
    BY <1>2, <1>5 DEF At
  <2> QED
    BY <1>4, <2>1 DEF ValuesOf
<1>6. ValuesOf(new, e.key) = {e.value}
  BY <1>2, <1>4 DEF ValuesOf
<1> QED
  BY <1>3, <1>5, <1>6 DEF new

(* A node unlinked from its chain, at either end or in the middle.         *)
LEMMA UnlinkedChain ==
  ASSUME NEW chain \in Seq(Node), NEW p \in DOMAIN chain, NEW b, NEW n,
         ChainOK(chain, b, n)
  PROVE  LET new == RemoveAt(chain, p)
         IN  /\ ChainOK(new, b, n)
             /\ \A key \in Key : key # chain[p].key => ValuesOf(new, key) = ValuesOf(chain, key)
             /\ Absent(new, chain[p].key)
             /\ \A key : Absent(chain, key) => Absent(new, key)
<1> DEFINE new == RemoveAt(chain, p)
           from(q) == IF q < p THEN q ELSE q + 1
<1>1. p \in 1 .. Len(chain) /\ Len(chain) \in Nat /\ DOMAIN chain = 1 .. Len(chain)
  OBVIOUS
<1>2. /\ DOMAIN new = 1 .. Len(chain) - 1
      /\ \A q \in 1 .. Len(chain) - 1 : new[q] = chain[from(q)]
  <2> DEFINE left == SubSeq(chain, 1, p - 1)
             right == SubSeq(chain, p + 1, Len(chain))
  <2>1. /\ left \in Seq(Node) /\ Len(left) = p - 1
        /\ \A q \in 1 .. p - 1 : left[q] = chain[q]
    BY <1>1
  <2>2. /\ right \in Seq(Node) /\ Len(right) = Len(chain) - p
        /\ \A q \in 1 .. Len(chain) - p : right[q] = chain[q + p]
    BY <1>1
  <2>3. new = left \o right
    BY DEF RemoveAt
  <2> HIDE DEF left, right, new
  <2>4. /\ left \o right \in Seq(Node)
        /\ Len(left \o right) = Len(left) + Len(right)
        /\ \A q \in 1 .. Len(left) + Len(right) :
             (left \o right)[q] = IF q <= Len(left) THEN left[q] ELSE right[q - Len(left)]
    BY <2>1, <2>2
  <2>5. DOMAIN new = 1 .. Len(chain) - 1
    <3>1. new \in Seq(Node) /\ Len(new) = Len(chain) - 1
      BY <1>1, <2>1, <2>2, <2>3, <2>4
    <3> QED
      BY <3>1
  <2>6. ASSUME NEW q \in 1 .. Len(chain) - 1
        PROVE  new[q] = chain[from(q)]
    <3>1. q \in 1 .. Len(left) + Len(right) /\ (q <= Len(left) <=> q < p)
      BY <1>1, <2>1, <2>2
    <3>2. new[q] = IF q < p THEN left[q] ELSE right[q - Len(left)]
      BY <2>3, <2>4, <3>1
    <3>3. CASE q < p
      BY <1>1, <2>1, <3>2, <3>3
    <3>4. CASE ~ (q < p)
      <4>1. q - Len(left) \in 1 .. Len(chain) - p /\ q - Len(left) + p = q + 1
        BY <1>1, <2>1, <3>4
      <4> QED
        BY <2>2, <3>2, <3>4, <4>1
    <3> QED
      BY <3>3, <3>4
  <2> QED
    BY <2>5, <2>6
<1>3. \A q \in DOMAIN new : from(q) \in DOMAIN chain \ {p} /\ new[q] = chain[from(q)]
  BY <1>1, <1>2
<1>4. \A r \in DOMAIN chain \ {p} : \E q \in DOMAIN new : from(q) = r
  <2> TAKE r \in DOMAIN chain \ {p}
  <2>1. CASE r < p
    BY <1>1, <1>2, <2>1
  <2>2. CASE ~ (r < p)
    <3>1. r - 1 \in DOMAIN new /\ from(r - 1) = r
      BY <1>1, <1>2, <2>2
    <3> QED
      BY <3>1
  <2> QED
    BY <2>1, <2>2
<1>5. \A q, r \in DOMAIN new : from(q) = from(r) => q = r
  BY <1>1, <1>2
<1> HIDE DEF from
<1>6. ChainOK(new, b, n)
  BY <1>3, <1>5 DEF ChainOK
<1>7. Absent(new, chain[p].key)
  BY <1>3 DEF ChainOK, Absent
<1>8. ASSUME NEW key \in Key, key # chain[p].key
      PROVE  ValuesOf(new, key) = ValuesOf(chain, key)
  <2>1. \A q \in At(new, key) : from(q) \in At(chain, key) /\ new[q].value = chain[from(q)].value
    BY <1>3 DEF At
  <2>2. \A r \in At(chain, key) : \E q \in At(new, key) : new[q].value = chain[r].value
    BY <1>3, <1>4, <1>8 DEF At
  <2> QED
    BY <2>1, <2>2 DEF ValuesOf
<1>9. \A key : Absent(chain, key) => Absent(new, key)
  BY <1>3 DEF Absent
<1> QED
  BY <1>6, <1>7, <1>8, <1>9 DEF new

LEMMA TailUnlinks ==
  ASSUME NEW chain \in Seq(Node), chain # <<>>
  PROVE  Tail(chain) = RemoveAt(chain, 1) /\ Head(chain) = chain[1] /\ 1 \in DOMAIN chain
<1>1. RemoveAt(chain, 1) = SubSeq(chain, 1, 0) \o SubSeq(chain, 2, Len(chain))
  BY DEF RemoveAt
<1>2. SubSeq(chain, 1, 0) = <<>>
  OBVIOUS
<1>3. Tail(chain) = SubSeq(chain, 2, Len(chain))
  OBVIOUS
<1>4. SubSeq(chain, 2, Len(chain)) \in Seq(Node)
  <2>1. Len(chain) \in Nat \ {0}
    OBVIOUS
  <2> QED
    BY <2>1
<1>5. <<>> \o SubSeq(chain, 2, Len(chain)) = SubSeq(chain, 2, Len(chain))
  BY <1>4
<1> QED
  BY <1>1, <1>2, <1>3, <1>5

LEMMA NoneAbsent ==
  ASSUME NEW chain, NEW key
  PROVE  /\ At(chain, key) = {} <=> Absent(chain, key)
         /\ Absent(chain, key) => ValuesOf(chain, key) = {}
<1>1. At(chain, key) = {} <=> Absent(chain, key)
  BY DEF At, Absent
<1> QED
  BY <1>1 DEF ValuesOf

(* Adding an element to its bucket, whether its key is there or not.       *)
LEMMA ChainWithKey ==
  ASSUME NEW chain \in Seq(Node), NEW e \in Node, NEW b, NEW n,
         ChainOK(chain, b, n), Hash[e.key] % n = b
  PROVE  LET new == AddToBucket(chain, e)
         IN  /\ ChainOK(new, b, n)
             /\ \A key \in Key : key # e.key => ValuesOf(new, key) = ValuesOf(chain, key)
             /\ ValuesOf(new, e.key) = {e.value}
<1>1. CASE At(chain, e.key) = {}
  <2>1. AddToBucket(chain, e) = Append(chain, e) /\ Absent(chain, e.key)
    BY <1>1, NoneAbsent DEF AddToBucket
  <2>2. /\ ChainOK(Append(chain, e), b, n)
        /\ \A key \in Key : key # e.key => ValuesOf(Append(chain, e), key) = ValuesOf(chain, key)
        /\ ValuesOf(Append(chain, e), e.key) = {e.value}
    BY <2>1, AppendedChain
  <2> QED
    BY <2>1, <2>2
<1>2. CASE At(chain, e.key) # {}
  BY <1>2, ReplacedChain
<1> QED
  BY <1>1, <1>2

-----------------------------------------------------------------------------
(* One node for each key *)

(* Every node is in the bucket of its hash, in the array where it is, and  *)
(* no other node has its key; the old array is empty up to the index.      *)
Placed ==
  /\ \A b \in Buckets(size) : ChainOK(bucket_array[b], b, size)
  /\ pc = "rehash" =>
       /\ \A b \in Buckets(old_size) : ChainOK(old_bucket_array[b], b, old_size)
       /\ \A b \in Buckets(old_size) : b < index => old_bucket_array[b] = <<>>
       /\ \A b \in Buckets(size), c \in Buckets(old_size) :
            \A p \in DOMAIN old_bucket_array[c] :
              Absent(bucket_array[b], old_bucket_array[c][p].key)

(* What a lookup finds in the array, and in the one that is given up.      *)
InNew(key) == ValuesOf(bucket_array[Hash[key] % size], key)
InOld(key) == ValuesOf(old_bucket_array[Hash[key] % old_size], key)

LEMMA FoundInBuckets ==
  ASSUME NEW key
  PROVE  /\ Found(key) = IF pc = "rehash" THEN InNew(key) \cup InOld(key) ELSE InNew(key)
         /\ Found(key)' = IF pc' = "rehash" THEN InNew(key)' \cup InOld(key)' ELSE InNew(key)'
BY DEF Found, InNew, InOld, ValuesOf, hashmap_get, hashmap_get_bucket

(* What a step does to all lookups.                                        *)
SetsTo(e) == \A key \in Key : Found(key)' = IF key = e.key THEN {e.value} ELSE Found(key)
Loses(lost) == \A key \in Key : Found(key)' = IF key = lost THEN {} ELSE Found(key)
Keeps == \A key \in Key : Found(key)' = Found(key)

(* Hashes lead into the arrays.                                            *)
LEMMA BucketsOfKeys ==
  ASSUME TypeOK
  PROVE  /\ size \in Nat \ {0}
         /\ \A key \in Key : Hash[key] % size \in Buckets(size)
         /\ \A b \in Buckets(size) : b \in Nat /\ bucket_array[b] \in Seq(Node)
<1>1. size \in Nat \ {0}
  BY SizesArePositive DEF TypeOK, size
<1>2. \A key \in Key : Hash[key] \in Nat
  BY HashMapAssumption
<1>3. \A key \in Key : Hash[key] % size \in Buckets(size)
  BY <1>1, <1>2, BucketInRange
<1>4. \A b \in Buckets(size) : b \in Nat
  BY <1>1 DEF Buckets
<1> QED
  BY <1>1, <1>3, <1>4 DEF TypeOK

LEMMA OldBucketsOfKeys ==
  ASSUME TypeOK, Growing, pc = "rehash"
  PROVE  /\ old_size \in Nat \ {0}
         /\ \A key \in Key : Hash[key] % old_size \in Buckets(old_size)
         /\ \A b \in Buckets(old_size) : b \in Nat /\ old_bucket_array[b] \in Seq(Node)
<1>1. cur_size - 1 \in 1 .. Len(Sizes)
  BY DEF TypeOK, Growing
<1>2. old_size \in Nat \ {0}
  BY <1>1, SizesArePositive DEF old_size
<1>3. \A key \in Key : Hash[key] \in Nat
  BY HashMapAssumption
<1>4. \A key \in Key : Hash[key] % old_size \in Buckets(old_size)
  BY <1>2, <1>3, BucketInRange
<1>5. \A b \in Buckets(old_size) : b \in Nat
  BY <1>2 DEF Buckets
<1> QED
  BY <1>2, <1>4, <1>5 DEF TypeOK

(* hashmap_add_key, of a set with or without growth.                       *)
LEMMA KeyAdded ==
  ASSUME TypeOK, NEW e \in Node, hashmap_add_key(e), cur_size' = cur_size,
         \A b \in Buckets(size) : ChainOK(bucket_array[b], b, size)
  PROVE  /\ \A b \in Buckets(size) : ChainOK(bucket_array'[b], b, size)
         /\ \A key \in Key : InNew(key)' = IF key = e.key THEN {e.value} ELSE InNew(key)
<1> DEFINE b == Hash[e.key] % size
           new == AddToBucket(bucket_array[b], e)
<1>1. e.key \in Key /\ b \in Buckets(size) /\ bucket_array[b] \in Seq(Node)
  <2>1. e.key \in Key
    BY DEF Node
  <2> QED
    BY <2>1, BucketsOfKeys
<1>2. bucket_array' = [bucket_array EXCEPT ![b] = new] /\ DOMAIN bucket_array = Buckets(size)
  BY DEF hashmap_add_key, hashmap_get_bucket, TypeOK
<1>3. /\ ChainOK(new, b, size)
      /\ \A key \in Key : key # e.key => ValuesOf(new, key) = ValuesOf(bucket_array[b], key)
      /\ ValuesOf(new, e.key) = {e.value}
  BY <1>1, ChainWithKey
<1>4. size' = size
  BY DEF size
<1>5. ASSUME NEW key \in Key
      PROVE  InNew(key)' = IF key = e.key THEN {e.value} ELSE InNew(key)
  <2> DEFINE c == Hash[key] % size
  <2>1. c \in Buckets(size) /\ (key = e.key => c = b)
    BY BucketsOfKeys
  <2>2. InNew(key)' = ValuesOf(bucket_array'[c], key)
    BY <1>4 DEF InNew
  <2> HIDE DEF new, b, c
  <2>3. bucket_array'[c] = IF c = b THEN new ELSE bucket_array[c]
    BY <1>2, <2>1
  <2> QED
    BY <1>3, <2>1, <2>2, <2>3 DEF InNew, c
<1> HIDE DEF new, b
<1> QED
  BY <1>1, <1>2, <1>3, <1>5

(* Unlinking a node from a bucket of the array.                            *)
LEMMA NodeUnlinked ==
  ASSUME TypeOK, NEW b \in Buckets(size), NEW p \in DOMAIN bucket_array[b], cur_size' = cur_size,
         bucket_array' = [bucket_array EXCEPT ![b] = RemoveAt(@, p)],
         \A c \in Buckets(size) : ChainOK(bucket_array[c], c, size)
  PROVE  /\ bucket_array[b][p].key \in Key
         /\ \A c \in Buckets(size) : ChainOK(bucket_array'[c], c, size)
         /\ \A key \in Key : InNew(key)' = IF key = bucket_array[b][p].key THEN {} ELSE InNew(key)
<1> DEFINE new == RemoveAt(bucket_array[b], p)
           lost == bucket_array[b][p].key
<1>1. bucket_array[b] \in Seq(Node) /\ DOMAIN bucket_array = Buckets(size)
  BY DEF TypeOK
<1>2. lost \in Key /\ Hash[lost] % size = b
  <2>1. bucket_array[b][p] \in Node
    BY <1>1
  <2> QED
    BY <2>1 DEF Node, ChainOK
<1>3. /\ ChainOK(new, b, size)
      /\ \A key \in Key : key # lost => ValuesOf(new, key) = ValuesOf(bucket_array[b], key)
      /\ ValuesOf(new, lost) = {}
  <2>1. ChainOK(bucket_array[b], b, size)
    OBVIOUS
  <2> QED
    BY <1>1, <2>1, UnlinkedChain, NoneAbsent
<1>4. size' = size /\ bucket_array' = [bucket_array EXCEPT ![b] = new]
  BY DEF size
<1> HIDE DEF new, lost
<1>5. ASSUME NEW key \in Key
      PROVE  InNew(key)' = IF key = lost THEN {} ELSE InNew(key)
  <2> DEFINE c == Hash[key] % size
  <2>1. c \in Buckets(size) /\ (key = lost => c = b)
    BY <1>2, BucketsOfKeys
  <2>2. InNew(key)' = ValuesOf(bucket_array'[c], key)
    BY <1>4 DEF InNew
  <2> HIDE DEF c
  <2>3. bucket_array'[c] = IF c = b THEN new ELSE bucket_array[c]
    BY <1>1, <1>4, <2>1
  <2> QED
    BY <1>3, <2>1, <2>2, <2>3 DEF InNew, c
<1>6. \A c \in Buckets(size) : bucket_array'[c] = IF c = b THEN new ELSE bucket_array[c]
  BY <1>1, <1>4
<1> QED
  BY <1>2, <1>3, <1>5, <1>6 DEF lost

(* One iteration of hashmap_rehash carries a node from where its hash led  *)
(* to where it leads now, and nothing is lost or doubled.                  *)
LEMMA NodeMoved ==
  ASSUME TypeOK, Growing, Placed, MoveNode
  PROVE  Placed' /\ Keeps /\ UNCHANGED content
<1> DEFINE node == Head(old_bucket_array[index])
           chain == old_bucket_array[index]
           rest == Tail(old_bucket_array[index])
           to == Hash[node.key] % size
           longer == Append(bucket_array[to], node)
<1>1. /\ pc = "rehash" /\ pc' = "rehash" /\ index' = index /\ cur_size' = cur_size
      /\ chain # <<>>
      /\ old_bucket_array' = [old_bucket_array EXCEPT ![index] = rest]
      /\ bucket_array' = [bucket_array EXCEPT ![to] = longer]
  BY DEF MoveNode, hashmap_get_bucket
<1>2. /\ size' = size /\ old_size' = old_size
      /\ index \in Buckets(old_size) /\ chain \in Seq(Node)
      /\ DOMAIN bucket_array = Buckets(size) /\ DOMAIN old_bucket_array = Buckets(old_size)
  BY <1>1 DEF TypeOK, size, old_size
<1>3. ChainOK(chain, index, old_size)
  BY <1>1, <1>2 DEF Placed
<1>4. /\ rest = RemoveAt(chain, 1) /\ node = chain[1] /\ 1 \in DOMAIN chain
      /\ node \in Node
  <2>1. rest = RemoveAt(chain, 1) /\ node = chain[1] /\ 1 \in DOMAIN chain
    BY <1>1, <1>2, TailUnlinks
  <2>2. chain[1] \in Node
    BY <1>2, <2>1
  <2> QED
    BY <2>1, <2>2
<1>5. /\ node.key \in Key /\ Hash[node.key] % old_size = index
      /\ to \in Buckets(size) /\ bucket_array[to] \in Seq(Node)
  <2>1. node.key \in Key
    BY <1>4 DEF Node
  <2>2. Hash[node.key] % old_size = index
    BY <1>3, <1>4 DEF ChainOK
  <2> QED
    BY <2>1, <2>2, BucketsOfKeys
<1>6. /\ ChainOK(rest, index, old_size)
      /\ \A key \in Key : key # node.key => ValuesOf(rest, key) = ValuesOf(chain, key)
      /\ Absent(rest, node.key)
      /\ \A key : Absent(chain, key) => Absent(rest, key)
  BY <1>2, <1>3, <1>4, UnlinkedChain
<1>7. ValuesOf(rest, node.key) = {} /\ ValuesOf(chain, node.key) = {node.value}
  <2>1. At(chain, node.key) = {1}
    BY <1>3, <1>4 DEF At, ChainOK
  <2> QED
    BY <1>4, <1>6, <2>1, NoneAbsent DEF ValuesOf
<1>8. \A b \in Buckets(size) : Absent(bucket_array[b], node.key)
  BY <1>1, <1>2, <1>4 DEF Placed
<1>9. /\ ChainOK(longer, to, size)
      /\ \A key \in Key : key # node.key => ValuesOf(longer, key) = ValuesOf(bucket_array[to], key)
      /\ ValuesOf(longer, node.key) = {node.value}
      /\ \A key : Absent(bucket_array[to], key) /\ key # node.key => Absent(longer, key)
  <2>1. ChainOK(bucket_array[to], to, size) /\ Absent(bucket_array[to], node.key)
    BY <1>5, <1>8 DEF Placed
  <2> QED
    BY <1>4, <1>5, <2>1, AppendedChain
<1>10. \A b \in Buckets(size) : bucket_array'[b] = IF b = to THEN longer ELSE bucket_array[b]
  BY <1>1, <1>2
<1>11. \A c \in Buckets(old_size) :
         old_bucket_array'[c] = IF c = index THEN rest ELSE old_bucket_array[c]
  BY <1>1, <1>2
<1>12. index \in Nat /\ \A c \in Buckets(old_size) : c \in Nat /\ old_bucket_array[c] \in Seq(Node)
  BY <1>1, <1>2, OldBucketsOfKeys
<1>13. to = Hash[node.key] % size
  OBVIOUS
<1> HIDE DEF node, chain, rest, to, longer
<1>14. Placed'
  <2>1. \A b \in Buckets(size) : ChainOK(bucket_array'[b], b, size)
    BY <1>9, <1>10 DEF Placed
  <2>2. \A c \in Buckets(old_size) : ChainOK(old_bucket_array'[c], c, old_size)
    BY <1>1, <1>6, <1>11 DEF Placed
  <2>3. \A c \in Buckets(old_size) : c < index => old_bucket_array'[c] = <<>>
    BY <1>1, <1>11, <1>12 DEF Placed
  <2>4. ASSUME NEW b \in Buckets(size), NEW c \in Buckets(old_size),
               NEW p \in DOMAIN old_bucket_array'[c]
        PROVE  Absent(bucket_array'[b], old_bucket_array'[c][p].key)
    <3> DEFINE key == old_bucket_array'[c][p].key
    <3>1. ~ Absent(old_bucket_array'[c], key)
      BY DEF Absent
    <3>2. ~ Absent(old_bucket_array[c], key)
      BY <1>6, <1>11, <3>1 DEF chain
    <3>3. PICK q \in DOMAIN old_bucket_array[c] : old_bucket_array[c][q].key = key
      BY <3>2 DEF Absent
    <3>4. Absent(bucket_array[b], key) /\ Hash[key] % old_size = c
      BY <1>1, <3>3 DEF Placed, ChainOK
    <3>5. key # node.key
      BY <1>5, <1>6, <1>11, <3>1, <3>4
    <3> HIDE DEF key
    <3> QED
      BY <1>9, <1>10, <3>4, <3>5 DEF key
  <2> QED
    BY <1>1, <1>2, <2>1, <2>2, <2>3, <2>4 DEF Placed
<1>15. ASSUME NEW key \in Key
       PROVE  Found(key)' = Found(key)
  <2> DEFINE b == Hash[key] % size
             c == Hash[key] % old_size
  <2>1. /\ b \in Buckets(size) /\ c \in Buckets(old_size)
        /\ key = node.key => b = to /\ c = index
    BY <1>1, <1>5, <1>13, BucketsOfKeys, OldBucketsOfKeys
  <2>2. /\ InNew(key)' = ValuesOf(bucket_array'[b], key)
        /\ InOld(key)' = ValuesOf(old_bucket_array'[c], key)
        /\ InNew(key) = ValuesOf(bucket_array[b], key)
        /\ InOld(key) = ValuesOf(old_bucket_array[c], key)
    BY <1>2 DEF InNew, InOld
  <2>3. Found(key) = InNew(key) \cup InOld(key) /\ Found(key)' = InNew(key)' \cup InOld(key)'
    BY <1>1, FoundInBuckets
  <2> HIDE DEF b, c
  <2>4. CASE key = node.key
    <3>1. InNew(key)' = {node.value} /\ InOld(key)' = {}
      BY <1>7, <1>9, <1>10, <1>11, <2>1, <2>2, <2>4
    <3>2. InNew(key) = {} /\ InOld(key) = {node.value}
      BY <1>7, <1>8, <2>1, <2>2, <2>4, NoneAbsent DEF chain
    <3> QED
      BY <2>3, <3>1, <3>2
  <2>5. CASE key # node.key
    <3>1. InNew(key)' = InNew(key)
      BY <1>9, <1>10, <2>1, <2>2, <2>5
    <3>2. InOld(key)' = InOld(key)
      BY <1>6, <1>11, <2>1, <2>2, <2>5 DEF chain
    <3> QED
      BY <2>3, <3>1, <3>2
  <2> QED
    BY <2>4, <2>5
<1>16. UNCHANGED content
  BY DEF MoveNode
<1> QED
  BY <1>14, <1>15, <1>16 DEF Keeps

LEMMA EmptyChain ==
  ASSUME NEW b, NEW n, NEW key
  PROVE  ChainOK(<<>>, b, n) /\ ValuesOf(<<>>, key) = {} /\ Absent(<<>>, key)
BY DEF ChainOK, ValuesOf, Absent, At

(* The old array becomes the one to carry over, the new one is empty.      *)
LEMMA GrowthBegins ==
  ASSUME TypeOK, Placed, NEW e \in Node, hashmap_set_grows(e)
  PROVE  Placed' /\ Keeps /\ UNCHANGED content
<1>1. /\ pc = "idle" /\ pc' = "rehash" /\ index' = 0
      /\ old_bucket_array' = bucket_array /\ cur_size' = cur_size + 1
  BY DEF hashmap_set_grows
<1>2. cur_size + 1 \in 1 .. Len(Sizes)
  BY HashMapAssumption DEF hashmap_set_grows, MustGrow, TypeOK
<1>3. /\ size' = Sizes[cur_size + 1] /\ old_size' = size
      /\ bucket_array' = [b \in Buckets(size') |-> <<>>]
  BY <1>1 DEF size, old_size, TypeOK, hashmap_set_grows, hashmap_allocate_bucket_array
<1>4. size' \in Nat \ {0}
  BY <1>2, <1>3, SizesArePositive
<1>5. /\ \A b \in Buckets(size') : bucket_array'[b] = <<>>
      /\ \A b \in Buckets(size) : ~ (b < 0)
  BY <1>3 DEF Buckets
<1>6. Placed'
  <2>1. \A b \in Buckets(size') : ChainOK(bucket_array'[b], b, size')
    BY <1>5, EmptyChain
  <2>2. \A b \in Buckets(size) : ChainOK(old_bucket_array'[b], b, size)
    BY <1>1 DEF Placed
  <2>3. \A b \in Buckets(size') : \A key : Absent(bucket_array'[b], key)
    BY <1>5, EmptyChain
  <2> QED
    BY <1>1, <1>3, <1>5, <2>1, <2>2, <2>3 DEF Placed
<1>7. ASSUME NEW key \in Key
      PROVE  Found(key)' = Found(key)
  <2>1. Hash[key] % size' \in Buckets(size')
    BY <1>4, BucketInRange, HashMapAssumption
  <2>2. InNew(key)' = {}
    BY <1>5, <2>1, EmptyChain DEF InNew
  <2>3. InOld(key)' = InNew(key)
    BY <1>1, <1>3 DEF InNew, InOld
  <2> QED
    BY <1>1, <2>2, <2>3, FoundInBuckets
<1>8. UNCHANGED content
  BY DEF hashmap_set_grows
<1> QED
  BY <1>6, <1>7, <1>8 DEF Keeps

(* The old array is empty when the call goes on to add its element.        *)
LEMMA GrowthEnds ==
  ASSUME TypeOK, Growing, Placed, ResizeReturns
  PROVE  Placed' /\ \E e \in Node : SetsTo(e) /\ Keyed!Set(e.key, e.value)
<1>1. /\ pc = "rehash" /\ pc' = "idle" /\ cur_size' = cur_size
      /\ old_bucket_array[index] = <<>> /\ index = old_size - 1
      /\ hashmap_add_key(element) /\ element \in Node
  BY DEF ResizeReturns, TypeOK
<1>2. /\ \A b \in Buckets(size) : ChainOK(bucket_array'[b], b, size)
      /\ \A key \in Key :
           InNew(key)' = IF key = element.key THEN {element.value} ELSE InNew(key)
  BY <1>1, KeyAdded DEF Placed
<1>3. \A b \in Buckets(old_size) : old_bucket_array[b] = <<>>
  <2>1. old_size \in Nat \ {0}
    BY <1>1, OldBucketsOfKeys
  <2>2. \A b \in Buckets(old_size) : b < index \/ b = index
    BY <1>1, <2>1 DEF Buckets
  <2> QED
    BY <1>1, <2>2 DEF Placed
<1>4. \A key \in Key : InOld(key) = {}
  BY <1>1, <1>3, OldBucketsOfKeys, EmptyChain DEF InOld
<1>5. size' = size
  BY <1>1 DEF size
<1>6. Placed'
  BY <1>1, <1>2, <1>5 DEF Placed
<1>7. SetsTo(element)
  BY <1>1, <1>2, <1>4, FoundInBuckets DEF SetsTo
<1>8. Keyed!Set(element.key, element.value)
  BY DEF ResizeReturns
<1> QED
  BY <1>1, <1>6, <1>7, <1>8

(* Every step keeps the nodes in their places.  Until the map is freed a   *)
(* set and a removal change what a lookup finds for their own key, and     *)
(* every other step changes nothing of it.                                 *)
LEMMA EveryStep ==
  ASSUME TypeOK, Growing, Placed, [Next]_vars
  PROVE  /\ Placed'
         /\ \/ Keeps /\ UNCHANGED content
            \/ \E e \in Node : SetsTo(e) /\ Keyed!Set(e.key, e.value)
            \/ \E key \in Key : Loses(key) /\ Keyed!Remove(key)
            \/ pc' = "free"
<1>1. CASE \E e \in Node : hashmap_set(e)
  <2>1. PICK e \in Node : hashmap_set(e)
    BY <1>1
  <2>2. pc = "idle" /\ pc' = "idle" /\ cur_size' = cur_size /\ hashmap_add_key(e)
    BY <2>1 DEF hashmap_set
  <2>3. /\ \A b \in Buckets(size) : ChainOK(bucket_array'[b], b, size)
        /\ \A key \in Key : InNew(key)' = IF key = e.key THEN {e.value} ELSE InNew(key)
    BY <2>2, KeyAdded DEF Placed
  <2>4. size' = size
    BY <2>2 DEF size
  <2>5. Placed' /\ SetsTo(e)
    BY <2>2, <2>3, <2>4, FoundInBuckets DEF Placed, SetsTo
  <2>6. Keyed!Set(e.key, e.value)
    BY <2>1 DEF hashmap_set
  <2> QED
    BY <2>5, <2>6
<1>2. CASE \E e \in Node : hashmap_set_grows(e)
  BY <1>2, GrowthBegins
<1>3. CASE MoveNode
  BY <1>3, NodeMoved
<1>4. CASE ResizeReturns
  BY <1>4, GrowthEnds
<1>5. CASE NextBucket
  <2>1. /\ pc = "rehash" /\ pc' = pc /\ index' = index + 1 /\ old_bucket_array[index] = <<>>
        /\ UNCHANGED <<bucket_array, old_bucket_array, cur_size>>
    BY <1>5 DEF NextBucket
  <2>2. size' = size /\ old_size' = old_size
    BY <2>1 DEF size, old_size
  <2>3. index \in Nat /\ \A b \in Buckets(old_size) : b \in Nat
    BY <2>1, OldBucketsOfKeys DEF TypeOK
  <2>4. \A b \in Buckets(old_size) : b < index' => b < index \/ b = index
    BY <2>1, <2>3
  <2>5. \A b \in Buckets(old_size) : b < index' => old_bucket_array'[b] = <<>>
    BY <2>1, <2>4 DEF Placed
  <2>6. Placed'
    BY <2>1, <2>2, <2>5 DEF Placed
  <2>7. Keeps
    BY <2>1, <2>2, FoundInBuckets DEF InNew, InOld, Keeps
  <2>8. UNCHANGED content
    BY <1>5 DEF NextBucket
  <2> QED
    BY <2>6, <2>7, <2>8
<1>6. CASE \E key \in Key : hashmap_remove(key)
  <2>1. PICK key \in Key : hashmap_remove(key)
    BY <1>6
  <2> DEFINE b == hashmap_get_bucket(key)
  <2>2. pc = "idle" /\ pc' = "idle" /\ cur_size' = cur_size
    BY <2>1 DEF hashmap_remove
  <2>3. PICK p \in At(bucket_array[b], key) :
          bucket_array' = [bucket_array EXCEPT ![b] = RemoveAt(@, p)]
    BY <2>1 DEF hashmap_remove
  <2>4. b \in Buckets(size) /\ p \in DOMAIN bucket_array[b] /\ bucket_array[b][p].key = key
    BY <2>3, BucketsOfKeys DEF hashmap_get_bucket, At
  <2> HIDE DEF b
  <2>5. /\ bucket_array[b][p].key \in Key
        /\ \A c \in Buckets(size) : ChainOK(bucket_array'[c], c, size)
        /\ \A k \in Key : InNew(k)' = IF k = bucket_array[b][p].key THEN {} ELSE InNew(k)
    BY <2>2, <2>3, <2>4, NodeUnlinked DEF Placed
  <2>6. size' = size
    BY <2>2 DEF size
  <2>7. Placed' /\ Loses(key)
    BY <2>2, <2>4, <2>5, <2>6, FoundInBuckets DEF Placed, Loses
  <2>8. Keyed!Remove(key)
    BY <2>1 DEF hashmap_remove
  <2> QED
    BY <2>7, <2>8
<1>7. CASE FreeNode
  <2>1. /\ pc = "free" /\ pc' = pc /\ cur_size' = cur_size
        /\ index < size /\ bucket_array[index] # <<>>
        /\ bucket_array' = [bucket_array EXCEPT ![index] = Tail(@)]
    BY <1>7 DEF FreeNode
  <2>2. size' = size
    BY <2>1 DEF size
  <2>3. CASE index \in Buckets(size)
    <3>1. Tail(bucket_array[index]) = RemoveAt(bucket_array[index], 1) /\ 1 \in DOMAIN bucket_array[index]
      BY <2>1, <2>3, TailUnlinks DEF TypeOK
    <3>2. bucket_array' = [bucket_array EXCEPT ![index] = RemoveAt(@, 1)]
      BY <2>1, <3>1
    <3>3. \A c \in Buckets(size) : ChainOK(bucket_array'[c], c, size)
      BY <2>1, <2>3, <3>1, <3>2, NodeUnlinked DEF Placed
    <3> QED
      BY <2>1, <2>2, <3>3 DEF Placed
  <2>4. CASE index \notin Buckets(size)
    <3>1. \A b \in Buckets(size) : bucket_array'[b] = bucket_array[b]
      BY <2>1, <2>4 DEF TypeOK
    <3> QED
      BY <2>1, <2>2, <3>1 DEF Placed
  <2> QED
    BY <2>1, <2>3, <2>4
<1>8. CASE GetIterator \/ IteratorNext \/ IteratorFree \/ BeginFree \/ FreeNextBucket \/ FreeArray
  <2>1. UNCHANGED <<bucket_array, cur_size>> /\ pc # "rehash" /\ pc' # "rehash"
    BY <1>8 DEF GetIterator, IteratorNext, IteratorFree, BeginFree, FreeNextBucket, FreeArray
  <2>2. size' = size
    BY <2>1 DEF size
  <2>3. Placed'
    BY <2>1, <2>2 DEF Placed
  <2>4. Keeps
    BY <2>1, <2>2, FoundInBuckets DEF InNew, Keeps
  <2>5. UNCHANGED content
    BY <1>8 DEF GetIterator, IteratorNext, IteratorFree, BeginFree, FreeNextBucket, FreeArray
  <2> QED
    BY <2>3, <2>4, <2>5
<1>9. CASE UNCHANGED vars
  <2>1. UNCHANGED <<bucket_array, old_bucket_array, cur_size, pc, index>>
    BY <1>9 DEF vars
  <2>2. size' = size /\ old_size' = old_size
    BY <2>1 DEF size, old_size
  <2>3. Placed'
    BY <2>1, <2>2 DEF Placed
  <2>4. Keeps
    BY <2>1, <2>2, FoundInBuckets DEF InNew, InOld, Keeps
  <2>5. UNCHANGED content
    BY <1>9 DEF vars
  <2> QED
    BY <2>3, <2>4, <2>5
<1> QED
  BY <1>1, <1>2, <1>3, <1>4, <1>5, <1>6, <1>7, <1>8, <1>9 DEF Next

LEMMA InitPlaced == Init => Placed /\ \A key \in Key : Found(key) = {}
<1> SUFFICES ASSUME Init PROVE Placed /\ \A key \in Key : Found(key) = {}
  OBVIOUS
<1>1. TypeOK /\ pc = "idle"
  BY InitType DEF Init
<1>2. \A b \in Buckets(size) : bucket_array[b] = <<>>
  BY DEF Init, hashmap_allocate_bucket_array, size
<1>3. Placed
  BY <1>1, <1>2, EmptyChain DEF Placed
<1>4. \A key \in Key : InNew(key) = {}
  BY <1>1, <1>2, BucketsOfKeys, EmptyChain DEF InNew
<1> QED
  BY <1>1, <1>3, <1>4, FoundInBuckets

(* A map that is freed stays so.                                           *)
LEMMA FreedForGood ==
  ASSUME [Next]_vars, pc' \notin {"free", "freed"}
  PROVE  pc \notin {"free", "freed"}
<1>1. CASE UNCHANGED vars
  BY <1>1 DEF vars
<1>2. CASE Next
  BY <1>2 DEF Next, hashmap_set, hashmap_set_grows, MoveNode, NextBucket, ResizeReturns,
              hashmap_remove, GetIterator, IteratorNext, IteratorFree, BeginFree, FreeNode,
              FreeNextBucket, FreeArray
<1> QED
  BY <1>1, <1>2

(* What a lookup finds and what was set change by the same call.           *)
LEMMA FindsKept ==
  ASSUME TypeOK, Growing, Placed, FindsLastSet, [Next]_vars
  PROVE  FindsLastSet'
<1> DEFINE Kept(key) == IF key \in DOMAIN content THEN {content[key]} ELSE {}
<1> SUFFICES ASSUME pc' \notin {"free", "freed"}, NEW key \in Key
             PROVE  Found(key)' = IF key \in DOMAIN content' THEN {content'[key]} ELSE {}
  BY DEF FindsLastSet
<1>1. Found(key) = Kept(key)
  BY FreedForGood DEF FindsLastSet
<1>2. CASE Keeps /\ UNCHANGED content
  BY <1>1, <1>2 DEF Keeps
<1>3. CASE \E e \in Node : SetsTo(e) /\ Keyed!Set(e.key, e.value)
  BY <1>1, <1>3 DEF SetsTo, Keyed!Set
<1>4. CASE \E lost \in Key : Loses(lost) /\ Keyed!Remove(lost)
  BY <1>1, <1>4 DEF Loses, Keyed!Remove
<1> QED
  BY <1>2, <1>3, <1>4, EveryStep

(* FindsLastSet is an invariant for every hash function and list of sizes: *)
(* a set and a removal change what is found for their own key, and no      *)
(* iteration of the growth or of an iterator changes what is found for     *)
(* any.                                                                    *)
THEOREM FindsWhatWasSet == Spec => []FindsLastSet
<1>1. Init => TypeOK /\ Growing /\ Placed /\ FindsLastSet
  BY InitType, InitPlaced DEF Init, Growing, FindsLastSet, Keyed!Init
<1>2. TypeOK /\ Growing /\ Placed /\ FindsLastSet /\ [Next]_vars
        => (TypeOK /\ Growing /\ Placed /\ FindsLastSet)'
  BY TypeKept, EveryStep, FindsKept
<1> QED
  BY <1>1, <1>2, PTL DEF Spec

(* OnePlace counts what Placed says node by node.                          *)
LEMMA PlacesOfKey ==
  ASSUME NEW array, NEW n, NEW key,
         \A b \in DOMAIN array : ChainOK(array[b], b, n)
  PROVE  /\ \A x \in Places(array, key) :
              /\ x[1] \in DOMAIN array /\ x[1] = Hash[key] % n
              /\ ~ Absent(array[x[1]], key)
         /\ Cardinality(Places(array, key)) <= 1
         /\ Cardinality(Places(array, key)) \in Nat
         /\ Places(array, key) = {} => Cardinality(Places(array, key)) = 0
<1>1. \A x \in Places(array, key) :
        \E b \in DOMAIN array : \E p \in At(array[b], key) : x = <<b, p>>
  BY DEF Places
<1>2. \A b \in DOMAIN array : \A p \in At(array[b], key) :
        p \in DOMAIN array[b] /\ array[b][p].key = key
  BY DEF At
<1>3. \A x \in Places(array, key) :
        /\ x[1] \in DOMAIN array /\ x[1] = Hash[key] % n
        /\ ~ Absent(array[x[1]], key)
  BY <1>1, <1>2 DEF ChainOK, Absent
<1>4. \A x, y \in Places(array, key) : x = y
  <2> TAKE x, y \in Places(array, key)
  <2>1. PICK b \in DOMAIN array : \E p \in At(array[b], key) : x = <<b, p>>
    BY <1>1
  <2>2. PICK c \in DOMAIN array : \E q \in At(array[c], key) : y = <<c, q>>
    BY <1>1
  <2>3. PICK p \in At(array[b], key) : x = <<b, p>>
    BY <2>1
  <2>4. PICK q \in At(array[c], key) : y = <<c, q>>
    BY <2>2
  <2>5. b = c
    BY <1>2 DEF ChainOK
  <2>6. p = q
    BY <1>2, <2>5 DEF ChainOK
  <2> QED
    BY <2>3, <2>4, <2>5, <2>6
<1>5. CASE Places(array, key) = {}
  <2>1. Cardinality(Places(array, key)) = 0
    BY <1>5, FS_EmptySet
  <2> QED
    BY <1>3, <2>1
<1>6. CASE Places(array, key) # {}
  <2>1. PICK x : Places(array, key) = {x}
    BY <1>4, <1>6
  <2>2. Cardinality({x}) = 1
    BY FS_Singleton
  <2>3. Cardinality(Places(array, key)) = 1
    BY <2>1, <2>2
  <2> QED
    BY <1>3, <1>6, <2>3
<1> QED
  BY <1>5, <1>6

LEMMA PlacedIsOnePlace ==
  ASSUME TypeOK, Growing, Placed
  PROVE  OnePlace
<1> DEFINE old == IF pc = "rehash" THEN old_bucket_array ELSE <<>>
<1>1. DOMAIN bucket_array = Buckets(size) /\ \A b \in Buckets(size) : ChainOK(bucket_array[b], b, size)
  BY DEF TypeOK, Placed
<1>2. \A b \in DOMAIN old : ChainOK(old[b], b, old_size)
  BY DEF TypeOK, Placed
<1>3. pc = "rehash" =>
        /\ DOMAIN old = Buckets(old_size)
        /\ index \in Nat
        /\ \A b \in Buckets(old_size) : b \in Nat
        /\ \A b \in Buckets(old_size) : b < index => old[b] = <<>>
        /\ \A b \in Buckets(size), c \in Buckets(old_size) : \A p \in DOMAIN old[c] :
             Absent(bucket_array[b], old[c][p].key)
  BY OldBucketsOfKeys DEF TypeOK, Placed
<1>4. pc # "rehash" => \A key : Places(old, key) = {}
  BY DEF Places
<1> HIDE DEF old
<1>5. \A key : \A x \in Places(old, key) : pc = "rehash" /\ x[1] = Hash[key] % old_size /\ x[1] >= index
  <2> TAKE key
  <2> TAKE x \in Places(old, key)
  <2>1. x[1] \in DOMAIN old /\ x[1] = Hash[key] % old_size /\ ~ Absent(old[x[1]], key)
    BY <1>2, PlacesOfKey
  <2>2. pc = "rehash" /\ old[x[1]] # <<>>
    BY <1>4, <2>1, EmptyChain
  <2> QED
    BY <1>3, <2>1, <2>2
<1>6. ASSUME NEW key
      PROVE  Places(bucket_array, key) = {} \/ Places(old, key) = {}
  <2> SUFFICES ASSUME NEW x \in Places(bucket_array, key), NEW y \in Places(old, key)
               PROVE  FALSE
    OBVIOUS
  <2>1. x[1] \in Buckets(size) /\ ~ Absent(bucket_array[x[1]], key)
    BY <1>1, PlacesOfKey
  <2>2. y[1] \in DOMAIN old /\ ~ Absent(old[y[1]], key)
    BY <1>2, PlacesOfKey
  <2>3. PICK p \in DOMAIN old[y[1]] : old[y[1]][p].key = key
    BY <2>2 DEF Absent
  <2> QED
    BY <1>3, <1>5, <2>1, <2>2, <2>3
<1>7. \A key : Cardinality(Places(bucket_array, key)) + Cardinality(Places(old, key)) <= 1
  <2> TAKE key
  <2>1. /\ Cardinality(Places(bucket_array, key)) \in Nat
        /\ Cardinality(Places(bucket_array, key)) <= 1
        /\ Places(bucket_array, key) = {} => Cardinality(Places(bucket_array, key)) = 0
    BY <1>1, PlacesOfKey
  <2>2. /\ Cardinality(Places(old, key)) \in Nat
        /\ Cardinality(Places(old, key)) <= 1
        /\ Places(old, key) = {} => Cardinality(Places(old, key)) = 0
    BY <1>2, PlacesOfKey
  <2> QED
    BY <1>6, <2>1, <2>2
<1>8. \A key : \A x \in Places(bucket_array, key) : x[1] = hashmap_get_bucket(key)
  BY <1>1, PlacesOfKey DEF hashmap_get_bucket
<1> QED
  BY <1>5, <1>7, <1>8 DEF OnePlace, old

(* OnePlace is an invariant: hashmap_rehash neither loses a node nor keeps *)
(* one in the bucket it had, and a set of a key that is there adds none.   *)
THEOREM KeysHaveOnePlace == Spec => []OnePlace
<1>1. Init => TypeOK /\ Growing /\ Placed
  BY InitType, InitPlaced DEF Init, Growing
<1>2. TypeOK /\ Growing /\ Placed /\ [Next]_vars => (TypeOK /\ Growing /\ Placed)'
  BY TypeKept, EveryStep
<1> QED
  BY <1>1, <1>2, PlacedIsOnePlace, PTL DEF Spec

-----------------------------------------------------------------------------
(* The iterator *)

(* The iterator is past a place.                                           *)
Passed(b, p) == b < index \/ (b = index /\ p < position)

(* The iterator has returned the nodes it is past, each once.              *)
Returned ==
  pc = "iterate" =>
    /\ \A i \in DOMAIN visited : \E b \in Buckets(size) : \E p \in DOMAIN bucket_array[b] :
         Passed(b, p) /\ visited[i] = bucket_array[b][p]
    /\ \A b \in Buckets(size) : \A p \in DOMAIN bucket_array[b] :
         Passed(b, p) => \E i \in DOMAIN visited : visited[i] = bucket_array[b][p]
    /\ IsInjective(visited)

LEMMA IteratorBegins ==
  ASSUME TypeOK, GetIterator
  PROVE  Returned'
<1>1. /\ index' = FirstFull /\ position' = 1 /\ visited' = <<>>
      /\ bucket_array' = bucket_array /\ size' = size
  BY DEF GetIterator, size
<1>2. FirstFull \in 0 .. size /\ \A b \in Buckets(size) : b < FirstFull => bucket_array[b] = <<>>
  <2>1. size \in Nat \ {0} /\ \A b \in Buckets(size) : b \in Nat /\ (b = 0 \/ 0 < b)
    BY BucketsOfKeys
  <2> QED
    BY <2>1, NextFullBucket DEF FirstFull
<1>3. \A b \in Buckets(size) : DOMAIN bucket_array[b] \subseteq Nat \ {0}
  BY DEF TypeOK
<1>4. \A b \in Buckets(size) : \A p \in DOMAIN bucket_array[b] : ~ Passed(b, p)'
  BY <1>1, <1>2, <1>3 DEF Passed
<1>5. DOMAIN visited' = {}
  BY <1>1
<1>6. IsInjective(visited')
  BY <1>5 DEF IsInjective
<1> QED
  BY <1>1, <1>4, <1>5, <1>6 DEF Returned

LEMMA IteratorGoesOn ==
  ASSUME TypeOK, Placed, Returned, IteratorNext
  PROVE  Returned'
<1>1. /\ pc = "iterate" /\ index < size
      /\ visited' = Append(visited, bucket_array[index][position])
      /\ bucket_array' = bucket_array /\ size' = size
  BY DEF IteratorNext, size
<1>2. /\ index \in Buckets(size) /\ index \in Nat /\ position \in DOMAIN bucket_array[index]
      /\ visited \in Seq(Node)
      /\ \A b \in Buckets(size) :
           b \in Nat /\ bucket_array[b] \in Seq(Node) /\ DOMAIN bucket_array[b] \subseteq Nat \ {0}
  <2>1. size \in Nat \ {0} /\ \A b \in Buckets(size) : b \in Nat /\ bucket_array[b] \in Seq(Node)
    BY BucketsOfKeys
  <2>2. index \in Buckets(size) /\ index \in Nat
    BY <1>1, <2>1 DEF TypeOK, Buckets
  <2> QED
    BY <1>1, <2>1, <2>2 DEF TypeOK
<1>3. \A b \in Buckets(size) : \A p \in DOMAIN bucket_array[b] :
        Passed(b, p)' <=> Passed(b, p) \/ (b = index /\ p = position)
  <2>1. CASE position = Len(bucket_array[index])
    <3>1. index' = NextFull(index) /\ position' = 1
      BY <2>1 DEF IteratorNext
    <3>2. /\ NextFull(index) \in Nat /\ NextFull(index) > index
          /\ \A b \in Buckets(size) : index < b /\ b < NextFull(index) => bucket_array[b] = <<>>
      BY <1>1, <1>2, NextFullBucket
    <3>3. \A p \in DOMAIN bucket_array[index] : p < position \/ p = position
      BY <1>2, <2>1
    <3>4. \A b \in Buckets(size) : b < index \/ b = index \/ b > index
      BY <1>2
    <3>5. \A b \in Buckets(size) : \A p \in DOMAIN bucket_array[b] : Passed(b, p)' <=> b < NextFull(index)
      BY <1>2, <3>1, <3>2 DEF Passed
    <3>6. \A b \in Buckets(size) : b > index /\ b < NextFull(index) => DOMAIN bucket_array[b] = {}
      BY <3>2
    <3> QED
      BY <1>2, <3>2, <3>3, <3>4, <3>5, <3>6 DEF Passed
  <2>2. CASE position # Len(bucket_array[index])
    <3>1. index' = index /\ position' = position + 1
      BY <2>2 DEF IteratorNext
    <3> QED
      BY <1>2, <3>1 DEF Passed
  <2> QED
    BY <2>1, <2>2
<1>4. /\ DOMAIN visited' = DOMAIN visited \cup {Len(visited) + 1}
      /\ Len(visited) + 1 \notin DOMAIN visited
      /\ \A i \in DOMAIN visited : visited'[i] = visited[i]
      /\ visited'[Len(visited) + 1] = bucket_array[index][position]
  BY <1>1, <1>2
<1>5. \A i \in DOMAIN visited' : \E b \in Buckets(size) : \E p \in DOMAIN bucket_array[b] :
        Passed(b, p)' /\ visited'[i] = bucket_array[b][p]
  <2> TAKE i \in DOMAIN visited'
  <2>1. CASE i \in DOMAIN visited
    <3>1. PICK b \in Buckets(size) : \E p \in DOMAIN bucket_array[b] :
            Passed(b, p) /\ visited[i] = bucket_array[b][p]
      BY <1>1, <2>1 DEF Returned
    <3> QED
      BY <1>3, <1>4, <2>1, <3>1
  <2>2. CASE i = Len(visited) + 1
    BY <1>2, <1>3, <1>4, <2>2
  <2> QED
    BY <1>4, <2>1, <2>2
<1>6. \A b \in Buckets(size) : \A p \in DOMAIN bucket_array[b] :
        Passed(b, p)' => \E i \in DOMAIN visited' : visited'[i] = bucket_array[b][p]
  BY <1>1, <1>3, <1>4 DEF Returned
<1>7. \A i \in DOMAIN visited : visited[i] # bucket_array[index][position]
  <2> SUFFICES ASSUME NEW i \in DOMAIN visited, visited[i] = bucket_array[index][position]
               PROVE  FALSE
    OBVIOUS
  <2>1. PICK b \in Buckets(size) : \E p \in DOMAIN bucket_array[b] :
          Passed(b, p) /\ visited[i] = bucket_array[b][p]
    BY <1>1 DEF Returned
  <2>2. PICK p \in DOMAIN bucket_array[b] : Passed(b, p) /\ visited[i] = bucket_array[b][p]
    BY <2>1
  <2>3. b = index /\ p = position
    <3>1. ChainOK(bucket_array[index], index, size) /\ ChainOK(bucket_array[b], b, size)
      BY <1>2 DEF Placed
    <3>2. bucket_array[b][p] = bucket_array[index][position]
      BY <2>2
    <3>3. b = index
      BY <1>2, <3>1, <3>2 DEF ChainOK
    <3> QED
      BY <1>2, <3>1, <3>2, <3>3 DEF ChainOK
  <2> QED
    BY <1>2, <2>2, <2>3 DEF Passed
<1>8. IsInjective(visited')
  BY <1>1, <1>4, <1>7 DEF Returned, IsInjective
<1> QED
  BY <1>1, <1>5, <1>6, <1>8 DEF Returned

LEMMA ReturnedKept ==
  ASSUME TypeOK, Placed, Returned, [Next]_vars
  PROVE  Returned'
<1>1. CASE GetIterator
  BY <1>1, IteratorBegins
<1>2. CASE IteratorNext
  BY <1>2, IteratorGoesOn
<1>3. CASE UNCHANGED vars
  BY <1>3 DEF vars, iterator, Returned, Passed, size
<1>4. CASE \/ \E e \in Node : hashmap_set(e) \/ hashmap_set_grows(e)
           \/ MoveNode \/ NextBucket \/ ResizeReturns \/ (\E key \in Key : hashmap_remove(key))
           \/ IteratorFree \/ BeginFree \/ FreeNode \/ FreeNextBucket \/ FreeArray
  <2>1. pc' # "iterate"
    BY <1>4 DEF hashmap_set, hashmap_set_grows, MoveNode, NextBucket, ResizeReturns, hashmap_remove,
                IteratorFree, BeginFree, FreeNode, FreeNextBucket, FreeArray
  <2> QED
    BY <2>1 DEF Returned
<1> QED
  BY <1>1, <1>2, <1>3, <1>4 DEF Next

LEMMA ReturnedIsIteratesOnce ==
  ASSUME TypeOK, Returned
  PROVE  IteratesOnce
<1> SUFFICES ASSUME pc = "iterate"
             PROVE  /\ IsInjective(visited)
                    /\ index >= size =>
                         ToSet(visited) = UNION {ToSet(bucket_array[b]) : b \in Buckets(size)}
  BY DEF IteratesOnce
<1>1. IsInjective(visited)
  BY DEF Returned
<1>2. ASSUME index >= size
      PROVE  ToSet(visited) = UNION {ToSet(bucket_array[b]) : b \in Buckets(size)}
  <2>1. \A b \in Buckets(size) : b < index
    BY <1>2, BucketsOfKeys DEF TypeOK, Buckets
  <2>2. \A b \in Buckets(size) : \A p \in DOMAIN bucket_array[b] :
          \E i \in DOMAIN visited : visited[i] = bucket_array[b][p]
    BY <2>1 DEF Returned, Passed
  <2>3. \A i \in DOMAIN visited : \E b \in Buckets(size) : \E p \in DOMAIN bucket_array[b] :
          visited[i] = bucket_array[b][p]
    BY DEF Returned
  <2> QED
    BY <2>2, <2>3 DEF ToSet
<1> QED
  BY <1>1, <1>2

(* IteratesOnce is an invariant: nodes have different keys and the search  *)
(* for the next full bucket passes over empty ones only.                   *)
THEOREM EachReturnedOnce == Spec => []IteratesOnce
<1>1. Init => TypeOK /\ Growing /\ Placed /\ Returned
  BY InitType, InitPlaced DEF Init, Growing, Returned
<1>2. TypeOK /\ Growing /\ Placed /\ Returned /\ [Next]_vars
        => (TypeOK /\ Growing /\ Placed /\ Returned)'
  BY TypeKept, EveryStep, ReturnedKept
<1>3. TypeOK /\ Returned => IteratesOnce
  BY ReturnedIsIteratesOnce
<1> QED
  BY <1>1, <1>2, <1>3, PTL DEF Spec

=============================================================================
