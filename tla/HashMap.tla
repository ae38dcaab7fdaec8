------------------------------ MODULE HashMap -------------------------------
(***************************************************************************)
(* src/src/hashmap.c: chains of nodes in an array of buckets that grows    *)
(* through a list of sizes.  An element is a record of the key that is     *)
(* compared and hashed and a value that is not; elements are copied, so    *)
(* that a node owns its own.  The hash a node keeps is that of its key.    *)
(* Allocation does not fail.                                               *)
(*                                                                         *)
(* hashmap_set and hashmap_remove are one step each, but when the array    *)
(* grows its nodes are moved one at a time; an iterator is used to its end *)
(* before the map is changed again, as attach_devices of user_interface.c  *)
(* does.                                                                   *)
(***************************************************************************)
EXTENDS Integers, Sequences, FiniteSets, SequencesExt

CONSTANTS
  Key,
  Value,
  Hash,               \* get_hash, a function of Key
  Sizes,              \* 11 and 23 for the plugin manager
  LoadNumerator,      \* load_factor, 3 / 4 for the plugin manager
  LoadDenominator,
  MaxElements         \* bound on the elements added, those removed since included

VARIABLES
  bucket_array,
  cur_size,           \* index in Sizes, which starts at 1
  num_elements,
  old_bucket_array,   \* local of hashmap_resize
  pc,                 \* "idle", "rehash", "iterate", "free" or "freed"
  index,              \* of the bucket where rehash, the iterator or free is
  position,           \* of the iterator's cur_node in its chain
  element,            \* argument of the hashmap_set that is growing the map
  visited,            \* history: what the iterator has returned
  content             \* history: what the calls have set and not removed

iterator == <<position, visited>>
vars == <<bucket_array, cur_size, num_elements, old_bucket_array, pc, index, element, iterator,
          content>>

Keyed == INSTANCE KeyedSet

Node == [key : Key, value : Value]
Buckets(size) == 0 .. size - 1
hashmap_allocate_bucket_array(size) == [b \in Buckets(size) |-> <<>>]

(* num_elements_grow of a size *)
Grow(size) == (size * LoadNumerator) \div LoadDenominator

ASSUME HashMapAssumption ==
  /\ Hash \in [Key -> Nat]
  /\ Sizes \in Seq(Nat \ {0}) /\ Sizes # <<>>
  /\ LoadNumerator \in Nat /\ LoadDenominator \in Nat \ {0}
  /\ \A i \in 1 .. Len(Sizes) - 1 : Grow(Sizes[i]) < Grow(Sizes[i + 1])

size == Sizes[cur_size]
hashmap_get_bucket(key) == Hash[key] % size

Init ==
  /\ cur_size = 1
  /\ bucket_array = hashmap_allocate_bucket_array(Sizes[1])
  /\ num_elements = 0
  /\ old_bucket_array = <<>>
  /\ pc = "idle" /\ index = 0 /\ position = 0
  /\ element = <<>>
  /\ visited = <<>>
  /\ Keyed!Init

-----------------------------------------------------------------------------
(* hashmap_set *)

(* Positions of a chain that hold a key. *)
At(chain, key) == {p \in DOMAIN chain : chain[p].key = key}

(* hashmap_add_key_to_bucket: an equal key gives its node to the new one. *)
AddToBucket(chain, e) ==
  IF At(chain, e.key) = {} THEN Append(chain, e)
  ELSE [p \in DOMAIN chain |-> IF p \in At(chain, e.key) THEN e ELSE chain[p]]

hashmap_add_key(e) ==
  LET b == hashmap_get_bucket(e.key)
  IN  /\ bucket_array' = [bucket_array EXCEPT ![b] = AddToBucket(@, e)]
      /\ num_elements' = IF At(bucket_array[b], e.key) = {} THEN num_elements + 1
                                                            ELSE num_elements

(* Fault for NeverPastGrowth: the map grows one element later. *)
MustGrowLater == num_elements > Grow(size) /\ cur_size < Len(Sizes)

MustGrow == num_elements = Grow(size) /\ cur_size < Len(Sizes)

hashmap_set(e) ==
  /\ pc = "idle"
  /\ ~ MustGrow
  /\ hashmap_add_key(e)
  /\ Keyed!Set(e.key, e.value)
  /\ UNCHANGED <<cur_size, old_bucket_array, pc, index, element, iterator>>

(* hashmap_resize, up to the loops of hashmap_rehash. *)
hashmap_set_grows(e) ==
  /\ pc = "idle"
  /\ MustGrow
  /\ cur_size' = cur_size + 1
  /\ bucket_array' = hashmap_allocate_bucket_array(Sizes[cur_size + 1])
  /\ old_bucket_array' = bucket_array
  /\ pc' = "rehash" /\ index' = 0
  /\ element' = e
  /\ UNCHANGED <<num_elements, iterator, content>>

(* Fault for OnePlace: the node goes to the bucket it had. *)
MoveToOldIndex ==
  LET node == Head(old_bucket_array[index])
  IN  /\ pc = "rehash"
      /\ old_bucket_array[index] # <<>>
      /\ old_bucket_array' = [old_bucket_array EXCEPT ![index] = Tail(@)]
      /\ bucket_array' = [bucket_array EXCEPT ![index] = Append(@, node)]
      /\ UNCHANGED <<cur_size, num_elements, pc, index, element, iterator, content>>

(* Fault for FindsLastSet: the successor is not kept while a node moves.   *)
MoveFirstOnly ==
  LET node == Head(old_bucket_array[index])
  IN  /\ pc = "rehash"
      /\ old_bucket_array[index] # <<>>
      /\ old_bucket_array' = [old_bucket_array EXCEPT ![index] = <<>>]
      /\ bucket_array' = [bucket_array EXCEPT ![hashmap_get_bucket(node.key)] = Append(@, node)]
      /\ UNCHANGED <<cur_size, num_elements, pc, index, element, iterator, content>>

(* One iteration of the inner loop of hashmap_rehash. *)
MoveNode ==
  LET node == Head(old_bucket_array[index])
  IN  /\ pc = "rehash"
      /\ old_bucket_array[index] # <<>>
      /\ old_bucket_array' = [old_bucket_array EXCEPT ![index] = Tail(@)]
      /\ bucket_array' = [bucket_array EXCEPT ![hashmap_get_bucket(node.key)] = Append(@, node)]
      /\ UNCHANGED <<cur_size, num_elements, pc, index, element, iterator, content>>

old_size == Sizes[cur_size - 1]

(* Fault for TypeOK: the loop runs through one bucket too many. *)
NextBucketPastEnd ==
  /\ pc = "rehash"
  /\ old_bucket_array[index] = <<>>
  /\ index' = index + 1
  /\ UNCHANGED <<bucket_array, cur_size, num_elements, old_bucket_array, pc, element,
                 iterator, content>>

NextBucket ==
  /\ pc = "rehash"
  /\ old_bucket_array[index] = <<>>
  /\ index < old_size - 1
  /\ index' = index + 1
  /\ UNCHANGED <<bucket_array, cur_size, num_elements, old_bucket_array, pc, element,
                 iterator, content>>

(* The old array is freed and the call goes on to hashmap_add_key. *)
ResizeReturns ==
  /\ pc = "rehash"
  /\ old_bucket_array[index] = <<>>
  /\ index = old_size - 1
  /\ hashmap_add_key(element)
  /\ old_bucket_array' = <<>>
  /\ Keyed!Set(element.key, element.value)
  /\ pc' = "idle" /\ index' = 0 /\ element' = <<>>
  /\ UNCHANGED <<cur_size, iterator>>

-----------------------------------------------------------------------------
(* hashmap_get and hashmap_remove *)

(* The values get can return: none or one. *)
hashmap_get(key) ==
  LET chain == bucket_array[hashmap_get_bucket(key)]
  IN  {chain[p].value : p \in At(chain, key)}

(* The number of elements stays.  With the key absent the call does        *)
(* nothing in an empty bucket and has no defined behaviour in another.     *)
hashmap_remove(key) ==
  LET b == hashmap_get_bucket(key)
  IN  /\ pc = "idle"
      /\ \E p \in At(bucket_array[b], key) :
           bucket_array' = [bucket_array EXCEPT ![b] = RemoveAt(@, p)]
      /\ Keyed!Remove(key)
      /\ UNCHANGED <<cur_size, num_elements, old_bucket_array, pc, index, element, iterator>>

-----------------------------------------------------------------------------
(* The iterator *)

(* hashmap_find_next_bucket_index; size when there is none. *)
NextFull(i) ==
  LET full == {b \in Buckets(size) : b > i /\ bucket_array[b] # <<>>}
  IN  IF full = {} THEN size ELSE CHOOSE b \in full : \A c \in full : b <= c

(* Fault for IteratesOnce: the first bucket is skipped. *)
FirstFullAfterZero == NextFull(0)

(* hashmap_iterator_initiate *)
FirstFull == IF bucket_array[0] = <<>> THEN NextFull(0) ELSE 0

GetIterator ==
  /\ pc = "idle"
  /\ pc' = "iterate"
  /\ index' = FirstFull
  /\ position' = 1
  /\ visited' = <<>>
  /\ UNCHANGED <<bucket_array, cur_size, num_elements, old_bucket_array, element,
                 content>>

IteratorNext ==
  /\ pc = "iterate"
  /\ index < size
  /\ visited' = Append(visited, bucket_array[index][position])
  /\ IF position = Len(bucket_array[index])
     THEN index' = NextFull(index) /\ position' = 1
     ELSE position' = position + 1 /\ UNCHANGED index
  /\ UNCHANGED <<bucket_array, cur_size, num_elements, old_bucket_array, pc, element,
                 content>>

IteratorFree ==
  /\ pc = "iterate"
  /\ index >= size
  /\ pc' = "idle" /\ index' = 0 /\ position' = 0
  /\ visited' = <<>>
  /\ UNCHANGED <<bucket_array, cur_size, num_elements, old_bucket_array, element,
                 content>>

-----------------------------------------------------------------------------
(* hashmap_free *)

BeginFree ==
  /\ pc = "idle"
  /\ pc' = "free" /\ index' = 0
  /\ UNCHANGED <<bucket_array, cur_size, num_elements, old_bucket_array, element,
                 iterator, content>>

FreeNode ==
  /\ pc = "free"
  /\ index < size
  /\ bucket_array[index] # <<>>
  /\ bucket_array' = [bucket_array EXCEPT ![index] = Tail(@)]
  /\ UNCHANGED <<cur_size, num_elements, old_bucket_array, pc, index, element,
                 iterator, content>>

(* Fault for FreesEverything: the search starts one bucket too far. *)
FreeBucketAfterNext ==
  /\ pc = "free"
  /\ index < size
  /\ bucket_array[index] = <<>>
  /\ index' = NextFull(index + 1)
  /\ UNCHANGED <<bucket_array, cur_size, num_elements, old_bucket_array, pc, element,
                 iterator, content>>

(* The first bucket may be empty, the later ones are not. *)
FreeNextBucket ==
  /\ pc = "free"
  /\ index < size
  /\ bucket_array[index] = <<>>
  /\ index' = NextFull(index)
  /\ UNCHANGED <<bucket_array, cur_size, num_elements, old_bucket_array, pc, element,
                 iterator, content>>

FreeArray ==
  /\ pc = "free"
  /\ index >= size
  /\ pc' = "freed"
  /\ UNCHANGED <<bucket_array, cur_size, num_elements, old_bucket_array, index, element,
                 iterator, content>>

Next ==
  \/ \E e \in Node :
       /\ num_elements < MaxElements \/ hashmap_get(e.key) # {}
       /\ hashmap_set(e) \/ hashmap_set_grows(e)
  \/ MoveNode \/ NextBucket \/ ResizeReturns
  \/ \E key \in Key : hashmap_remove(key)
  \/ GetIterator \/ IteratorNext \/ IteratorFree
  \/ BeginFree \/ FreeNode \/ FreeNextBucket \/ FreeArray

Spec == Init /\ [][Next]_vars

-----------------------------------------------------------------------------
(* Properties *)

(* The variables have their types, and the loop of hashmap_rehash stays    *)
(* inside the array it empties.                                            *)
TypeOK ==
  /\ cur_size \in 1 .. Len(Sizes)
  /\ DOMAIN bucket_array = Buckets(size)
  /\ \A b \in Buckets(size) : bucket_array[b] \in Seq(Node)
  /\ num_elements \in Nat
  /\ pc \in {"idle", "rehash", "iterate", "free", "freed"}
  /\ pc = "rehash" =>
       /\ element \in Node
       /\ DOMAIN old_bucket_array = Buckets(old_size)
       /\ index \in Buckets(old_size)
       /\ \A b \in Buckets(old_size) : old_bucket_array[b] \in Seq(Node)
  /\ pc = "iterate" =>
       /\ index \in 0 .. size
       /\ index < size => position \in DOMAIN bucket_array[index]
       /\ visited \in Seq(Node)

(* The places of the nodes with a key in an array of buckets. *)
Places(array, key) == UNION {{b} \X At(array[b], key) : b \in DOMAIN array}

(* Also while hashmap_rehash carries the nodes over, every key has one     *)
(* node at most, in the bucket where hashmap_get_bucket leads for the size *)
(* of the array the node is in, and the buckets already done are empty.    *)
OnePlace ==
  LET old == IF pc = "rehash" THEN old_bucket_array ELSE <<>>
  IN  /\ \A key \in Key : Cardinality(Places(bucket_array, key)) + Cardinality(Places(old, key)) <= 1
      /\ \A key \in Key : \A place \in Places(bucket_array, key) : place[1] = hashmap_get_bucket(key)
      /\ \A key \in Key : \A place \in Places(old, key) :
           place[1] = Hash[key] % old_size /\ place[1] >= index

(* hashmap_set compares the number of elements with the number at which    *)
(* the map grows by ==, so it must never be past it while there is a       *)
(* larger size: the map would not grow any more.                           *)
NeverPastGrowth == cur_size < Len(Sizes) => num_elements <= Grow(size)

(* An iterator returns every element once, wherever the full buckets are   *)
(* and also for an empty map, and then NULL.                               *)
IteratesOnce ==
  pc = "iterate" =>
    /\ IsInjective(visited)
    /\ index >= size =>
         ToSet(visited) = UNION {ToSet(bucket_array[b]) : b \in Buckets(size)}

(* When hashmap_free gives the array of buckets back, no chain still has a *)
(* node, wherever the full buckets are.                                    *)
FreesEverything == pc = "freed" => \A b \in Buckets(size) : bucket_array[b] = <<>>

(* The values that a lookup finds where the node of a key should be. *)
Found(key) ==
  IF pc = "rehash"
  THEN hashmap_get(key) \cup
         LET chain == old_bucket_array[Hash[key] % old_size]
         IN  {chain[p].value : p \in At(chain, key)}
  ELSE hashmap_get(key)

(* Until the map is freed hashmap_get finds for each key the value last    *)
(* set and not removed, and nothing for another key.  It does so in the    *)
(* middle of a growth too: a node on its way is in one of the two arrays   *)
(* at any time, so that neither the growth nor the removal of a neighbour  *)
(* in its chain can lose it.                                               *)
FindsLastSet ==
  pc \notin {"free", "freed"} =>
    \A key \in Key : Found(key) = IF key \in DOMAIN content THEN {content[key]} ELSE {}
=============================================================================
