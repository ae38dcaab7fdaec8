------------------------ MODULE InterruptController -------------------------
(***************************************************************************)
(* src/src/interrupt_controller.c: a table of priorities indexed by        *)
(* vector, and a binary max-heap of the pending vectors.  An operation     *)
(* starts with Alert or Dequeue and runs its percolation loop, one action  *)
(* per iteration, until pc is "idle" again; the program has one thread, so *)
(* no other operation can start in between.                                *)
(***************************************************************************)
EXTENDS Integers

CONSTANTS
  UINT8_MAX,   \* 255 in C: the size of both arrays, and the largest vector
  Vec,         \* the vectors devices pass to interrupt_controller_alert
  Priority,    \* the priorities they pass
  Garbage      \* the bytes an uninitialised queue_heap may hold

Byte == 0 .. UINT8_MAX
Index == 0 .. UINT8_MAX - 1
IMPOSSIBLE_PRIORITY == UINT8_MAX

ASSUME ControllerAssumption ==
  /\ UINT8_MAX \in Nat \ {0}
  /\ Vec \subseteq Byte
  /\ Priority \subseteq Byte \ {IMPOSSIBLE_PRIORITY}
  /\ Garbage \subseteq Byte

VARIABLES
  interrupts,        \* index is vector, contains priorities
  queue_heap,        \* heap of vectors
  queue_heap_size,
  pc,                \* the loop being run: "idle", "up" or "down"
  cur_i,             \* cur_i, or cur_parent_i, of that loop
  vec                \* local of interrupt_controller_take

vars == <<interrupts, queue_heap, queue_heap_size, pc, cur_i, vec>>

Init ==
  /\ interrupts = [v \in Index |-> IMPOSSIBLE_PRIORITY]
  /\ queue_heap \in [Index -> Garbage]
  /\ queue_heap_size = 0
  /\ pc = "idle" /\ cur_i = 0 /\ vec = 0

(* interrupts has no element UINT8_MAX.  In the struct, queue_heap follows *)
(* it without padding, so that index denotes queue_heap[0].                *)
PriorityOf(v) == IF v < UINT8_MAX THEN interrupts[v] ELSE queue_heap[0]

Outranks(v, w) ==
  PriorityOf(v) > PriorityOf(w) \/ (PriorityOf(v) = PriorityOf(w) /\ v > w)

-----------------------------------------------------------------------------
(* Heap geometry and the two loop conditions. *)

parent_index(i) == (i - 1) \div 2
last_parent_index(size) == (size \div 2) - 1
left_child_index(i) == 2 * i + 1
right_child_index(i) == 2 * i + 2

(* Fault for QueueSpec: equal priorities are left in order of arrival. *)
should_percolate_up_no_tie(child, parent) ==
  PriorityOf(queue_heap[child]) > PriorityOf(queue_heap[parent])

(* Also interrupt_queue_should_percolate_down with its arguments swapped. *)
should_percolate_up(child, parent) == Outranks(queue_heap[child], queue_heap[parent])

(* Fault for HeapButOne: the right child is never considered. *)
max_child_index_left(i) == left_child_index(i)

max_child_index(i) ==
  IF /\ right_child_index(i) < queue_heap_size
     /\ ~ Outranks(queue_heap[left_child_index(i)], queue_heap[right_child_index(i)])
  THEN right_child_index(i)
  ELSE left_child_index(i)

(* Fault for PeekIsTop: the loop stops one entry before the root. *)
CanGoUpShort == cur_i > 1 /\ should_percolate_up(cur_i, parent_index(cur_i))

CanGoUp == cur_i # 0 /\ should_percolate_up(cur_i, parent_index(cur_i))

(* Fault for CheckHeap: the last parent is skipped. *)
CanGoDownShort ==
  /\ cur_i < last_parent_index(queue_heap_size)
  /\ should_percolate_up(max_child_index(cur_i), cur_i)

CanGoDown ==
  /\ cur_i <= last_parent_index(queue_heap_size)
  /\ should_percolate_up(max_child_index(cur_i), cur_i)

Swap(i, j) ==
  queue_heap' = [queue_heap EXCEPT ![i] = queue_heap[j], ![j] = queue_heap[i]]

-----------------------------------------------------------------------------
(* Fault for TypeOK: a pending vector is enqueued again. *)
AlertAgain(v, p) ==
  /\ pc = "idle"
  /\ interrupts' = [interrupts EXCEPT ![v] = p]
  /\ queue_heap' = [queue_heap EXCEPT ![queue_heap_size] = v]
  /\ queue_heap_size' = queue_heap_size + 1
  /\ pc' = "up"
  /\ cur_i' = queue_heap_size
  /\ UNCHANGED vec

(* interrupt_controller_alert.  A vector that is already pending is        *)
(* ignored: the call then changes nothing.                                 *)
Alert(v, p) ==
  LET stored == IF v < UINT8_MAX THEN queue_heap ELSE [queue_heap EXCEPT ![0] = p]
  IN  /\ pc = "idle"
      /\ PriorityOf(v) = IMPOSSIBLE_PRIORITY
      /\ interrupts' = [w \in Index |-> IF w = v THEN p ELSE interrupts[w]]
      /\ queue_heap' = [stored EXCEPT ![queue_heap_size] = v]
      /\ queue_heap_size' = queue_heap_size + 1
      /\ pc' = "up"
      /\ cur_i' = queue_heap_size
      /\ UNCHANGED vec

PercolateUp ==
  /\ pc = "up"
  /\ CanGoUp
  /\ Swap(cur_i, parent_index(cur_i))
  /\ cur_i' = parent_index(cur_i)
  /\ UNCHANGED <<interrupts, queue_heap_size, pc, vec>>

AlertReturns ==
  /\ pc = "up"
  /\ ~ CanGoUp
  /\ pc' = "idle"
  /\ cur_i' = 0
  /\ UNCHANGED <<interrupts, queue_heap, queue_heap_size, vec>>

(* Fault for TableMatchesHeap: the size is decremented after the copy. *)
DequeuePostDecrement ==
  /\ pc = "idle"
  /\ queue_heap_size > 0
  /\ vec' = queue_heap[0]
  /\ queue_heap' = [queue_heap EXCEPT ![0] = queue_heap[queue_heap_size]]
  /\ queue_heap_size' = queue_heap_size - 1
  /\ pc' = "down"
  /\ cur_i' = 0
  /\ UNCHANGED interrupts

(* interrupt_controller_take, up to the loop of percolate_down. *)
Dequeue ==
  /\ pc = "idle"
  /\ queue_heap_size > 0
  /\ vec' = queue_heap[0]
  /\ queue_heap' = [queue_heap EXCEPT ![0] = queue_heap[queue_heap_size - 1]]
  /\ queue_heap_size' = queue_heap_size - 1
  /\ pc' = "down"
  /\ cur_i' = 0
  /\ UNCHANGED interrupts

PercolateDown ==
  /\ pc = "down"
  /\ CanGoDown
  /\ Swap(cur_i, max_child_index(cur_i))
  /\ cur_i' = max_child_index(cur_i)
  /\ UNCHANGED <<interrupts, queue_heap_size, pc, vec>>

(* The table forgets the vector only once the heap is in order again. *)
TakeReturns ==
  /\ pc = "down"
  /\ ~ CanGoDown
  /\ interrupts' = [w \in Index |-> IF w = vec THEN IMPOSSIBLE_PRIORITY ELSE interrupts[w]]
  /\ queue_heap' = IF vec < UINT8_MAX THEN queue_heap
                   ELSE [queue_heap EXCEPT ![0] = IMPOSSIBLE_PRIORITY]
  /\ pc' = "idle"
  /\ cur_i' = 0
  /\ vec' = 0
  /\ UNCHANGED queue_heap_size

Next ==
  \/ \E v \in Vec, p \in Priority : Alert(v, p)
  \/ Dequeue
  \/ PercolateUp \/ AlertReturns
  \/ PercolateDown \/ TakeReturns

Spec == Init /\ [][Next]_vars

-----------------------------------------------------------------------------
(* Properties *)

Live == 0 .. queue_heap_size - 1

(* The arrays hold bytes, the size never passes the end of queue_heap, and *)
(* the loops only index live entries.                                      *)
TypeOK ==
  /\ interrupts \in [Index -> Byte]
  /\ queue_heap \in [Index -> Byte]
  /\ queue_heap_size \in 0 .. UINT8_MAX
  /\ pc \in {"idle", "up", "down"}
  /\ vec \in Byte
  /\ cur_i \in Index
  /\ pc = "up" => cur_i \in Live
  /\ pc = "down" => cur_i \in Live \cup {0}

(* The table and the heap describe the same pending vectors, each once;    *)
(* while a take is under way its vector is out of the heap and still in    *)
(* the table, which is what keeps an alert for it from being enqueued.     *)
TableMatchesHeap ==
  /\ \A v \in Vec :
       PriorityOf(v) # IMPOSSIBLE_PRIORITY
         <=> (\E i \in Live : queue_heap[i] = v) \/ (pc = "down" /\ v = vec)
  /\ \A i, j \in Live : queue_heap[i] = queue_heap[j] => i = j
  /\ pc = "down" => \A i \in Live : queue_heap[i] # vec

(* check_heap, the function the code keeps for testing: between operations *)
(* no child outranks its parent.                                           *)
valid_child(child, parent) ==
  child \in Live => ~ Outranks(queue_heap[child], queue_heap[parent])

check_heap ==
  \A i \in 0 .. last_parent_index(queue_heap_size) :
    valid_child(left_child_index(i), i) /\ valid_child(right_child_index(i), i)

CheckHeap == pc = "idle" => check_heap

(* interrupt_controller_peek reports the vector that outranks every other  *)
(* pending vector of the table, whatever the order of the alerts was.      *)
PeekIsTop ==
  pc = "idle" /\ queue_heap_size > 0 =>
    \A v \in Vec :
      PriorityOf(v) # IMPOSSIBLE_PRIORITY /\ v # queue_heap[0] => Outranks(queue_heap[0], v)

(* The loop invariant of both percolations.  The entry at cur_i may be out *)
(* of place with one neighbour: its parent while it climbs, its children   *)
(* while it sinks.  Its children are in order with its parent throughout,  *)
(* and the vector being taken outranks what is left.                       *)
InOrder(i, j) == ~ Outranks(queue_heap[i], queue_heap[j])

Placed(i) == CASE pc = "up" -> i # cur_i
               [] pc = "down" -> parent_index(i) # cur_i
               [] OTHER -> TRUE

HeapButOne ==
  /\ \A i \in Live \ {0} : Placed(i) => InOrder(i, parent_index(i))
  /\ \A i \in Live \ {0} :
       pc # "idle" /\ cur_i # 0 /\ parent_index(i) = cur_i
         => InOrder(i, parent_index(cur_i))
  /\ pc = "down" => \A i \in Live : Outranks(vec, queue_heap[i])

(* The controller implements the priority queue: each call is one step of  *)
(* InterruptQueue, an alert when the table records it and a take when the  *)
(* table forgets it, and the percolations are invisible.                   *)
Pending == [v \in {w \in Vec : PriorityOf(w) # IMPOSSIBLE_PRIORITY} |-> PriorityOf(v)]

Queue == INSTANCE InterruptQueue WITH pending <- Pending

QueueSpec == Queue!Spec

(* "index is vector": a vector has an entry of its own in the table, which *)
(* only an alert for it or its own take changes.                           *)
EntryPerVector ==
  [][\A v \in Vec : PriorityOf(v)' # PriorityOf(v) =>
       (\E p \in Priority : Alert(v, p)) \/ (TakeReturns /\ vec = v)]_vars
=============================================================================
