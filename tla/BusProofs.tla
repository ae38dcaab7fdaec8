----------------------------- MODULE BusProofs ------------------------------
(***************************************************************************)
(* For all devices, whatever intervals they ask for and in whatever order  *)
(* they are attached: attachments stay in order and apart, so that the     *)
(* binary search finds the owner of each flagged address, and the bus      *)
(* implements the address map.  Of qsort only that it sorts is used; the   *)
(* search is shown to come to an end.                                      *)
(***************************************************************************)
EXTENDS Bus, LeastNumber, TLAPS

-----------------------------------------------------------------------------
(* The binary search *)

Part(n) == (1 .. n + 1) \X (0 .. n)

(* One probe of the search, which goes on with s. *)
Probe(compare, s, part) ==
  LET low == part[1]
      high == part[2]
      mid == (low + high) \div 2
  IN  IF low > high THEN 0
      ELSE IF compare[mid] < 0 THEN s[<<low, mid - 1>>]
      ELSE IF compare[mid] > 0 THEN s[<<mid + 1, high>>]
      ELSE mid

Distance(part) == part[2] - part[1]

(* The middle lies in the part that is searched, and both halves are less. *)
LEMMA MiddleIsInside ==
  ASSUME NEW n \in Nat, NEW part \in Part(n), part[1] <= part[2]
  PROVE  LET mid == (part[1] + part[2]) \div 2
         IN  /\ mid \in Int /\ part[1] <= mid /\ mid <= part[2] /\ mid \in 1 .. n
             /\ <<part[1], mid - 1>> \in Part(n)
             /\ <<mid + 1, part[2]>> \in Part(n)
             /\ Distance(<<part[1], mid - 1>>) < Distance(part)
             /\ Distance(<<mid + 1, part[2]>>) < Distance(part)
<1>1. /\ part[1] \in Int /\ part[2] \in Int
      /\ 1 <= part[1] /\ part[1] <= n + 1 /\ 0 <= part[2] /\ part[2] <= n
  BY DEF Part
<1> QED
  BY <1>1 DEF Part, Distance

(* The search is defined for all bounds: by induction on their distance.   *)
LEMMA SearchExists ==
  ASSUME NEW n \in Nat, NEW compare
  PROVE  \E s : s = [part \in Part(n) |-> Probe(compare, s, part)]
<1> DEFINE Defined(m) ==
             \E s : /\ s = [part \in Part(n) |-> s[part]]
                    /\ \A part \in Part(n) :
                         Distance(part) < m => s[part] = Probe(compare, s, part)
           Failing == {m \in Nat : ~ Defined(m)}
<1>0. \A part \in Part(n) : Distance(part) \in Int /\ Distance(part) < n /\ part[1] \in Int /\ part[2] \in Int
  BY DEF Part, Distance
<1>1. Defined(0)
  <2> DEFINE s == [part \in Part(n) |-> 0]
  <2>1. \A part \in Part(n) : s[part] = 0
    OBVIOUS
  <2>2. s = [part \in Part(n) |-> s[part]]
    OBVIOUS
  <2> HIDE DEF s
  <2>3. ASSUME NEW part \in Part(n), Distance(part) < 0
        PROVE  s[part] = Probe(compare, s, part)
    BY <1>0, <2>1, <2>3 DEF Probe, Distance
  <2> QED BY <2>2, <2>3
<1>2. ASSUME NEW m \in Nat, Defined(m)
      PROVE  Defined(m + 1)
  <2>1. PICK s : /\ s = [part \in Part(n) |-> s[part]]
                 /\ \A part \in Part(n) :
                      Distance(part) < m => s[part] = Probe(compare, s, part)
    BY <1>2
  <2> DEFINE t == [part \in Part(n) |->
                     IF Distance(part) < m THEN s[part] ELSE Probe(compare, s, part)]
  <2>2. \A part \in Part(n) :
          t[part] = IF Distance(part) < m THEN s[part] ELSE Probe(compare, s, part)
    OBVIOUS
  <2>3. t = [part \in Part(n) |-> t[part]]
    OBVIOUS
  <2> HIDE DEF t
  <2>4. ASSUME NEW part \in Part(n), Distance(part) < m + 1
        PROVE  t[part] = Probe(compare, t, part)
    <3>1. t[part] = Probe(compare, s, part)
      BY <2>1, <2>2
    <3>2. CASE part[1] > part[2]
      BY <3>1, <3>2 DEF Probe
    <3>3. CASE part[1] <= part[2]
      <4> DEFINE mid == (part[1] + part[2]) \div 2
                 left == <<part[1], mid - 1>>
                 right == <<mid + 1, part[2]>>
      <4>1. /\ left \in Part(n) /\ right \in Part(n)
            /\ Distance(left) < Distance(part) /\ Distance(right) < Distance(part)
        BY <3>3, MiddleIsInside
      <4>2. Distance(left) < m /\ Distance(right) < m
        <5> HIDE DEF left, right
        <5> QED BY <1>0, <2>4, <4>1
      <4>3. t[left] = s[left] /\ t[right] = s[right]
        BY <2>2, <4>1, <4>2
      <4> QED BY <3>1, <4>3 DEF Probe
    <3> QED BY <1>0, <3>2, <3>3
  <2> QED BY <2>3, <2>4
<1>3. Failing = {}
  <2> HIDE DEF Defined
  <2> SUFFICES ASSUME Failing # {} PROVE FALSE
    OBVIOUS
  <2>1. PICK m \in Failing : \A k \in Failing : m <= k
    BY LeastElement
  <2>2. m # 0 /\ m \in Nat /\ ~ Defined(m)
    BY <1>1
  <2>3. m - 1 \in Nat /\ m = (m - 1) + 1
    BY <2>2
  <2>4. Defined(m - 1)
    BY <2>1, <2>3
  <2> QED BY <1>2, <2>2, <2>3, <2>4
<1>4. Defined(n)
  <2> HIDE DEF Defined
  <2> QED BY <1>3
<1>5. PICK s : /\ s = [part \in Part(n) |-> s[part]]
               /\ \A part \in Part(n) :
                    Distance(part) < n => s[part] = Probe(compare, s, part)
  BY <1>4
<1>6. \A part \in Part(n) : s[part] = Probe(compare, s, part)
  BY <1>0, <1>5
<1>7. s = [part \in Part(n) |-> Probe(compare, s, part)]
  BY <1>5, <1>6
<1> QED
  BY <1>7

(* What list_bsearch returns is the result of the first probe. *)
LEMMA SearchIsProbe ==
  ASSUME NEW list, num_elements(list) \in Nat, NEW compare
  PROVE  \E s : /\ list_bsearch(list, compare) = s[<<1, num_elements(list)>>]
                /\ \A part \in Part(num_elements(list)) : s[part] = Probe(compare, s, part)
<1> DEFINE n == num_elements(list)
           s == CHOOSE s : s = [part \in Part(n) |-> Probe(compare, s, part)]
<1>1. s = [part \in Part(n) |-> Probe(compare, s, part)]
  BY SearchExists
<1>2. list_bsearch(list, compare) = s[<<1, n>>]
  BY DEF list_bsearch, Probe, Part
<1> HIDE DEF s
<1>3. \A part \in Part(n) : s[part] = Probe(compare, s, part)
  BY <1>1
<1> QED
  BY <1>2, <1>3

(* Where the key is equal to one element, lies after those before it and   *)
(* before those after it, the search finds that element.                   *)
LEMMA SearchFinds ==
  ASSUME NEW list, num_elements(list) \in Nat, NEW compare,
         NEW found \in 1 .. num_elements(list),
         \A j \in 1 .. num_elements(list) : compare[j] \in Int,
         compare[found] = 0,
         \A j \in 1 .. num_elements(list) : j < found => compare[j] > 0,
         \A j \in 1 .. num_elements(list) : found < j => compare[j] < 0
  PROVE  list_bsearch(list, compare) = found
<1> DEFINE n == num_elements(list)
<1>1. PICK s : /\ list_bsearch(list, compare) = s[<<1, n>>]
               /\ \A part \in Part(n) : s[part] = Probe(compare, s, part)
  BY SearchIsProbe
<1> DEFINE Inside(part) == part[1] <= found /\ found <= part[2]
           Missing == {part \in Part(n) : Inside(part) /\ s[part] # found}
<1>2. ASSUME NEW part \in Missing
      PROVE  \E less \in Missing : Distance(less) < Distance(part)
  <2> DEFINE mid == (part[1] + part[2]) \div 2
             left == <<part[1], mid - 1>>
             right == <<mid + 1, part[2]>>
  <2>1. part \in Part(n) /\ part[1] \in Int /\ part[2] \in Int /\ part[1] <= part[2]
    BY DEF Part
  <2>2. /\ mid \in 1 .. n
        /\ left \in Part(n) /\ right \in Part(n)
        /\ Distance(left) < Distance(part) /\ Distance(right) < Distance(part)
    BY <2>1, MiddleIsInside
  <2>3. s[part] = IF compare[mid] < 0 THEN s[left]
                  ELSE IF compare[mid] > 0 THEN s[right]
                  ELSE mid
    BY <1>1, <2>1 DEF Probe
  <2>4. CASE mid = found
    BY <2>3, <2>4
  <2>5. CASE mid < found
    <3>1. compare[mid] > 0 /\ s[part] = s[right]
      BY <2>2, <2>3, <2>5
    <3>2. Inside(right)
      BY <2>1, <2>2, <2>5
    <3>3. right \in Missing
      BY <2>2, <3>1, <3>2
    <3> QED BY <2>2, <3>3
  <2>6. CASE found < mid
    <3>1. compare[mid] < 0 /\ s[part] = s[left]
      BY <2>2, <2>3, <2>6
    <3>2. Inside(left)
      BY <2>1, <2>2, <2>6
    <3>3. left \in Missing
      BY <2>2, <3>1, <3>2
    <3> QED BY <2>2, <3>3
  <2> QED BY <2>2, <2>4, <2>5, <2>6
<1>3. Missing = {}
  <2> DEFINE S == {Distance(part) : part \in Missing}
  <2> SUFFICES ASSUME Missing # {} PROVE FALSE
    OBVIOUS
  <2>1. \A part \in Missing : Distance(part) \in Nat
    BY DEF Part, Distance
  <2> HIDE DEF Missing
  <2>2. S \subseteq Nat /\ S # {}
    BY <2>1
  <2>3. PICK m \in S : \A k \in S : m <= k
    BY <2>2, LeastElement
  <2>4. PICK part \in Missing : m = Distance(part)
    BY <2>3
  <2>5. PICK less \in Missing : Distance(less) < m
    BY <1>2, <2>4
  <2>6. Distance(less) \in S
    OBVIOUS
  <2> QED BY <2>1, <2>3, <2>4, <2>5, <2>6
<1>4. <<1, n>> \in Part(n) /\ Inside(<<1, n>>)
  BY DEF Part
<1> QED
  BY <1>1, <1>3, <1>4

-----------------------------------------------------------------------------
(* Sorting after an element was appended *)

(* Numbers in ascending order have a place for one more. *)
LEMMA InsertionPoint ==
  ASSUME NEW n \in Nat, NEW low, \A i \in 1 .. n : low[i] \in Int,
         \A i, j \in 1 .. n : i < j => low[i] <= low[j],
         NEW bound \in Int
  PROVE  \E k \in 0 .. n : /\ \A i \in 1 .. n : i <= k => low[i] <= bound
                           /\ \A i \in 1 .. n : k < i => bound < low[i]
<1> DEFINE Above == {i \in 1 .. n : bound < low[i]}
<1>1. CASE Above = {}
  BY <1>1
<1>2. CASE Above # {}
  <2>0. Above \subseteq Nat
    OBVIOUS
  <2>1. PICK m \in Above : \A i \in Above : m <= i
    BY <1>2, <2>0, LeastElement
  <2>2. m - 1 \in 0 .. n
    BY <2>1
  <2>3. \A i \in 1 .. n : i <= m - 1 => low[i] <= bound
    BY <2>1
  <2>4. \A i \in 1 .. n : m - 1 < i => bound < low[i]
    BY <2>1
  <2> QED BY <2>2, <2>3, <2>4
<1> QED
  BY <1>1, <1>2

(* An order of n + 1 elements, and the one that puts the last in place. *)
Orders(p, n) == p \in [1 .. n + 1 -> 1 .. n + 1] /\ IsInjective(p) /\ Range(p) = 1 .. n + 1

Inserting(n, k) ==
  [i \in 1 .. n + 1 |-> IF i <= k THEN i ELSE IF i = k + 1 THEN n + 1 ELSE i - 1]

(* Moving the last index to its place gives an order of all indices.       *)
LEMMA InsertingOrders ==
  ASSUME NEW n \in Nat, NEW k \in 0 .. n
  PROVE  Orders(Inserting(n, k), n)
<1> DEFINE p == Inserting(n, k)
<1>1. /\ DOMAIN p = 1 .. n + 1
      /\ \A i \in 1 .. n + 1 :
           p[i] = IF i <= k THEN i ELSE IF i = k + 1 THEN n + 1 ELSE i - 1
  BY DEF Inserting
<1>2. p \in [1 .. n + 1 -> 1 .. n + 1]
  BY <1>1 DEF Inserting
<1>3. IsInjective(p)
  BY <1>1 DEF IsInjective
<1>4. ASSUME NEW j \in 1 .. n + 1 PROVE \E i \in 1 .. n + 1 : p[i] = j
  <2>1. CASE j <= k
    BY <1>1, <2>1
  <2>2. CASE j = n + 1
    <3>1. k + 1 \in 1 .. n + 1 /\ ~ (k + 1 <= k) /\ p[k + 1] = n + 1
      BY <1>1
    <3> QED BY <2>2, <3>1
  <2>3. CASE k < j /\ j <= n
    <3>1. j + 1 \in 1 .. n + 1 /\ p[j + 1] = j
      BY <1>1, <2>3
    <3> QED BY <3>1
  <2> QED BY <2>1, <2>2, <2>3
<1>5. Range(p) = 1 .. n + 1
  BY <1>1, <1>2, <1>4, ZenonT(40) DEF Range
<1> QED
  BY <1>2, <1>3, <1>5 DEF Orders

(* If some order of the elements is ascending, list_sort puts them in one. *)
LEMMA SortOrders ==
  ASSUME NEW list, NEW n \in Nat, DOMAIN list.elements = 1 .. n + 1,
         NEW q, Orders(q, n),
         \A i, j \in 1 .. n + 1 : i < j =>
           attachment_comparator[<<list.elements[q[i]], list.elements[q[j]]>>] <= 0
  PROVE  \E p : /\ Orders(p, n)
                /\ \A i, j \in 1 .. n + 1 : i < j =>
                     attachment_comparator[<<list.elements[p[i]], list.elements[p[j]]>>] <= 0
                /\ list_sort(list, attachment_comparator) =
                     [list EXCEPT !.elements = [i \in 1 .. n + 1 |-> list.elements[p[i]]]]
<1> DEFINE indices == 1 .. n + 1
           Ascending(p) ==
             /\ \A i, j \in indices : i < j =>
                  attachment_comparator[<<list.elements[p[i]], list.elements[p[j]]>>] <= 0
             /\ IsInjective(p) /\ Range(p) = indices
           order == CHOOSE p \in [indices -> indices] : Ascending(p)
<1>1. q \in [indices -> indices] /\ Ascending(q)
  BY DEF Orders
<1>2. order \in [indices -> indices] /\ Ascending(order)
  <2> HIDE DEF Ascending
  <2> QED BY <1>1
<1>3. list_sort(list, attachment_comparator) =
        [list EXCEPT !.elements = [i \in indices |-> list.elements[order[i]]]]
  BY DEF list_sort
<1> HIDE DEF order
<1> QED
  BY <1>2, <1>3 DEF Orders

-----------------------------------------------------------------------------
(* The invariant *)

ListOK(list, S) ==
  /\ list \in [elements : Seq(S), capacity : Nat \ {0}]
  /\ num_elements(list) <= list.capacity

Proper == {range \in Interval : range.low <= range.high}

(* Lists have room for an element, or are NULL; intervals are not empty;   *)
(* and the flags are those of the addresses that an attachment covers.     *)
BusTypes ==
  /\ ListOK(attachments, Attachment)
  /\ attachment_flag \subseteq Address
  /\ device \in Device \cup {NoDevice}
  /\ wanted \in Seq(Proper)
  /\ device = NoDevice => wanted = <<>>
  /\ started \subseteq Device /\ refused \subseteq Device
  /\ on_input_devices = NULL \/ ListOK(on_input_devices, Listeners)
  /\ on_tick_devices = NULL \/ ListOK(on_tick_devices, Tickers)

FlagsMatch ==
  attachment_flag = {a \in Address : \E x \in Range(Attached) : Covers(x.range, a)}

IInv ==
  /\ BusTypes
  /\ \A x \in Range(Attached) : x.range \in Proper
  /\ FlagsMatch
  /\ SortedAndDisjoint

(* A list that is full grows before it takes one more. *)
LEMMA AddedToList ==
  ASSUME NEW S, NEW list, ListOK(list, S), NEW mult \in Nat \ {0, 1}, NEW x \in S
  PROVE  /\ ListOK(list_add(list, mult, x), S)
         /\ list_add(list, mult, x).elements = Append(list.elements, x)
<1> DEFINE c == list.capacity
           n == Len(list.elements)
<1>1. c \in Nat \ {0} /\ n \in Nat /\ n <= c /\ list.elements \in Seq(S)
  BY DEF ListOK, num_elements
<1>2. c * mult \in Nat \ {0} /\ c + 1 <= c * mult
  BY <1>1, SMT
<1>3. Append(list.elements, x) \in Seq(S) /\ Len(Append(list.elements, x)) = n + 1
  BY <1>1
<1>4. CASE Full(list)
  <2>0. list_resize(list, mult) = [elements |-> list.elements, capacity |-> c * mult]
    BY DEF list_resize, ListOK
  <2>1. list_add(list, mult, x) =
          [elements |-> Append(list.elements, x), capacity |-> c * mult]
    <3>1. list_add(list, mult, x) =
            [list_resize(list, mult) EXCEPT !.elements = Append(list_resize(list, mult).elements, x)]
      BY <1>4 DEF list_add
    <3>2. list_resize(list, mult).elements = list.elements
      BY <2>0
    <3>3. \A d, y : [[elements |-> list.elements, capacity |-> d] EXCEPT !.elements = y] =
                       [elements |-> y, capacity |-> d]
      OBVIOUS
    <3> QED BY <2>0, <3>1, <3>2, <3>3, Zenon
  <2> QED BY <1>1, <1>2, <1>3, <2>1 DEF ListOK, num_elements
<1>5. CASE ~ Full(list)
  <2>0. list = [elements |-> list.elements, capacity |-> c]
    BY DEF ListOK
  <2>1. list_add(list, mult, x) = [elements |-> Append(list.elements, x), capacity |-> c]
    <3>1. list_add(list, mult, x) = [list EXCEPT !.elements = Append(list.elements, x)]
      BY <1>5 DEF list_add
    <3> QED BY <2>0, <3>1
  <2>2. n + 1 <= c
    BY <1>1, <1>5 DEF Full, num_elements
  <2> QED BY <1>1, <1>3, <2>1, <2>2 DEF ListOK, num_elements
<1> QED
  BY <1>4, <1>5

(* No attachment, no flag and no list of subscriptions.                    *)
LEMMA InitIInv == Init => IInv
<1> SUFFICES ASSUME Init PROVE IInv
  OBVIOUS
<1>1. ListOK(attachments, Attachment) /\ Attached = <<>>
  BY BusAssumption DEF Init, ListOK, list_new, num_elements, Attached
<1>2. <<>> \in Seq(Proper)
  OBVIOUS
<1>3. Range(Attached) = {} /\ DOMAIN Attached = {}
  BY <1>1 DEF Range
<1>4. BusTypes
  BY <1>1, <1>2 DEF Init, BusTypes
<1> QED
  BY <1>3, <1>4 DEF Init, IInv, FlagsMatch, SortedAndDisjoint

(* A list that never holds more than it has room for.                      *)
LEMMA ListTypes ==
  ASSUME NEW S, NEW list, list = NULL \/ ListOK(list, S)
  PROVE  list.elements \in Seq(S) /\ num_elements(list) <= list.capacity
<1>1. CASE list = NULL
  <2>1. list.elements = <<>> /\ list.capacity = 0
    BY <1>1 DEF NULL, list_new
  <2> QED BY <2>1 DEF num_elements
<1>2. CASE ListOK(list, S)
  BY <1>2 DEF ListOK
<1> QED
  BY <1>1, <1>2

(* What is attached is proper, so it is an interval.                       *)
LEMMA IInvTypes == IInv => TypeOK
<1> SUFFICES ASSUME IInv PROVE TypeOK
  OBVIOUS
<1>1. wanted \in Seq(Interval)
  BY DEF IInv, BusTypes, Proper
<1>2. /\ on_input_devices.elements \in Seq(Listeners)
      /\ num_elements(on_input_devices) <= on_input_devices.capacity
      /\ on_tick_devices.elements \in Seq(Tickers)
      /\ num_elements(on_tick_devices) <= on_tick_devices.capacity
  BY ListTypes DEF IInv, BusTypes
<1> QED
  BY <1>1, <1>2 DEF IInv, BusTypes, TypeOK, ListOK, Attached, Attachment

-----------------------------------------------------------------------------
(* Attaching an interval *)

BoundsOf(range) ==
  range.low \in Int /\ range.high \in Int /\ range.low <= range.high

(* The bounds of a proper interval are numbers in order.                   *)
LEMMA ProperBounds == \A range \in Proper : BoundsOf(range)
<1>1. Address \subseteq Int
  BY BusAssumption
<1> QED
  BY <1>1 DEF Proper, Interval, BoundsOf

Apart(i, j) == i.high < j.low \/ j.high < i.low

(* The scan looks at enough: what it passes over lies past the interval.   *)
LEMMA ScanFindsOverlaps ==
  ASSUME IInv, NEW range \in Proper, ~ bus_contains_interval(range),
         NEW i \in DOMAIN Attached
  PROVE  Apart(Attached[i].range, range)
<1>1. \A j \in DOMAIN Attached : BoundsOf(Attached[j].range)
  BY ProperBounds DEF IInv, Range
<1>2. BoundsOf(range)
  BY ProperBounds
<1>3. DOMAIN Attached = 1 .. Len(Attached) /\ Len(Attached) \in Nat
  BY DEF IInv, BusTypes, ListOK, Attached
<1>4. CASE range.high < Attached[i].range.low
  BY <1>4 DEF Apart
<1>5. CASE Attached[i].range.low <= range.high
  <2>1. ASSUME NEW j \in 1 .. i PROVE Attached[j].range.low <= range.high
    <3>1. j \in DOMAIN Attached /\ (j = i \/ j < i)
      BY <1>3
    <3>2. j < i => Attached[j].range.high < Attached[i].range.low
      BY <3>1 DEF IInv, SortedAndDisjoint
    <3> QED BY <1>1, <1>2, <1>5, <3>1, <3>2 DEF BoundsOf
  <2>2. i \in Scanned(range)
    BY <2>1 DEF Scanned
  <2>3. ~ intervals_overlap(Attached[i].range, range)
    BY <2>2 DEF bus_contains_interval
  <2> QED BY <1>1, <1>2, <2>3 DEF intervals_overlap, BoundsOf, Apart
<1> QED
  BY <1>1, <1>2, <1>4, <1>5 DEF BoundsOf

NewAttachment == [device |-> device, range |-> Head(wanted)]

(* The interval that is added belongs to the device being attached.        *)
LEMMA NewIsAttachment ==
  ASSUME IInv, AddAttachment
  PROVE  /\ NewAttachment \in Attachment /\ NewAttachment.range = Head(wanted)
         /\ NewAttachment.device = device
         /\ Head(wanted) \in Proper /\ device \in Device
<1>1. wanted \in Seq(Proper) /\ wanted # <<>> /\ device \in Device
  BY DEF IInv, BusTypes, AddAttachment
<1>2. Head(wanted) \in Proper
  BY <1>1
<1> QED
  BY <1>1, <1>2 DEF NewAttachment, Attachment, Proper

(* Attachments are compared by their lower bounds.                         *)
LEMMA ComparedByLow ==
  \A x, y \in Attachment : attachment_comparator[<<x, y>>] = x.range.low - y.range.low
BY DEF attachment_comparator

(* The new attachment goes to its place between the others. *)
LEMMA AttachmentInserted ==
  ASSUME IInv, AddAttachment
  PROVE  /\ ListOK(attachments', Attachment)
         /\ Range(Attached') = Range(Attached) \cup {NewAttachment}
         /\ SortedAndDisjoint'
<1> DEFINE n == Len(Attached)
           e == Append(Attached, NewAttachment)
           added == list_add(attachments, ATTACHMENT_SIZE_MULTIPLIER, NewAttachment)
<1>1. /\ Attached \in Seq(Attachment) /\ n \in Nat /\ DOMAIN Attached = 1 .. n
      /\ NewAttachment \in Attachment /\ NewAttachment.range = Head(wanted)
      /\ Head(wanted) \in Proper
  BY NewIsAttachment DEF IInv, BusTypes, ListOK, Attached
<1>2. /\ e \in Seq(Attachment) /\ DOMAIN e = 1 .. n + 1
      /\ \A i \in 1 .. n : e[i] = Attached[i]
      /\ e[n + 1] = NewAttachment
  BY <1>1
<1>3. ListOK(added, Attachment) /\ added.elements = e
  <2>1. ATTACHMENT_SIZE_MULTIPLIER \in Nat \ {0, 1}
    BY BusAssumption
  <2> QED BY <1>1, <2>1, AddedToList DEF IInv, BusTypes, Attached
<1>4. attachments' = list_sort(added, attachment_comparator)
  BY DEF AddAttachment, NewAttachment
<1> HIDE DEF e, added
<1>5. \A i \in 1 .. n + 1 : BoundsOf(e[i].range)
  <2>1. \A i \in 1 .. n : BoundsOf(Attached[i].range)
    BY <1>1, ProperBounds DEF IInv, Range
  <2>2. BoundsOf(NewAttachment.range)
    BY <1>1, ProperBounds
  <2>3. \A i \in 1 .. n + 1 : i \in 1 .. n \/ i = n + 1
    BY <1>1
  <2> QED BY <1>2, <2>1, <2>2, <2>3
<1>6. \A i \in 1 .. n : Apart(e[i].range, e[n + 1].range)
  BY <1>1, <1>2, ScanFindsOverlaps DEF AddAttachment
<1>7. \A i, j \in 1 .. n : i < j => e[i].range.high < e[j].range.low
  BY <1>1, <1>2 DEF IInv, SortedAndDisjoint
<1>8. \A i, j \in 1 .. n + 1 : i # j => Apart(e[i].range, e[j].range)
  <2> SUFFICES ASSUME NEW i \in 1 .. n + 1, NEW j \in 1 .. n + 1, i # j
               PROVE  Apart(e[i].range, e[j].range)
    OBVIOUS
  <2>1. CASE i \in 1 .. n /\ j \in 1 .. n
    BY <1>7, <2>1 DEF Apart
  <2>2. CASE i = n + 1 \/ j = n + 1
    <3>1. i \in 1 .. n \/ j \in 1 .. n
      BY <1>1, <2>2
    <3> QED BY <1>6, <2>2, <3>1 DEF Apart
  <2> QED BY <1>1, <2>1, <2>2
<1> DEFINE low == [i \in 1 .. n |-> e[i].range.low]
<1>9. PICK k \in 0 .. n :
        /\ \A i \in 1 .. n : i <= k => e[i].range.low <= e[n + 1].range.low
        /\ \A i \in 1 .. n : k < i => e[n + 1].range.low < e[i].range.low
  <2>1. \A i \in 1 .. n : low[i] = e[i].range.low /\ low[i] \in Int
    BY <1>1, <1>5 DEF BoundsOf
  <2>2. \A i, j \in 1 .. n : i < j => low[i] <= low[j]
    <3> SUFFICES ASSUME NEW i \in 1 .. n, NEW j \in 1 .. n, i < j PROVE low[i] <= low[j]
      OBVIOUS
    <3>1. BoundsOf(e[i].range) /\ BoundsOf(e[j].range)
      BY <1>1, <1>5
    <3> QED BY <1>7, <2>1, <3>1 DEF BoundsOf
  <2>3. e[n + 1].range.low \in Int
    BY <1>1, <1>5 DEF BoundsOf
  <2> HIDE DEF low
  <2>4. \E k \in 0 .. n : /\ \A i \in 1 .. n : i <= k => low[i] <= e[n + 1].range.low
                          /\ \A i \in 1 .. n : k < i => e[n + 1].range.low < low[i]
    BY <1>1, <2>1, <2>2, <2>3, InsertionPoint
  <2> QED BY <2>1, <2>4
<1> DEFINE q == Inserting(n, k)
<1>10. \A i, j \in 1 .. n + 1 : i < j => e[q[i]].range.low <= e[q[j]].range.low
  <2> SUFFICES ASSUME NEW i \in 1 .. n + 1, NEW j \in 1 .. n + 1, i < j
               PROVE  e[q[i]].range.low <= e[q[j]].range.low
    OBVIOUS
  <2>1. /\ q[i] = IF i <= k THEN i ELSE IF i = k + 1 THEN n + 1 ELSE i - 1
        /\ q[j] = IF j <= k THEN j ELSE IF j = k + 1 THEN n + 1 ELSE j - 1
    BY DEF Inserting
  <2>2. q[i] \in 1 .. n + 1 /\ q[j] \in 1 .. n + 1
    BY <1>1, <2>1
  <2>3. BoundsOf(e[q[i]].range) /\ BoundsOf(e[q[j]].range)
    BY <1>5, <2>2
  <2>4. CASE i = k + 1
    <3>1. q[i] = n + 1 /\ q[j] = j - 1 /\ j - 1 \in 1 .. n /\ k < j - 1
      BY <1>1, <2>1, <2>4
    <3>2. e[n + 1].range.low < e[j - 1].range.low
      BY <1>9, <3>1
    <3> QED BY <2>3, <3>1, <3>2 DEF BoundsOf
  <2>5. CASE j = k + 1
    <3>1. q[j] = n + 1 /\ q[i] = i /\ i \in 1 .. n /\ i <= k
      BY <1>1, <2>1, <2>5
    <3> QED BY <1>9, <3>1
  <2>6. CASE i # k + 1 /\ j # k + 1
    <3>1. q[i] \in 1 .. n /\ q[j] \in 1 .. n /\ q[i] < q[j]
      BY <1>1, <2>1, <2>6
    <3>2. e[q[i]].range.high < e[q[j]].range.low
      BY <1>7, <3>1
    <3> HIDE DEF q
    <3> QED BY <2>3, <3>2 DEF BoundsOf
  <2> QED BY <2>4, <2>5, <2>6
<1>11. Orders(q, n)
  BY <1>1, InsertingOrders
<1> HIDE DEF q
<1>12. PICK p : /\ Orders(p, n)
                /\ \A i, j \in 1 .. n + 1 : i < j =>
                     attachment_comparator[<<e[p[i]], e[p[j]]>>] <= 0
                /\ attachments' = [added EXCEPT !.elements = [i \in 1 .. n + 1 |-> e[p[i]]]]
  <2>1. \A i \in 1 .. n + 1 : q[i] \in 1 .. n + 1
    BY <1>11 DEF Orders
  <2>2. \A i, j \in 1 .. n + 1 : i < j => attachment_comparator[<<e[q[i]], e[q[j]]>>] <= 0
    <3> SUFFICES ASSUME NEW i \in 1 .. n + 1, NEW j \in 1 .. n + 1, i < j
                 PROVE  attachment_comparator[<<e[q[i]], e[q[j]]>>] <= 0
      OBVIOUS
    <3>1. BoundsOf(e[q[i]].range) /\ BoundsOf(e[q[j]].range)
      BY <1>5, <2>1
    <3>2. e[q[i]] \in Attachment /\ e[q[j]] \in Attachment
      BY <1>2, <2>1
    <3>3. e[q[i]].range.low <= e[q[j]].range.low
      BY <1>10
    <3> QED BY <3>1, <3>2, <3>3, ComparedByLow, SMTT(30) DEF BoundsOf
  <2>3. DOMAIN added.elements = 1 .. n + 1
    BY <1>2, <1>3
  <2>4. \A i, j \in 1 .. n + 1 : i < j =>
          attachment_comparator[<<added.elements[q[i]], added.elements[q[j]]>>] <= 0
    BY <1>3, <2>2
  <2>5. PICK p : /\ Orders(p, n)
                 /\ \A i, j \in 1 .. n + 1 : i < j =>
                      attachment_comparator[<<added.elements[p[i]], added.elements[p[j]]>>] <= 0
                 /\ list_sort(added, attachment_comparator) =
                      [added EXCEPT !.elements = [i \in 1 .. n + 1 |-> added.elements[p[i]]]]
    <3>1. n \in Nat
      BY <1>1
    <3> HIDE DEF n
    <3> QED BY <1>11, <2>3, <2>4, <3>1, SortOrders
  <2>6. [i \in 1 .. n + 1 |-> added.elements[p[i]]] = [i \in 1 .. n + 1 |-> e[p[i]]]
    BY <1>3
  <2>7. /\ Orders(p, n)
        /\ \A i, j \in 1 .. n + 1 : i < j => attachment_comparator[<<e[p[i]], e[p[j]]>>] <= 0
        /\ attachments' = [added EXCEPT !.elements = [i \in 1 .. n + 1 |-> e[p[i]]]]
    BY <1>3, <1>4, <2>5, <2>6, Zenon
  <2> QED BY <2>7
<1>13. \A i \in 1 .. n + 1 : p[i] \in 1 .. n + 1
  BY <1>12 DEF Orders
<1>14. /\ Attached' = [i \in 1 .. n + 1 |-> e[p[i]]]
       /\ attachments' = [elements |-> Attached', capacity |-> added.capacity]
  BY <1>3, <1>12 DEF Attached, ListOK
<1>15. DOMAIN Attached' = 1 .. n + 1 /\ \A i \in 1 .. n + 1 : Attached'[i] = e[p[i]]
  BY <1>14
<1>16. ListOK(attachments', Attachment)
  <2>1. \A i \in 1 .. n + 1 : e[p[i]] \in Attachment
    BY <1>2, <1>13
  <2>2. Attached' \in Seq(Attachment) /\ Len(Attached') = n + 1
    BY <1>1, <1>14, <2>1
  <2>3. Len(e) = n + 1
    BY <1>1, <1>2
  <2> QED BY <1>3, <1>14, <2>2, <2>3 DEF ListOK, num_elements
<1>17. Range(Attached') = Range(Attached) \cup {NewAttachment}
  <2>1. Range(Attached') = {e[i] : i \in 1 .. n + 1}
    <3>1. \A i \in 1 .. n + 1 : \E j \in 1 .. n + 1 : p[j] = i
      BY <1>12 DEF Range, Orders
    <3>2. Range(Attached') = {e[p[i]] : i \in 1 .. n + 1}
      BY <1>15 DEF Range
    <3> QED BY <1>13, <3>1, <3>2
  <2>2. \A i \in 1 .. n + 1 : i \in 1 .. n \/ i = n + 1
    BY <1>1
  <2>3. n + 1 \in 1 .. n + 1 /\ 1 .. n \subseteq 1 .. n + 1
    BY <1>1
  <2> QED BY <1>1, <1>2, <2>1, <2>2, <2>3 DEF Range
<1>18. ASSUME NEW i \in 1 .. n + 1, NEW j \in 1 .. n + 1, i < j
       PROVE  Attached'[i].range.high < Attached'[j].range.low
  <2>1. p[i] # p[j]
    BY <1>12, <1>18 DEF Orders, IsInjective
  <2>2. BoundsOf(e[p[i]].range) /\ BoundsOf(e[p[j]].range)
    BY <1>5, <1>13
  <2>3. e[p[i]] \in Attachment /\ e[p[j]] \in Attachment
    BY <1>2, <1>13
  <2>4. e[p[i]].range.low <= e[p[j]].range.low
    <3>1. attachment_comparator[<<e[p[i]], e[p[j]]>>] <= 0
      BY <1>12, <1>18, Zenon
    <3>2. attachment_comparator[<<e[p[i]], e[p[j]]>>] = e[p[i]].range.low - e[p[j]].range.low
      BY <2>3, ComparedByLow
    <3> QED BY <2>2, <3>1, <3>2 DEF BoundsOf
  <2>5. Apart(e[p[i]].range, e[p[j]].range)
    BY <1>8, <1>13, <2>1
  <2> QED BY <1>15, <2>2, <2>4, <2>5 DEF BoundsOf, Apart
<1> QED
  BY <1>15, <1>16, <1>17, <1>18 DEF SortedAndDisjoint

(* The flags are those of the intervals attached, also of the new one.     *)
LEMMA AddKeepsIInv ==
  ASSUME IInv, AddAttachment
  PROVE  IInv'
<1>1. /\ ListOK(attachments', Attachment)
      /\ Range(Attached') = Range(Attached) \cup {NewAttachment}
      /\ SortedAndDisjoint'
  BY AttachmentInserted
<1>2. NewAttachment.range = Head(wanted) /\ Head(wanted) \in Proper /\ device \in Device
  BY NewIsAttachment
<1>3. /\ wanted \in Seq(Proper) /\ wanted # <<>>
      /\ attachment_flag' = attachment_flag \cup Flagged(Head(wanted))
      /\ wanted' = Tail(wanted)
      /\ UNCHANGED <<device, started, refused, on_input_devices, on_tick_devices>>
  BY DEF AddAttachment, subscriptions, IInv, BusTypes
<1>4. wanted' \in Seq(Proper)
  BY <1>3
<1>5. FlagsMatch'
  BY <1>1, <1>2, <1>3 DEF FlagsMatch, Flagged, IInv
<1>6. \A x \in Range(Attached') : x.range \in Proper
  BY <1>1, <1>2 DEF IInv
<1>7. attachment_flag' \subseteq Address
  BY <1>5 DEF FlagsMatch
<1>8. device' \in Device
  BY <1>2, <1>3
<1>9. device' # NoDevice
  BY <1>8, BusAssumption
<1>10. BusTypes'
  BY <1>1, <1>3, <1>4, <1>7, <1>8, <1>9 DEF IInv, BusTypes
<1> QED
  BY <1>1, <1>5, <1>6, <1>10 DEF IInv

(* A list of subscriptions that does not exist yet is made with room for   *)
(* one.                                                                    *)
LEMMA SubscribedIsList ==
  ASSUME NEW S, NEW list, list = NULL \/ ListOK(list, S),
         NEW size_init \in Nat \ {0}, NEW d \in S
  PROVE  ListOK(Subscribed(list, size_init, d), S)
<1> DEFINE base == IF list = NULL THEN list_new(size_init) ELSE list
<1>1. ListOK(list_new(size_init), S)
  BY DEF ListOK, list_new, num_elements
<1>2. ListOK(base, S)
  BY <1>1
<1>3. SUBSCRIPTION_SIZE_MULTIPLIER \in Nat \ {0, 1}
  BY BusAssumption
<1> HIDE DEF base
<1>4. ListOK(list_add(base, SUBSCRIPTION_SIZE_MULTIPLIER, d), S)
  BY <1>2, <1>3, AddedToList
<1> QED
  BY <1>4 DEF Subscribed, base

(* A device that starts joins the lists it subscribes to.                  *)
LEMMA StartKeepsIInv ==
  ASSUME IInv, Start
  PROVE  IInv'
<1>1. /\ device # NoDevice /\ wanted = <<>> /\ device' = NoDevice
      /\ started' = started \cup {device}
      /\ UNCHANGED <<attachments, attachment_flag, wanted, refused>>
  BY DEF Start
<1>2. device \in Device
  BY <1>1 DEF IInv, BusTypes
<1>3. on_input_devices' = NULL \/ ListOK(on_input_devices', Listeners)
  <2>1. ON_INPUT_SIZE_INIT \in Nat \ {0}
    BY BusAssumption
  <2> QED BY <2>1, SubscribedIsList DEF Start, IInv, BusTypes
<1>4. on_tick_devices' = NULL \/ ListOK(on_tick_devices', Tickers)
  <2>1. ON_TICK_SIZE_INIT \in Nat \ {0}
    BY BusAssumption
  <2> QED BY <2>1, SubscribedIsList DEF Start, IInv, BusTypes
<1>5. BusTypes'
  BY <1>1, <1>2, <1>3, <1>4 DEF IInv, BusTypes
<1> QED
  BY <1>1, <1>5 DEF IInv, FlagsMatch, Attached, SortedAndDisjoint

(* The other steps leave the attachments alone.                            *)
LEMMA NextKeepsIInv == IInv /\ [Next]_vars => IInv'
<1> SUFFICES ASSUME IInv, [Next]_vars PROVE IInv'
  OBVIOUS
<1>1. ASSUME NEW d \in Device, NEW intervals \in Wanted, Attach(d, intervals)
      PROVE  IInv'
  <2>1. intervals \in Seq(Proper)
    BY BusAssumption DEF Proper
  <2>2. d # NoDevice
    BY BusAssumption
  <2>3. /\ device' = d /\ wanted' = intervals
        /\ UNCHANGED <<attachments, attachment_flag, started, refused,
                       on_input_devices, on_tick_devices>>
    BY <1>1 DEF Attach, subscriptions
  <2>4. BusTypes'
    BY <2>1, <2>2, <2>3 DEF IInv, BusTypes
  <2> QED BY <2>3, <2>4 DEF IInv, FlagsMatch, Attached, SortedAndDisjoint
<1>2. CASE AddAttachment
  BY <1>2, AddKeepsIInv
<1>3. CASE Refuse
  <2>1. /\ wanted # <<>> /\ device' = NoDevice /\ wanted' = <<>>
        /\ refused' = refused \cup {device}
        /\ UNCHANGED <<attachments, attachment_flag, started, on_input_devices, on_tick_devices>>
    BY <1>3 DEF Refuse, subscriptions
  <2>2. device \in Device /\ <<>> \in Seq(Proper)
    BY <2>1 DEF IInv, BusTypes
  <2>3. BusTypes'
    BY <2>1, <2>2 DEF IInv, BusTypes
  <2> QED BY <2>1, <2>3 DEF IInv, FlagsMatch, Attached, SortedAndDisjoint
<1>4. CASE Start
  BY <1>4, StartKeepsIInv
<1>5. CASE UNCHANGED vars
  BY <1>5 DEF vars, subscriptions, IInv, BusTypes, FlagsMatch, Attached, SortedAndDisjoint
<1> QED
  BY <1>1, <1>2, <1>3, <1>4, <1>5 DEF Next

(* For any sizes of the lists and any devices, nothing is written past the *)
(* end of a list and only intervals of devices are attached.               *)
THEOREM TypeCorrect == Spec => []TypeOK
<1> QED
  BY InitIInv, NextKeepsIInv, IInvTypes, PTL DEF Spec

(* Sorting after each attachment, and the scan that stops early before it, *)
(* keep the attachments in order and apart.                                *)
THEOREM AlwaysSortedAndDisjoint == Spec => []SortedAndDisjoint
<1>1. IInv => SortedAndDisjoint
  BY DEF IInv
<1> QED
  BY <1>1, InitIInv, NextKeepsIInv, PTL DEF Spec

-----------------------------------------------------------------------------
(* The owner of an address *)

(* The search finds the attachment that covers a flagged address.          *)
LEMMA OwnerFound ==
  ASSUME NEW list, ListOK(list, Attachment),
         \A x \in Range(list.elements) : x.range \in Proper,
         \A i, j \in DOMAIN list.elements :
           i < j => list.elements[i].range.high < list.elements[j].range.low,
         NEW a \in Int, NEW found \in DOMAIN list.elements,
         Covers(list.elements[found].range, a)
  PROVE  list_bsearch(list, [i \in DOMAIN list.elements |->
                               bsearch_attachment_comparator(a, list.elements[i])]) = found
<1> DEFINE n == num_elements(list)
           compare == [i \in DOMAIN list.elements |->
                         bsearch_attachment_comparator(a, list.elements[i])]
<1>1. n \in Nat /\ DOMAIN list.elements = 1 .. n
  BY DEF ListOK, num_elements
<1>2. \A i \in 1 .. n : BoundsOf(list.elements[i].range)
  BY <1>1, ProperBounds DEF Range
<1>3. \A i \in 1 .. n : /\ compare[i] \in {-1, 0, 1}
                        /\ compare[i] = bsearch_attachment_comparator(a, list.elements[i])
  BY <1>1 DEF bsearch_attachment_comparator
<1> HIDE DEF compare
<1>4. compare[found] = 0
  BY <1>1, <1>2, <1>3 DEF bsearch_attachment_comparator, Covers, BoundsOf
<1>5. ASSUME NEW j \in 1 .. n, j < found PROVE compare[j] > 0
  <2>1. list.elements[j].range.high < list.elements[found].range.low
    BY <1>1, <1>5
  <2>2. BoundsOf(list.elements[j].range) /\ BoundsOf(list.elements[found].range)
    BY <1>1, <1>2
  <2>3. list.elements[j].range.low <= a /\ list.elements[j].range.high < a
    BY <2>1, <2>2 DEF Covers, BoundsOf
  <2>4. compare[j] = 1
    BY <1>3, <2>2, <2>3 DEF bsearch_attachment_comparator, BoundsOf
  <2> QED BY <2>4
<1>6. ASSUME NEW j \in 1 .. n, found < j PROVE compare[j] < 0
  <2>1. list.elements[found].range.high < list.elements[j].range.low
    BY <1>1, <1>6
  <2>2. BoundsOf(list.elements[j].range) /\ BoundsOf(list.elements[found].range)
    BY <1>1, <1>2
  <2>3. a < list.elements[j].range.low
    BY <2>1, <2>2 DEF Covers, BoundsOf
  <2>4. compare[j] = -1
    BY <1>3, <2>2, <2>3 DEF bsearch_attachment_comparator, BoundsOf
  <2> QED BY <2>4
<1>7. list_bsearch(list, compare) = found
  <2>1. \A j \in 1 .. n : compare[j] \in Int
    BY <1>3
  <2> QED BY <1>1, <1>4, <1>5, <1>6, <2>1, SearchFinds
<1> QED
  BY <1>7 DEF compare

(* Now and after a step, the device of an address is that of the           *)
(* attachment that covers it.                                              *)
LEMMA DeviceIsOwner ==
  ASSUME IInv
  PROVE  \A a \in Address, i \in DOMAIN Attached :
           Covers(Attached[i].range, a) =>
             bus_search(a) = i /\ DeviceAt(a) = Attached[i].device
<1> SUFFICES ASSUME NEW a \in Address, NEW i \in DOMAIN Attached, Covers(Attached[i].range, a)
             PROVE  bus_search(a) = i /\ DeviceAt(a) = Attached[i].device
  OBVIOUS
<1>1. a \in Int
  BY BusAssumption
<1>2. bus_search(a) = i
  BY <1>1, OwnerFound DEF IInv, BusTypes, SortedAndDisjoint, bus_search, Attached
<1>3. i # 0
  BY DEF IInv, BusTypes, ListOK, Attached
<1> QED
  BY <1>2, <1>3 DEF DeviceAt

LEMMA DeviceIsOwnerAfter ==
  ASSUME IInv'
  PROVE  \A a \in Address, i \in DOMAIN Attached' :
           Covers(Attached'[i].range, a) => DeviceAt(a)' = Attached'[i].device
<1> SUFFICES ASSUME NEW a \in Address, NEW i \in DOMAIN Attached', Covers(Attached'[i].range, a)
             PROVE  DeviceAt(a)' = Attached'[i].device
  OBVIOUS
<1>1. a \in Int
  BY BusAssumption
<1>2. bus_search(a)' = i
  BY <1>1, OwnerFound DEF IInv, BusTypes, SortedAndDisjoint, bus_search, Attached
<1>3. i # 0
  BY DEF IInv, BusTypes, ListOK, Attached
<1> QED
  BY <1>2, <1>3 DEF DeviceAt

(* bus_read and bus_write may use the result of the search unchecked.      *)
THEOREM SearchAlwaysFinds == Spec => []SearchFindsOwner
<1>1. IInv => SearchFindsOwner
  <2> SUFFICES ASSUME IInv PROVE SearchFindsOwner
    OBVIOUS
  <2>1. attachment_flag = {a \in Address : \E x \in Range(Attached) : Covers(x.range, a)}
    BY DEF IInv, FlagsMatch
  <2>2. ASSUME NEW a \in attachment_flag
        PROVE  bus_search(a) \in DOMAIN Attached /\ Covers(Attached[bus_search(a)].range, a)
    <3>1. PICK i \in DOMAIN Attached : Covers(Attached[i].range, a)
      BY <2>1 DEF Range
    <3>2. a \in Address
      BY <2>1
    <3> QED BY <3>1, <3>2, DeviceIsOwner
  <2>3. \A a \in Address : a \notin attachment_flag =>
          \A i \in DOMAIN Attached : ~ Covers(Attached[i].range, a)
    BY <2>1 DEF Range
  <2> QED BY <2>2, <2>3 DEF SearchFindsOwner
<1> QED
  BY <1>1, InitIInv, NextKeepsIInv, PTL DEF Spec

-----------------------------------------------------------------------------
(* The address map *)

owner_of == [a \in attachment_flag |-> DeviceAt(a)]

(* An interval that is added claims its addresses, which were free, for    *)
(* its device.                                                             *)
LEMMA AddClaims ==
  ASSUME IInv, IInv', AddAttachment
  PROVE  Map!Claim(device, Flagged(Head(wanted)))
<1> DEFINE range == Head(wanted)
<1>1. /\ NewAttachment.range = range /\ range \in Proper /\ NewAttachment.device = device
  BY NewIsAttachment
<1>2. Range(Attached') = Range(Attached) \cup {NewAttachment}
  BY AttachmentInserted
<1>3. /\ attachment_flag = {a \in Address : \E x \in Range(Attached) : Covers(x.range, a)}
      /\ attachment_flag' = attachment_flag \cup Flagged(range)
      /\ attachment_flag' \subseteq Address
  BY DEF IInv, FlagsMatch, BusTypes, AddAttachment
<1>4. \A x \in Range(Attached) : BoundsOf(x.range) /\ Apart(x.range, range)
  BY <1>1, ProperBounds, ScanFindsOverlaps DEF Range, IInv, AddAttachment
<1>5. BoundsOf(range) /\ Address \subseteq Int
  BY <1>1, ProperBounds, BusAssumption
<1>6. Flagged(range) \cap attachment_flag = {}
  <2> SUFFICES ASSUME NEW a \in Flagged(range), a \in attachment_flag PROVE FALSE
    OBVIOUS
  <2>1. PICK x \in Range(Attached) : Covers(x.range, a)
    BY <1>3
  <2>2. a \in Int /\ Covers(range, a)
    BY <1>5 DEF Flagged
  <2>3. BoundsOf(x.range) /\ Apart(x.range, range)
    BY <1>4
  <2> QED BY <1>5, <2>1, <2>2, <2>3 DEF Covers, Apart, BoundsOf
<1>7. ASSUME NEW a \in Flagged(range) PROVE DeviceAt(a)' = device
  <2>1. PICK i \in DOMAIN Attached' : Attached'[i] = NewAttachment
    BY <1>2 DEF Range
  <2>2. Covers(Attached'[i].range, a) /\ a \in Address
    BY <1>1, <2>1 DEF Flagged
  <2> QED BY <1>1, <2>1, <2>2, DeviceIsOwnerAfter
<1>8. ASSUME NEW a \in attachment_flag PROVE DeviceAt(a)' = DeviceAt(a)
  <2>1. PICK i \in DOMAIN Attached : Covers(Attached[i].range, a)
    BY <1>3 DEF Range
  <2>2. a \in Address
    BY <1>3
  <2>3. PICK j \in DOMAIN Attached' : Attached'[j] = Attached[i]
    BY <1>2 DEF Range
  <2> QED BY <2>1, <2>2, <2>3, DeviceIsOwner, DeviceIsOwnerAfter
<1> DEFINE before == [a \in attachment_flag |-> DeviceAt(a)]
           after == [a \in attachment_flag' |-> DeviceAt(a)']
<1>9. after = [a \in DOMAIN before \cup Flagged(range) |->
                 IF a \in Flagged(range) THEN device ELSE before[a]]
  BY <1>3, <1>7, <1>8
<1> QED
  BY <1>6, <1>9 DEF Map!Claim

(* Attaching implements the address map: an address that has a device      *)
(* keeps it, and a device gets free addresses only.                        *)
THEOREM ImplementsAddressMap == Spec => AddressMapSpec
<1>1. Init => Map!Init
  BY DEF Init, Map!Init
<1>2. IInv /\ IInv' /\ [Next]_vars => [Map!Next]_owner_of
  <2> SUFFICES ASSUME IInv, IInv', [Next]_vars PROVE [Map!Next]_owner_of
    OBVIOUS
  <2>1. CASE AddAttachment
    <3>1. Map!Claim(device, Flagged(Head(wanted)))
      BY <2>1, AddClaims
    <3>2. device \in Device /\ Flagged(Head(wanted)) \in SUBSET Address
      BY <2>1, NewIsAttachment DEF Flagged
    <3> QED BY <3>1, <3>2 DEF Map!Next
  <2>2. CASE ~ AddAttachment
    <3>1. UNCHANGED <<attachments, attachment_flag>>
      BY <2>2 DEF Next, Attach, Refuse, Start, vars
    <3> QED BY <3>1 DEF owner_of, DeviceAt, bus_search, Attached
  <2> QED BY <2>1, <2>2
<1> QED
  BY <1>1, <1>2, InitIInv, NextKeepsIInv, PTL DEF Spec, AddressMapSpec, Map!Spec, owner_of
=============================================================================
