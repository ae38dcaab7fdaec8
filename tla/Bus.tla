-------------------------------- MODULE Bus ---------------------------------
(***************************************************************************)
(* src/src/bus.c and simulator_attach_device: the attachments, a list of   *)
(* intervals sorted by their lower bound, the flag of each address, and    *)
(* the search that bus_read and bus_write make for a flagged address.      *)
(*                                                                         *)
(* A device says which addresses it wants either as a RANGE, by two        *)
(* bounds, or one by one (SEPERATE).  An attachment is one action for each *)
(* interval, ended by Refuse or by Start; the program has one thread, so   *)
(* one device is attached at a time.                                       *)
(***************************************************************************)
EXTENDS List

CONSTANTS
  Address,                      \* 0 .. 65535
  Device,
  NoDevice,
  Wanted,                       \* the lists of intervals devices ask for
  Listeners,                    \* the devices with an on_input callback
  Tickers,                      \* those with an on_tick callback
  ATTACHMENT_SIZE_INIT,
  ATTACHMENT_SIZE_MULTIPLIER,
  ON_INPUT_SIZE_INIT,
  ON_TICK_SIZE_INIT,
  SUBSCRIPTION_SIZE_MULTIPLIER

Interval == [low : Address, high : Address]
Attachment == [device : Device, range : Interval]
Covers(range, a) == range.low <= a /\ a <= range.high

ASSUME BusAssumption ==
  /\ Address \subseteq Nat
  /\ NoDevice \notin Device
  /\ Wanted \subseteq Seq({range \in Interval : range.low <= range.high})
  /\ Listeners \subseteq Device /\ Tickers \subseteq Device
  /\ {ATTACHMENT_SIZE_INIT, ON_INPUT_SIZE_INIT, ON_TICK_SIZE_INIT} \subseteq Nat \ {0}
  /\ {ATTACHMENT_SIZE_MULTIPLIER, SUBSCRIPTION_SIZE_MULTIPLIER} \subseteq Nat \ {0, 1}

VARIABLES
  attachments,        \* list of [device, range], sorted by range.low
  attachment_flag,    \* the addresses whose flag is set
  device,             \* the one being attached, or NoDevice
  wanted,             \* the intervals it still asks for
  started, refused,   \* devices simulator_attach_device returned 0, -1 for
  on_input_devices,   \* list of devices, or NULL
  on_tick_devices     \* the same

subscriptions == <<on_input_devices, on_tick_devices>>
vars == <<attachments, attachment_flag, device, wanted, started, refused, subscriptions>>

(* No list; list_num_elements of it would dereference a null pointer. *)
NULL == list_new(0)

Init ==
  /\ attachments = list_new(ATTACHMENT_SIZE_INIT)
  /\ attachment_flag = {}
  /\ device = NoDevice
  /\ wanted = <<>>
  /\ started = {} /\ refused = {}
  /\ on_input_devices = NULL /\ on_tick_devices = NULL

-----------------------------------------------------------------------------
(* The scan for an overlap, and the search *)

Attached == attachments.elements

(* Fault for AddressMapSpec: the bounds of one interval are not compared. *)
intervals_overlap_low(i, j) == Covers(i, j.low)

intervals_overlap(i, j) == j.low <= i.high /\ j.high >= i.low

(* Fault for SortedAndDisjoint: the scan stops where two bounds are equal. *)
ScannedLess(range) ==
  {i \in DOMAIN Attached : \A j \in 1 .. i : Attached[j].range.low < range.high}

(* The scan stops at the first attachment that starts past the interval. *)
Scanned(range) ==
  {i \in DOMAIN Attached : \A j \in 1 .. i : Attached[j].range.low <= range.high}

bus_contains_interval(range) ==
  \E i \in Scanned(range) : intervals_overlap(Attached[i].range, range)

attachment_comparator ==
  [pair \in Attachment \X Attachment |-> pair[1].range.low - pair[2].range.low]

bsearch_attachment_comparator(point, attachment) ==
  CASE point < attachment.range.low  -> -1
    [] point > attachment.range.high -> 1
    [] OTHER                         -> 0

(* The attachment whose device is called for an address, if any. *)
bus_search(a) ==
  list_bsearch(attachments,
               [i \in DOMAIN Attached |-> bsearch_attachment_comparator(a, Attached[i])])

-----------------------------------------------------------------------------
(* simulator_attach_device *)

(* attach_devices hands over each loaded device once. *)
Attach(d, intervals) ==
  /\ device = NoDevice
  /\ d \notin started \cup refused
  /\ device' = d
  /\ wanted' = intervals
  /\ UNCHANGED <<attachments, attachment_flag, started, refused, subscriptions>>

(* Fault for SearchFindsOwner: the upper bound gets no flag. *)
FlaggedBelow(range) == {a \in Address : range.low <= a /\ a < range.high}

Flagged(range) == {a \in Address : Covers(range, a)}

(* bus_add_attachment *)
AddAttachment ==
  LET range == Head(wanted)
      added == list_add(attachments, ATTACHMENT_SIZE_MULTIPLIER,
                        [device |-> device, range |-> range])
  IN  /\ wanted # <<>>
      /\ ~ bus_contains_interval(range)
      /\ attachments' = list_sort(added, attachment_comparator)
      /\ attachment_flag' = attachment_flag \cup Flagged(range)
      /\ wanted' = Tail(wanted)
      /\ UNCHANGED <<device, started, refused, subscriptions>>

(* The intervals that were added before the one that overlaps stay. *)
Refuse ==
  /\ wanted # <<>>
  /\ bus_contains_interval(Head(wanted))
  /\ refused' = refused \cup {device}
  /\ device' = NoDevice
  /\ wanted' = <<>>
  /\ UNCHANGED <<attachments, attachment_flag, started, subscriptions>>

(* A list of subscriptions is made for the first device that needs it. *)
Subscribed(list, size_init, d) ==
  list_add(IF list = NULL THEN list_new(size_init) ELSE list,
           SUBSCRIPTION_SIZE_MULTIPLIER, d)

(* start, then simulator_check_device_subscriptions *)
Start ==
  /\ device # NoDevice /\ wanted = <<>>
  /\ started' = started \cup {device}
  /\ on_input_devices' =
       IF device \in Listeners THEN Subscribed(on_input_devices, ON_INPUT_SIZE_INIT, device)
       ELSE on_input_devices
  /\ on_tick_devices' =
       IF device \in Tickers THEN Subscribed(on_tick_devices, ON_TICK_SIZE_INIT, device)
       ELSE on_tick_devices
  /\ device' = NoDevice
  /\ UNCHANGED <<attachments, attachment_flag, wanted, refused>>

Next ==
  \/ \E d \in Device, intervals \in Wanted : Attach(d, intervals)
  \/ AddAttachment
  \/ Refuse
  \/ Start

Spec == Init /\ [][Next]_vars

-----------------------------------------------------------------------------
(* Properties *)

(* What is attached is an interval of a device, and no list is written     *)
(* past its end.                                                           *)
TypeOK ==
  /\ Attached \in Seq(Attachment)
  /\ num_elements(attachments) <= attachments.capacity
  /\ attachment_flag \subseteq Address
  /\ device \in Device \cup {NoDevice}
  /\ wanted \in Seq(Interval)
  /\ device = NoDevice => wanted = <<>>
  /\ started \subseteq Device /\ refused \subseteq Device
  /\ on_input_devices.elements \in Seq(Listeners)
  /\ num_elements(on_input_devices) <= on_input_devices.capacity
  /\ on_tick_devices.elements \in Seq(Tickers)
  /\ num_elements(on_tick_devices) <= on_tick_devices.capacity

(* Attachments are in ascending order and do not overlap, on which both    *)
(* the scan and the binary search rely.                                    *)
SortedAndDisjoint ==
  \A i, j \in DOMAIN Attached : i < j => Attached[i].range.high < Attached[j].range.low

(* The search succeeds for every flagged address, where bus_read and       *)
(* bus_write use its result unchecked, and no attached address is taken    *)
(* for memory.                                                             *)
SearchFindsOwner ==
  \A a \in Address :
    /\ a \in attachment_flag => /\ bus_search(a) \in DOMAIN Attached
                                /\ Covers(Attached[bus_search(a)].range, a)
    /\ a \notin attachment_flag => \A i \in DOMAIN Attached : ~ Covers(Attached[i].range, a)

(* As seen through bus_read and bus_write, the bus implements the address  *)
(* map: an address that has a device keeps it, whatever is attached later. *)
DeviceAt(a) == IF bus_search(a) = 0 THEN NoDevice ELSE Attached[bus_search(a)].device

Map == INSTANCE AddressMap WITH owner <- [a \in attachment_flag |-> DeviceAt(a)]

AddressMapSpec == Map!Spec
=============================================================================
