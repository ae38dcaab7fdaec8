------------------------------- MODULE MCBus --------------------------------
(***************************************************************************)
(* Devices that want any one range, or up to two addresses one by one.     *)
(***************************************************************************)
EXTENDS Bus

CONSTANTS d1, d2, d3, MaxAddress

Addresses == 0 .. MaxAddress
Devices == {d1, d2, d3}
ListeningDevices == {d1, d2}

One(a) == [low |-> a, high |-> a]
Ranges == {<<range>> : range \in {r \in [low : Addresses, high : Addresses] : r.low <= r.high}}
Separates == {<<>>} \cup {<<One(a), One(b)>> : a, b \in Addresses}
RangesAndSeparates == Ranges \cup Separates
=============================================================================
