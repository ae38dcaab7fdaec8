----------------------------- MODULE AddressMap -----------------------------
(***************************************************************************)
(* What the bus promises to devices and programs: each address belongs to  *)
(* one device or to memory, a device gets addresses that are still free,   *)
(* and keeps them.                                                         *)
(***************************************************************************)
EXTENDS Integers

CONSTANTS Address, Device

VARIABLE owner    \* function from the addresses taken to their devices

Init == owner = [a \in {} |-> a]

Claim(device, addresses) ==
  /\ addresses \cap DOMAIN owner = {}
  /\ owner' = [a \in DOMAIN owner \cup addresses |->
                 IF a \in addresses THEN device ELSE owner[a]]

Next == \E device \in Device, addresses \in SUBSET Address : Claim(device, addresses)

Spec == Init /\ [][Next]_owner
=============================================================================
