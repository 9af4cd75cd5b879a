--------------------------- MODULE MCDeviceSlots ---------------------------
(* Instances of DeviceSlots; the ids are interchangeable.                   *)
EXTENDS DeviceSlots, TLC

AnyId == Permutations(Sessions) \cup Permutations(Calls) \cup Permutations(Devices)
=============================================================================
