------------------------------ MODULE MCGateway -------------------------------
(* Gateway for TLC: the devices are interchangeable, so states that differ in  *)
(* a renaming of them are explored once.  Only for safety properties.          *)
EXTENDS Gateway, TLC

DeviceSymmetry == Permutations(Devices)
===============================================================================
