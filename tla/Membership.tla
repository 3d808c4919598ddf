------------------------------ MODULE Membership ------------------------------
(* What the gateway promises to the network it builds: a device becomes a node *)
(* with an address above every address that was ever given, keeps it as long   *)
(* as it is a node, and leaves only by itself.  No address names two devices,  *)
(* not even one after the other.  The promise ends with the process, which     *)
(* keeps no record of what it gave.                                            *)
EXTENDS Naturals

CONSTANT Devices
VARIABLES nodeAddr,  \* the address each device was last given, 0 before
          member,    \* the devices that are nodes
          forgotten  \* the process was killed

Init == /\ nodeAddr = [d \in Devices |-> 0]
        /\ member = {}
        /\ forgotten = FALSE

Fresh(a) == a \in Nat /\ \A e \in Devices : a > nodeAddr[e]

Join(d) == /\ d \notin member
           /\ member' = member \cup {d}
           /\ nodeAddr' = [nodeAddr EXCEPT ![d] = nodeAddr'[d]]
           /\ forgotten \/ Fresh(nodeAddr'[d])
           /\ UNCHANGED forgotten

Leave(d) == /\ d \in member
            /\ member' = member \ {d}
            /\ UNCHANGED <<nodeAddr, forgotten>>

Forget == forgotten' = TRUE /\ UNCHANGED <<nodeAddr, member>>

Next == Forget \/ \E d \in Devices : Join(d) \/ Leave(d)

Spec == Init /\ [][Next]_<<nodeAddr, member, forgotten>>
===============================================================================
