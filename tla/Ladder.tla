-------------------------------- MODULE Ladder --------------------------------
(* What the provisioner promises about the order of its commands.  Bringing a  *)
(* device into the mesh is a ladder of steps (provision, OOB use, ECDH secret, *)
(* authentication data, device key, composition data, AppKey, model bind,      *)
(* publication).  Whatever the dongle sends and whatever keys the user presses *)
(* meanwhile, a step is taken at most once for every time the step below it    *)
(* was taken: no stale, duplicated or early event makes the gateway send the   *)
(* same command twice or skip a rung.                                          *)
EXTENDS Naturals

CONSTANT Steps                      \* number of rungs
VARIABLE done                       \* done[k]: how often rung k was taken

Init == done = [k \in 1 .. Steps |-> 0]

Take(k) ==
  /\ k > 1 => done[k] < done[k - 1]
  /\ done' = [done EXCEPT ![k] = @ + 1]

Next == \E k \in 1 .. Steps : Take(k)

Spec == Init /\ [][Next]_done
===============================================================================
