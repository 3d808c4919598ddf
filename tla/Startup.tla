-------------------------------- MODULE Startup --------------------------------
(* How the process comes up: the main thread opens the port, resets the        *)
(* dongle's radio, waits, and starts the receiver thread of module SerialLink, *)
(* to which it hands the address of a variable of ble_start.  Each of these    *)
(* may fail.  The thread takes the descriptor from there when it first runs,   *)
(* which may be after ble_start has returned and its frame is in use again.    *)
EXTENDS SerialLink

VARIABLES
  mpc,    \* main thread: control point
  local,  \* what is in memory where ble_start keeps fd
  fd      \* what the receiver thread reads from

main   == <<mpc, local>>
upVars == <<main, fd, vars>>

SInit == /\ Init
         /\ mpc = "open" /\ local = "none" /\ fd = "no thread"

Open == /\ mpc = "open"
        /\ \/ mpc' = "reset" /\ local' = "port"
           \/ mpc' = "exited" /\ UNCHANGED local
        /\ UNCHANGED <<fd, vars>>

(* The write of the reset, and the sleep after it.                             *)
RadioReset == /\ mpc = "reset"
              /\ mpc' \in {"create", "exited"}
              /\ UNCHANGED <<local, fd, vars>>

CreateThread == /\ mpc = "create"
                /\ \/ mpc' = "return" /\ fd' = "to fetch"
                   \/ mpc' = "exited" /\ UNCHANGED fd
                /\ UNCHANGED <<local, vars>>

(* ble_start returns and main reports the start.                               *)
Return == /\ mpc = "return"
          /\ mpc' = "loop"
          /\ UNCHANGED <<local, fd, vars>>

(* The calls that main makes next use the memory of ble_start's frame.         *)
Reuse == /\ mpc = "loop"
         /\ local' = "other"
         /\ UNCHANGED <<mpc, fd, vars>>

FetchFd == /\ fd = "to fetch"
           /\ fd' = local
           /\ UNCHANGED <<main, vars>>

(* A read from anything but the port is taken to bring nothing.                *)
Receiving == fd = "port" /\ Next /\ UNCHANGED <<main, fd>>

MainStep     == Open \/ RadioReset \/ CreateThread \/ Return
ReceiverStep == FetchFd \/ Receiving
SNext == MainStep \/ Reuse \/ ReceiverStep

(* Both threads run; the frame need not be reused.                             *)
StartupSpec == /\ SInit /\ [][SNext]_upVars
               /\ WF_upVars(MainStep) /\ WF_upVars(ReceiverStep)

-------------------------------------------------------------------------------
(* There is no receiver, or it reads from elsewhere.                           *)
Deaf == mpc = "exited" \/ fd = "other"

(* The handlers get the dongle's frames, in order, and get them all, unless    *)
(* the noise filter of ble_receive_handle takes a byte of a frame or passes a  *)
(* byte of noise on, the start fails, or the receiver comes too late for fd.   *)
Fifo == INSTANCE FrameFifo WITH noise <- Misread \/ Deaf
FifoSpec == Fifo!Spec

(* A process that has reported its start gets to see what the dongle sends.    *)
StartedHears == mpc = "loop" ~> delivered = stream \/ Misread
===============================================================================
