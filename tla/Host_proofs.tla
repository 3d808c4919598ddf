----------------------------- MODULE Host_proofs ------------------------------
(* Proofs about module Host for every set of devices, keys and payload values, *)
(* every modulus of the address counter and every bound.                       *)
EXTENDS Host, TLAPS

USE DEF STATE_NEW, PROVISION, OOBUSE, ECDH, AUTH, DEVKEY_ADDRPUBADD,
        PS_COMPOSDATA, PS_APPKEY_ADD, PS_MODEL_APP_BIND, PS_MODEL_PUBLICATION_SET

-------------------------------------------------------------------------------
(* A remainder is in range.                                                    *)
LEMMA ModInRange == ASSUME NEW x \in Nat PROVE x % U16 \in U16Int
BY HostAssumption DEF HostAssumption, U16Int

-------------------------------------------------------------------------------
(* Whatever a rung writes is a sequence of well-formed commands.               *)
LEMMA RungCommandsType ==
  ASSUME TypeOK, NEW k \in Rungs, NEW ev \in Events
  PROVE  RungCommands(k, ev) \in Seq(Commands)
<1>. USE DEF TypeOK
<1>1. NextAddr \in U16Int
  <2>1. dev_addr + 1 \in Nat
    BY DEF U16Int
  <2>. QED  BY <2>1, ModInRange DEF NextAddr
<1>2. ev.dev \in Devices \cup {NoDevice}
  BY DEF Events
<1>3. Provision(ev.dev, NextAddr) \in Commands
  BY <1>1, <1>2 DEF Provision, Commands
<1>4. \A op \in PlainCommands : Cmd(op) \in Commands
  BY DEF Cmd, Commands
<1>5. DevkeyAdd(dev_addr, subnet_handle, ev.dev) \in Commands
  BY <1>2 DEF DevkeyAdd, Commands
<1>6. AddrPublicationAdd(dev_addr) \in Commands
  BY DEF AddrPublicationAdd, Commands
<1>7. \A msg \in PacketMessages :
         ConfigPacket(msg) \in Commands /\ ModelPacket(msg) \in Commands
  BY HostAssumption DEF HostAssumption, ConfigPacket, ModelPacket, PacketSend,
     ElementInBody, Packets, Commands, U16Int
<1>. QED
  BY <1>3, <1>4, <1>5, <1>6, <1>7 DEF RungCommands, PlainCommands, PacketMessages

(* Reading an event, writing commands and the frames of the two threads keep   *)
(* the types of what they touch.                                               *)
LEMMA ReceiveType ==
  ASSUME TypeOK, NEW ops, Receive(ops)
  PROVE  toHost' \in Seq(Events) /\ Head(toHost) \in Events
BY DEF TypeOK, Receive

(* Appending well-formed commands keeps the serial output well formed.         *)
LEMMA WriteType ==
  ASSUME TypeOK, NEW cmds \in Seq(Commands), Write(cmds)
  PROVE  toDongle' \in Seq(Commands)
<1>1. \A s, t \in Seq(Commands) : s \o t \in Seq(Commands)
  OBVIOUS
<1>. QED  BY <1>1 DEF TypeOK, Write

(* Going on to a handler's body keeps the types.                               *)
LEMMA BeginType ==
  ASSUME TypeOK, NEW k \in Rungs, NEW ev \in Events, Begin(k, ev),
         toHost' \in Seq(Events), UNCHANGED cli
  PROVE  TypeOK'
BY DEF TypeOK, Begin, handles, cli, Rungs, States

(* So does taking an event and doing nothing about it.                         *)
LEMMA IdleType ==
  ASSUME TypeOK, Idle, toHost' \in Seq(Events), UNCHANGED cli
  PROVE  TypeOK'
BY DEF TypeOK, Idle, handles, receiver, cli

(* So does the whole guarded handler of a rung.                                *)
LEMMA HandleType ==
  ASSUME TypeOK, NEW op, NEW k \in Rungs, Handle(op, k)
  PROVE  TypeOK'
BY ReceiveType, BeginType, IdleType DEF Handle

-------------------------------------------------------------------------------
(* The receiver thread keeps the types.                                        *)
LEMMA ReceiverType == ASSUME TypeOK, ReceiverNext PROVE TypeOK'
<1>0. \A k \in PROVISION .. PS_MODEL_PUBLICATION_SET : k \in Rungs
  BY DEF Rungs
<1>1. CASE ProvUnprovisionedReceived
  BY <1>0, <1>1, HandleType DEF ProvUnprovisionedReceived
<1>2. CASE ProvCapsReceived
  BY <1>0, <1>2, HandleType DEF ProvCapsReceived
<1>3. CASE ProvEcdhRequest
  BY <1>0, <1>3, HandleType DEF ProvEcdhRequest
<1>4. CASE ProvAuthRequest
  BY <1>0, <1>4, HandleType DEF ProvAuthRequest
<1>5. CASE CompositionDataStatus
  BY <1>0, <1>5, HandleType DEF CompositionDataStatus
<1>6. CASE TxComplete
  BY <1>0, <1>6, HandleType DEF TxComplete
<1>7. CASE AppkeyStatus
  BY <1>0, <1>7, HandleType DEF AppkeyStatus
<1>8. CASE ModelAppStatus
  BY <1>0, <1>8, HandleType DEF ModelAppStatus
<1>9. CASE ProvComplete
  <2>1. <<Cmd("PROV_SCAN_STOP")>> \in Seq(Commands)
    BY DEF Cmd, Commands, PlainCommands
  <2>2. toDongle' \in Seq(Commands)
    BY <1>9, <2>1, WriteType DEF ProvComplete
  <2>3. toHost' \in Seq(Events) /\ Head(toHost) \in Events
    BY <1>9, ReceiveType DEF ProvComplete
  <2>. QED
    BY <1>9, <2>2, <2>3 DEF ProvComplete, TypeOK, handles, cli, States
<1>10. CASE ProvCompleteCheck
  BY <1>10 DEF ProvCompleteCheck, TypeOK, handles, cli, Rungs
<1>11. CASE ProvLinkClosed
  <2>1. toHost' \in Seq(Events) /\ Head(toHost) \in Events
    BY <1>11, ReceiveType DEF ProvLinkClosed
  <2>2. CASE Begin(PS_COMPOSDATA, Head(toHost))
    BY <1>0, <1>11, <2>1, <2>2, BeginType DEF ProvLinkClosed
  <2>3. CASE state' = STATE_NEW /\ UNCHANGED <<handles, element_address, dev_addr,
                                             receiver, toDongle, done>>
    BY <1>11, <2>1, <2>3 DEF ProvLinkClosed, TypeOK, handles, receiver, cli, States
  <2>. QED  BY <1>11, <2>2, <2>3 DEF ProvLinkClosed
<1>12. CASE PublicationStatus
  <2>1. toHost' \in Seq(Events)
    BY <1>12, ReceiveType DEF PublicationStatus
  <2>. QED
    BY <1>12, <2>1 DEF PublicationStatus, TypeOK, handles, receiver, cli, States
<1>13. CASE Body
  <2>1. job.rung \in Rungs /\ job.ev \in Events /\ job.ev.val \in U16Int
    BY <1>13 DEF Body, TypeOK, Events
  <2>2. toDongle' \in Seq(Commands)
    BY <1>13, <2>1, RungCommandsType, WriteType DEF Body
  <2>3. dev_addr' \in U16Int
    <3>1. dev_addr + 1 \in Nat
      BY DEF TypeOK, U16Int
    <3>. QED  BY <1>13, <3>1, ModInRange DEF Body, NextAddr, TypeOK
  <2>4. done' \in [Rungs -> Nat]
    BY <1>13, <2>1 DEF Body, TypeOK
  <2>. QED
    BY <1>13, <2>1, <2>2, <2>3, <2>4 DEF Body, TypeOK, cli
<1>14. CASE SetState
  BY <1>14 DEF SetState, TypeOK, handles, cli
<1>15. CASE HandleResponse
  <2>1. toHost' \in Seq(Events) /\ Head(toHost) \in Events
    BY <1>15, ReceiveType DEF HandleResponse
  <2>. QED
    BY <1>15, <2>1 DEF HandleResponse, Idle, TypeOK, handles, receiver, cli, States
<1>16. CASE StoreHandle
  BY <1>16 DEF StoreHandle, TypeOK, cli, Events
<1>17. CASE SubnetResponse
  <2>1. toHost' \in Seq(Events) /\ Head(toHost) \in Events
    BY <1>17, ReceiveType DEF SubnetResponse
  <2>2. subnet_handle' \in U16Int
    BY <1>17, <2>1 DEF SubnetResponse, TypeOK, Events
  <2>3. \A i \in 0 .. 1 : AppKeyAdd(i, subnet_handle') \in Commands
    BY <2>2 DEF AppKeyAdd, Commands
  <2>4. <<AppKeyAdd(0, subnet_handle'), AppKeyAdd(1, subnet_handle')>> \in Seq(Commands)
    BY <2>3
  <2>5. toDongle' \in Seq(Commands)
    <3>. DEFINE cmds == IF Head(toHost).ok
                        THEN <<AppKeyAdd(0, subnet_handle'),
                               AppKeyAdd(1, subnet_handle')>>
                        ELSE <<>>
    <3>1. cmds \in Seq(Commands) /\ Write(cmds)
      BY <1>17, <2>4 DEF SubnetResponse
    <3>. HIDE DEF cmds
    <3>. QED  BY <3>1, WriteType
  <2>. QED
    BY <1>17, <2>1, <2>2, <2>5 DEF SubnetResponse, TypeOK, receiver, cli
<1>18. CASE LocalUnicastResponse
  <2>1. toHost' \in Seq(Events)
    BY <1>18, ReceiveType DEF LocalUnicastResponse
  <2>2. <<Cmd("SUBNET_ADD")>> \in Seq(Commands)
    BY DEF Cmd, Commands, PlainCommands
  <2>3. toDongle' \in Seq(Commands)
    <3>. DEFINE cmds == IF Head(toHost).ok THEN <<Cmd("SUBNET_ADD")>> ELSE <<>>
    <3>1. cmds \in Seq(Commands) /\ Write(cmds)
      BY <1>18, <2>2 DEF LocalUnicastResponse
    <3>. HIDE DEF cmds
    <3>. QED  BY <3>1, WriteType
  <2>. QED
    BY <1>18, <2>1, <2>3 DEF LocalUnicastResponse, TypeOK, handles, receiver, cli
<1>19. CASE DeviceStarted
  <2>1. toHost' \in Seq(Events)
    BY <1>19, ReceiveType DEF DeviceStarted
  <2>2. <<Cmd("ADDR_LOCAL_UNICAST_SET")>> \in Seq(Commands)
    BY DEF Cmd, Commands, PlainCommands
  <2>3. toDongle' \in Seq(Commands)
    BY <1>19, <2>2, WriteType DEF DeviceStarted
  <2>. QED
    BY <1>19, <2>1, <2>3 DEF DeviceStarted, TypeOK, handles, receiver, cli
<1>20. CASE PrintOnly
  BY <1>20, ReceiveType, IdleType DEF PrintOnly
<1>. QED
  BY <1>1, <1>2, <1>3, <1>4, <1>5, <1>6, <1>7, <1>8, <1>9, <1>10, <1>11, <1>12,
     <1>13, <1>14, <1>15, <1>16, <1>17, <1>18, <1>19, <1>20 DEF ReceiverNext

(* So does the main thread.                                                    *)
LEMMA CliType == ASSUME TypeOK, PressKey \/ CliContinue PROVE TypeOK'
<1>. USE DEF CliFrame, handles, receiver
<1>0. \A op \in PlainCommands : <<Cmd(op)>> \in Seq(Commands)
  BY DEF Cmd, Commands
<1>1. CASE PressScanStart
  <2>1. toDongle' \in Seq(Commands)
    BY <1>0, <1>1, WriteType DEF PressScanStart, PlainCommands
  <2>. QED  BY <1>1, <2>1 DEF PressScanStart, TypeOK
<1>2. CASE ResetState
  BY <1>2 DEF ResetState, TypeOK, States
<1>3. CASE PressScanStop
  <2>1. toDongle' \in Seq(Commands)
    BY <1>0, <1>3, WriteType DEF PressScanStop, PlainCommands
  <2>. QED  BY <1>3, <2>1 DEF PressScanStop, TypeOK, cli
<1>4. ASSUME NEW keys, NEW msg \in PacketMessages, NEW key_handle \in U16Int,
             PressPacket(keys, msg, key_handle)
      PROVE  TypeOK'
  <2>1. PacketSend(msg, key_handle, 0, 0) \in Packets
    BY <1>4, HostAssumption DEF HostAssumption, PacketSend, Packets, U16Int
  <2>. QED  BY <1>4, <2>1 DEF PressPacket, TypeOK
<1>5. CASE PressOnOff
  BY <1>4, <1>5 DEF PressOnOff, PacketMessages, TypeOK
<1>6. CASE PressComposition
  BY <1>4, <1>6 DEF PressComposition, PacketMessages, TypeOK
<1>7. CASE PressNodeReset
  BY <1>4, <1>7 DEF PressNodeReset, PacketMessages, TypeOK
<1>8. CASE FillDestination
  BY <1>8 DEF FillDestination, TypeOK, Packets
<1>9. CASE WritePacket
  <2>1. <<packet>> \in Seq(Commands)
    BY DEF TypeOK, Commands
  <2>2. toDongle' \in Seq(Commands)
    BY <1>9, <2>1, WriteType DEF WritePacket
  <2>. QED  BY <1>9, <2>2 DEF WritePacket, TypeOK
<1>. QED
  BY <1>1, <1>2, <1>3, <1>5, <1>6, <1>7, <1>8, <1>9 DEF PressKey, CliContinue

(* So does the open environment.                                               *)
LEMMA EnvType == ASSUME TypeOK, EnvEvent \/ EnvDrain PROVE TypeOK'
<1>. USE DEF handles, receiver, cli
<1>1. CASE EnvEvent
  <2>1. PICK op \in EventOps, ok \in BOOLEAN, val \in Values, dev \in Devices :
          toHost' = <<Event(op, ok, val, dev)>>
    BY <1>1 DEF EnvEvent
  <2>2. Event(op, ok, val, dev) \in Events
    BY HostAssumption DEF HostAssumption, Event, Events, U16Int
  <2>. QED  BY <1>1, <2>1, <2>2 DEF EnvEvent, TypeOK
<1>2. CASE EnvDrain
  BY <1>2 DEF EnvDrain, TypeOK
<1>. QED  BY <1>1, <1>2

(* The process starts with well-formed variables.                              *)
LEMMA InitType == ASSUME Init PROVE TypeOK
<1>1. Cmd("DEVICE_RADIO_RESET") \in Commands
  BY DEF Cmd, Commands, PlainCommands
<1>2. NoJob \in [rung : States, ev : Events]
  BY HostAssumption DEF HostAssumption, NoJob, Report, Event, Events, EventOps,
     Reports, States, U16Int
<1>3. PacketSend("ONOFF_SET", 0, 0, 0) \in Packets
  BY HostAssumption DEF HostAssumption, PacketSend, Packets, PacketMessages, U16Int
<1>. QED
  BY <1>1, <1>2, <1>3, HostAssumption
  DEF HostAssumption, Init, TypeOK, States, Rungs, U16Int

(* The variables keep their types, whatever events arrive and whatever keys    *)
(* are pressed, in any interleaving of the two threads.                        *)
THEOREM TypeCorrect == Spec => []TypeOK
<1>1. Init => TypeOK
  BY InitType
<1>2. TypeOK /\ [Next]_hostVars => TypeOK'
  <2>. SUFFICES ASSUME TypeOK, [Next]_hostVars PROVE TypeOK'
    OBVIOUS
  <2>1. CASE Next
    BY <2>1, ReceiverType, CliType, EnvType DEF Next
  <2>2. CASE UNCHANGED hostVars
    BY <2>2 DEF hostVars, TypeOK, handles, receiver, cli
  <2>. QED  BY <2>1, <2>2
<1>. QED  BY <1>1, <1>2, PTL DEF Spec

-------------------------------------------------------------------------------
(* The state and the receiver's control point carry one pending rung.          *)
Sent == TypeOK /\ PendingWasSent

(* A step that leaves `done' alone and makes no other rung pending.            *)
LEMMA PendingKept ==
  ASSUME Sent, UNCHANGED done, \A k \in Rungs : Pending(k)' => Pending(k)
  PROVE  PendingWasSent'
<1>1. Pending(PS_MODEL_PUBLICATION_SET)' => Pending(PS_MODEL_PUBLICATION_SET)
  BY DEF Rungs
<1>2. \A k \in PROVISION .. PS_MODEL_APP_BIND : Pending(k)' => Pending(k)
  BY DEF Rungs
<1>. QED  BY <1>1, <1>2 DEF Sent, PendingWasSent

(* A guarded handler makes at most the rung pending that its guard saw pending.*)
LEMMA HandlePending ==
  ASSUME Sent, NEW op, NEW k \in Rungs, Handle(op, k)
  PROVE  PendingWasSent'
<1>1. UNCHANGED done
  BY DEF Handle, Begin, Idle
<1>2. ASSUME NEW j \in Rungs, Pending(j)' PROVE Pending(j)
  <2>1. CASE state = k - 1 /\ Begin(k, Head(toHost))
    BY <1>2, <2>1 DEF Handle, Receive, Begin, Pending, Rungs
  <2>2. CASE Idle
    BY <1>2, <2>2 DEF Idle, Pending, receiver
  <2>. QED  BY <2>1, <2>2 DEF Handle
<1>. QED  BY <1>1, <1>2, PendingKept

(* The body counts the rung it takes: the rung below is no longer pending.     *)
LEMMA BodyPending == ASSUME Sent, Body PROVE PendingWasSent'
<1>. DEFINE r == job.rung
<1>1. /\ r \in Rungs /\ done \in [Rungs -> Nat]
      /\ done' = [done EXCEPT ![r] = @ + 1]
  BY DEF Body, Sent, TypeOK
<1>2. \A k \in Rungs : r = k + 1 => Pending(k)
  BY DEF Body, Pending
<1>3. \A k \in Rungs : Pending(k)' => r = k
  BY DEF Body, Pending
<1>4. \A k \in PROVISION .. PS_MODEL_APP_BIND :
         done[k] >= done[k + 1] /\ (r = k + 1 => done[k] > done[k + 1])
  BY <1>2 DEF Sent, PendingWasSent, Rungs
<1>. HIDE DEF r
<1>5. \A k \in PROVISION .. PS_MODEL_APP_BIND :
         done'[k] >= done'[k + 1] /\ (r = k => done'[k] > done'[k + 1])
  BY <1>1, <1>4 DEF Rungs
<1>6. r = PS_MODEL_PUBLICATION_SET => done'[PS_MODEL_PUBLICATION_SET] > 0
  BY <1>1 DEF Rungs
<1>7. \A k \in PROVISION .. PS_MODEL_APP_BIND : Pending(k)' => r = k
  BY <1>3 DEF Rungs
<1>8. Pending(PS_MODEL_PUBLICATION_SET)' => r = PS_MODEL_PUBLICATION_SET
  BY <1>3 DEF Rungs
<1>. QED  BY <1>5, <1>6, <1>7, <1>8 DEF PendingWasSent

(* The receiver thread never waits for what it has not sent.                   *)
LEMMA ReceiverPending == ASSUME Sent, ReceiverNext PROVE PendingWasSent'
<1>. USE DEF Pending, Receive, Idle, receiver
<1>0. \A k \in PROVISION .. PS_MODEL_PUBLICATION_SET : k \in Rungs
  BY DEF Rungs
<1>1. CASE \/ ProvUnprovisionedReceived \/ ProvCapsReceived \/ ProvEcdhRequest
           \/ ProvAuthRequest \/ CompositionDataStatus \/ TxComplete
           \/ AppkeyStatus \/ ModelAppStatus
  BY <1>0, <1>1, HandlePending
  DEF ProvUnprovisionedReceived, ProvCapsReceived, ProvEcdhRequest, ProvAuthRequest,
      CompositionDataStatus, TxComplete, AppkeyStatus, ModelAppStatus
<1>2. CASE ProvComplete
  BY <1>2, PendingKept DEF ProvComplete
<1>3. CASE ProvCompleteCheck
  <2>1. \A k \in Rungs : Pending(k)' => Pending(k)
    BY <1>3 DEF ProvCompleteCheck, Sent, TypeOK, Rungs
  <2>. QED  BY <1>3, <2>1, PendingKept DEF ProvCompleteCheck
<1>4. CASE ProvLinkClosed
  <2>1. CASE state = DEVKEY_ADDRPUBADD /\ Begin(PS_COMPOSDATA, Head(toHost))
    <3>1. \A k \in Rungs : Pending(k)' => Pending(k)
      BY <1>4, <2>1 DEF ProvLinkClosed, Begin, Rungs
    <3>. QED  BY <2>1, <3>1, PendingKept DEF Begin
  <2>2. CASE state' = STATE_NEW /\ UNCHANGED <<receiver, done>>
    BY <1>4, <2>2, PendingKept DEF ProvLinkClosed, Rungs
  <2>. QED  BY <1>4, <2>1, <2>2 DEF ProvLinkClosed
<1>5. CASE PublicationStatus
  BY <1>5, PendingKept DEF PublicationStatus, Rungs
<1>6. CASE Body
  BY <1>6, BodyPending
<1>7. CASE SetState
  <2>1. \A k \in Rungs : Pending(k)' => Pending(k)
    BY <1>7 DEF SetState
  <2>. QED  BY <1>7, <2>1, PendingKept DEF SetState
<1>8. CASE HandleResponse
  BY <1>8, PendingKept DEF HandleResponse
<1>9. CASE StoreHandle
  BY <1>9, PendingKept DEF StoreHandle
<1>10. CASE SubnetResponse \/ LocalUnicastResponse \/ DeviceStarted \/ PrintOnly
  BY <1>10, PendingKept
  DEF SubnetResponse, LocalUnicastResponse, DeviceStarted, PrintOnly
<1>. QED
  BY <1>1, <1>2, <1>3, <1>4, <1>5, <1>6, <1>7, <1>8, <1>9, <1>10 DEF ReceiverNext

(* The main thread can only make a pending rung vanish, by setting the state   *)
(* to NEW; the environment touches neither the state nor the receiver.         *)
LEMMA OthersPending ==
  ASSUME Sent, PressKey \/ CliContinue \/ EnvEvent \/ EnvDrain
  PROVE  PendingWasSent'
<1>. USE DEF Pending, receiver
<1>1. CASE PressKey
  BY <1>1, PendingKept DEF PressKey, PressScanStart, PressScanStop, PressOnOff,
     PressComposition, PressNodeReset, PressPacket, CliFrame
<1>2. CASE ResetState
  BY <1>2, PendingKept DEF ResetState, CliFrame, Rungs
<1>3. CASE FillDestination \/ WritePacket
  BY <1>3, PendingKept DEF FillDestination, WritePacket, CliFrame
<1>4. CASE EnvEvent \/ EnvDrain
  BY <1>4, PendingKept DEF EnvEvent, EnvDrain
<1>. QED  BY <1>1, <1>2, <1>3, <1>4 DEF CliContinue

(* What the receiver waits for is the answer to a command it has written, even *)
(* if the main thread resets the state in the middle of a handler.             *)
THEOREM WaitsForWhatItSent == Spec => []PendingWasSent
<1>1. Init => PendingWasSent
  BY DEF Init, PendingWasSent, Pending, Rungs
<1>2. Sent /\ [Next]_hostVars => PendingWasSent'
  <2>. SUFFICES ASSUME Sent, [Next]_hostVars PROVE PendingWasSent'
    OBVIOUS
  <2>1. CASE Next
    BY <2>1, ReceiverPending, OthersPending DEF Next
  <2>2. CASE UNCHANGED hostVars
    BY <2>2, PendingKept DEF hostVars, receiver, Pending
  <2>. QED  BY <2>1, <2>2
<1>. QED  BY <1>1, <1>2, TypeCorrect, PTL DEF Spec, Sent

-------------------------------------------------------------------------------
(* Only a body of the process takes a rung or advances the counter.            *)
LEMMA ProcessCounts ==
  ASSUME ReceiverNext \/ PressKey \/ CliContinue, ~Body
  PROVE  UNCHANGED done /\ UNCHANGED dev_addr
<1>1. CASE ReceiverNext
  BY <1>1 DEF ReceiverNext, ProvUnprovisionedReceived, ProvCapsReceived,
     ProvEcdhRequest, ProvAuthRequest, CompositionDataStatus, TxComplete,
     AppkeyStatus, ModelAppStatus, ProvComplete, ProvCompleteCheck, ProvLinkClosed,
     PublicationStatus, SetState, HandleResponse, StoreHandle, SubnetResponse,
     LocalUnicastResponse, DeviceStarted, PrintOnly, Handle, Begin, Idle
<1>2. CASE PressKey \/ CliContinue
  BY <1>2 DEF PressKey, CliContinue, PressScanStart, PressScanStop, PressOnOff,
     PressComposition, PressNodeReset, PressPacket, ResetState, FillDestination,
     WritePacket, CliFrame
<1>. QED  BY <1>1, <1>2

(* Rung by rung, a step of the program is a step of the abstract ladder or     *)
(* none at all.                                                                *)
LEMMA OnlyBodyCounts ==
  ASSUME [Next]_hostVars, ~Body
  PROVE  UNCHANGED done /\ UNCHANGED dev_addr
<1>1. CASE ReceiverNext \/ PressKey \/ CliContinue
  BY <1>1, ProcessCounts
<1>2. CASE EnvEvent \/ EnvDrain
  BY <1>2 DEF EnvEvent, EnvDrain
<1>3. CASE UNCHANGED hostVars
  BY <1>3 DEF hostVars
<1>. QED  BY <1>1, <1>2, <1>3 DEF Next

(* A body takes the rung above one that is pending.                            *)
LEMMA BodyTakes == ASSUME Sent, Body PROVE L!Next
<1>. DEFINE k == job.rung
<1>1. k \in Rungs /\ done \in [Rungs -> Nat]
  BY DEF Body, Sent, TypeOK
<1>2. k > 1 => k - 1 \in PROVISION .. PS_MODEL_APP_BIND
  BY <1>1 DEF Rungs
<1>3. k > 1 => Pending(k - 1)
  BY <1>1 DEF Body, Pending, Rungs
<1>4. k > 1 => done[k] < done[k - 1]
  BY <1>1, <1>2, <1>3 DEF Sent, PendingWasSent, Rungs
<1>5. done' = [done EXCEPT ![k] = @ + 1]
  BY DEF Body
<1>. QED  BY <1>1, <1>4, <1>5 DEF L!Next, L!Take, Rungs

(* The gateway climbs the ladder: no event and no key makes it take a rung     *)
(* more often than the rung below.                                             *)
THEOREM ClimbsTheLadder == Spec => LadderSpec
<1>1. Init => L!Init
  BY DEF Init, L!Init, Rungs
<1>2. Sent /\ [Next]_hostVars => [L!Next]_done
  BY OnlyBodyCounts, BodyTakes
<1>. QED
  BY <1>1, <1>2, TypeCorrect, WaitsForWhatItSent, PTL
  DEF Spec, Sent, LadderSpec, L!Spec
===============================================================================
