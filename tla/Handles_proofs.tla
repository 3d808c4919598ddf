---------------------------- MODULE Handles_proofs -----------------------------
(* Proofs that the handles of different nodes are not mixed: the device key    *)
(* and the address that the process stores from two responses of the dongle    *)
(* are of one node whenever a packet is written with them.  The invariant goes *)
(* over both directions of the serial port and the lists of the dongle, and is *)
(* kept step by step next to InTurn and AddrsOK of Sessions_proofs.  With it   *)
(* every message of a session is understood by its node, and so the sessions   *)
(* come to an end.                                                             *)
EXTENDS Sessions_proofs

USE DEF STATE_NEW, PROVISION, OOBUSE, ECDH, AUTH, DEVKEY_ADDRPUBADD,
        PS_COMPOSDATA, PS_APPKEY_ADD, PS_MODEL_APP_BIND, PS_MODEL_PUBLICATION_SET

-------------------------------------------------------------------------------
(* The dongle has room for one more device key and one more address.           *)
Roomy == DevkeyBase + Len(devkeys) < U16 /\ Len(addrs) < U16

(* The set-up of the dongle is not going on.                                   *)
SetupOver == /\ \A op \in Setup : ~Has(toDongle, op)
             /\ \A op \in {"DEVICE_STARTED", "ADDR_LOCAL_UNICAST_SET", "SUBNET_ADD"} :
                  ~Has(toHost, op)

(* The subnet handle that the process has got is the one that the dongle gave  *)
(* out, at the latest when the first application key was accepted for it.  A   *)
(* session is only begun when the set-up is over, be it complete or not.       *)
Installing ==
  /\ \A e \in Range(toHost) : e.op = "SUBNET_ADD" => e.val = SubnetHandle
  /\ \A c \in Range(toDongle) :
       c.op = "APPKEY_ADD" /\ c.subnet = SubnetHandle => subnet_handle = SubnetHandle
  /\ appkeys # {} => subnet_handle = SubnetHandle
  /\ sound => SetupOver

(* Until '1' has reset the state its command waits in the serial port; a       *)
(* packet of the user is filled with the handles of one moment.                *)
KeysKeepUp ==
  /\ cpc = "new" /\ sound => toDongle = <<Cmd("DFU_JUMP_TO_BOOTLOADER")>>
  /\ cpc \in {"dst", "write"} /\ packet.msg # "ONOFF_SET" => packet.key = devkey_handle
  /\ cpc = "write" /\ packet.msg # "ONOFF_SET" => packet.dst = dst_addr_handle

(* A device key and an address that the dongle knows and that are of one node; *)
(* those of the device that has just joined.                                   *)
DstKnown(h) == h \in 0 .. Len(addrs) - 1
DstAt(h)    == addrs[h + 1]
Paired(k, d) == /\ KeyKnown(k) /\ DstKnown(d)
                /\ KeyAt(k).owner = DstAt(d) /\ nodeAddr[KeyAt(k).dev] = DstAt(d)
GoodKey(k) == /\ KeyKnown(k) /\ KeyAt(k).owner = dev_addr
              /\ nodeAddr[KeyAt(k).dev] = dev_addr
GoodDst(d) == DstKnown(d) /\ DstAt(d) = dev_addr

(* A device has joined and COMPLETE is still to be handled; then its handles   *)
(* are being stored, each of which is on its way until it is.                  *)
CompleteComing == Has(toHost, "COMPLETE") \/ InHand
Storing == Reached = DEVKEY_ADDRPUBADD /\ link.phase = "complete" /\ rpc # "body"
HandleOps == {"DEVKEY_ADD", "ADDR_PUBLICATION_ADD"}
OnWay(op) == Has(toDongle, op) \/ Has(toHost, op) \/ (rpc = "store" /\ job.ev.op = op)
ScanOn == /\ scanning \/ Has(toDongle, "DFU_JUMP_TO_BOOTLOADER")
          /\ ~Has(toDongle, "PROV_SCAN_STOP")

GoodCommand(c) ==
  /\ c.op = "DEVKEY_ADD" => c.owner = dev_addr /\ c.subnet = SubnetHandle
  /\ c.op = "ADDR_PUBLICATION_ADD" => c.addr = dev_addr
  /\ c.op = "PACKET_SEND" /\ c.msg # "ONOFF_SET" => Paired(c.key, c.dst)
GoodResponse(e) ==
  /\ e.op = "DEVKEY_ADD" => e.ok /\ GoodKey(e.val)
  /\ e.op = "ADDR_PUBLICATION_ADD" => e.ok /\ GoodDst(e.val)

(* The two handles of the process belong to one node, unless a scan is on that *)
(* will bring a new one, or the new one's are on their way.                    *)
InPlace ==
  /\ CompleteComing => link.phase = "complete"
  /\ \A op \in HandleOps : OnWay(op) => Storing
  /\ \A c \in Range(toDongle) : GoodCommand(c)
  /\ \A e \in Range(toHost) : GoodResponse(e)
  /\ rpc = "store" => GoodResponse(job.ev)
  /\ Storing => /\ OnWay("DEVKEY_ADD") \/ GoodKey(devkey_handle)
                /\ OnWay("ADDR_PUBLICATION_ADD") \/ GoodDst(dst_addr_handle)
  /\ ~CompleteComing /\ ~Storing =>
       \/ Paired(devkey_handle, dst_addr_handle)
       \/ Reached < DEVKEY_ADDRPUBADD /\ ScanOn
HandlesOK == Live /\ Roomy => InPlace

(* With a dongle that is set up.                                               *)
HandInv == Installing /\ KeysKeepUp /\ HandlesOK

-------------------------------------------------------------------------------
(* A step that adds no handle and asks for none, and from which the session    *)
(* gets its handles no other way.                                              *)
HandFrame ==
  /\ Live' => Live
  /\ UNCHANGED <<devkey_handle, dst_addr_handle, devkeys, addrs, nodeAddr>>
  /\ Storing => UNCHANGED dev_addr
  /\ \A c \in Range(toDongle') : c \in Range(toDongle) \/ c.op \notin AfterLink
  /\ \A e \in Range(toHost') : e \in Range(toHost) \/ e.op \notin HandleOps
  /\ rpc' = "store" => (rpc = "store" /\ UNCHANGED job) \/ job'.ev \in Range(toHost)
  /\ Storing => Storing' /\ \A op \in HandleOps : OnWay(op) => OnWay(op)'
  /\ \A op \in HandleOps : OnWay(op)' => OnWay(op)
  /\ Storing' => Storing
  /\ CompleteComing' <=> CompleteComing
  /\ link.phase = "complete" => link'.phase = "complete"
  /\ Reached < DEVKEY_ADDRPUBADD => Reached' < DEVKEY_ADDRPUBADD
  /\ ~CompleteComing /\ ScanOn => ScanOn'

(* Such a step keeps the handles in place.                                     *)
LEMMA HandFrameKeeps ==
  ASSUME HandlesOK, Live' /\ Roomy' => HandFrame PROVE HandlesOK'
<1>. SUFFICES ASSUME Live', Roomy' PROVE InPlace'
  BY DEF HandlesOK
<1>1. Live /\ Roomy /\ InPlace
  BY DEF HandFrame, HandlesOK, Roomy
<1>. USE DEF HandFrame, InPlace
<1>2. \A k, d : Paired(k, d)' <=> Paired(k, d)
  BY DEF Paired, KeyKnown, KeyAt, DstKnown, DstAt
<1>3. Storing => (\A k : GoodKey(k)' <=> GoodKey(k)) /\ (\A d : GoodDst(d)' <=> GoodDst(d))
  BY DEF GoodKey, GoodDst, KeyKnown, KeyAt, DstKnown, DstAt
<1>4. \A op \in HandleOps : OnWay(op)' => OnWay(op) /\ Storing /\ Storing'
  BY <1>1
<1>5. ASSUME NEW c \in Range(toDongle') PROVE GoodCommand(c)'
  <2>1. c.op \in HandleOps => c \in Range(toDongle) /\ Storing
    <3>1. c.op \in HandleOps => OnWay(c.op)'
      BY DEF OnWay, Has
    <3>. QED  BY <1>4, <3>1 DEF HandleOps, AfterLink
  <2>2. c.op = "PACKET_SEND" => c \in Range(toDongle)
    BY DEF AfterLink
  <2>3. c \in Range(toDongle) => GoodCommand(c)
    BY <1>1
  <2>. QED  BY <1>2, <2>1, <2>2, <2>3 DEF GoodCommand, HandleOps
<1>6. ASSUME NEW e \in Range(toHost) PROVE GoodResponse(e) /\ (e.op \in HandleOps => Storing)
  BY <1>1 DEF OnWay, Has
<1>7. ASSUME NEW e \in Range(toHost') PROVE GoodResponse(e)'
  BY <1>3, <1>6 DEF GoodResponse, HandleOps
<1>8. rpc = "store" => (job.ev.op \in HandleOps => Storing)
  BY <1>1 DEF OnWay
<1>9. rpc' = "store" => GoodResponse(job.ev)'
  BY <1>1, <1>3, <1>6, <1>8 DEF GoodResponse, HandleOps
<1>10. Storing' => /\ OnWay("DEVKEY_ADD")' \/ GoodKey(devkey_handle)'
                   /\ OnWay("ADDR_PUBLICATION_ADD")' \/ GoodDst(dst_addr_handle)'
  <2>1. "DEVKEY_ADD" \in HandleOps /\ "ADDR_PUBLICATION_ADD" \in HandleOps
    BY DEF HandleOps
  <2>. QED  BY <1>1, <1>3, <2>1
<1>11. CompleteComing' => link'.phase = "complete"
  BY <1>1
<1>12. ~CompleteComing' /\ ~Storing' =>
       \/ Paired(devkey_handle, dst_addr_handle)'
       \/ Reached' < DEVKEY_ADDRPUBADD /\ ScanOn'
  BY <1>1, <1>2
<1>. QED  BY <1>4, <1>5, <1>7, <1>9, <1>10, <1>11, <1>12

-------------------------------------------------------------------------------
(* The receiver takes at most one event, ...                                   *)
LEMMA ReceiverTakes ==
  ASSUME ReceiverNext
  PROVE  UNCHANGED toHost \/ (rpc = "idle" /\ toHost # <<>> /\ toHost' = Tail(toHost))
<1>1. CASE \/ ProvUnprovisionedReceived \/ ProvCapsReceived \/ ProvEcdhRequest
           \/ ProvAuthRequest \/ CompositionDataStatus \/ TxComplete \/ AppkeyStatus
           \/ ModelAppStatus
  BY <1>1
  DEF ProvUnprovisionedReceived, ProvCapsReceived, ProvEcdhRequest, ProvAuthRequest,
      CompositionDataStatus, TxComplete, AppkeyStatus, ModelAppStatus, Handle, Receive
<1>2. CASE \/ ProvComplete \/ ProvLinkClosed \/ PublicationStatus \/ HandleResponse
           \/ SubnetResponse \/ LocalUnicastResponse \/ DeviceStarted \/ PrintOnly
  BY <1>2
  DEF ProvComplete, ProvLinkClosed, PublicationStatus, HandleResponse, SubnetResponse,
      LocalUnicastResponse, DeviceStarted, PrintOnly, Receive
<1>3. CASE ProvCompleteCheck \/ Body \/ SetState \/ StoreHandle
  BY <1>3 DEF ProvCompleteCheck, Body, SetState, StoreHandle
<1>. QED  BY <1>1, <1>2, <1>3 DEF ReceiverNext

(* ... and besides the rungs and the application keys it writes three          *)
(* commands.                                                                   *)
LEMMA ReceiverWrites ==
  ASSUME TypeOK, ReceiverNext, ~Body, ~SubnetResponse
  PROVE  \/ UNCHANGED toDongle
         \/ \E c \in Commands :
              /\ Write(<<c>>)
              /\ \/ c.op = "PROV_SCAN_STOP" /\ ProvComplete
                 \/ /\ c.op \in {"SUBNET_ADD", "ADDR_LOCAL_UNICAST_SET"} /\ ~ProvComplete
                    /\ LocalUnicastResponse \/ DeviceStarted
<1>1. CASE \/ ProvUnprovisionedReceived \/ ProvCapsReceived \/ ProvEcdhRequest
           \/ ProvAuthRequest \/ CompositionDataStatus \/ TxComplete \/ AppkeyStatus
           \/ ModelAppStatus
  BY <1>1
  DEF ProvUnprovisionedReceived, ProvCapsReceived, ProvEcdhRequest, ProvAuthRequest,
      CompositionDataStatus, TxComplete, AppkeyStatus, ModelAppStatus, Handle, Begin, Idle
<1>2. CASE \/ ProvLinkClosed \/ PublicationStatus \/ HandleResponse \/ PrintOnly
           \/ ProvCompleteCheck \/ SetState \/ StoreHandle
  BY <1>2
  DEF ProvLinkClosed, PublicationStatus, HandleResponse, PrintOnly, Begin, Idle,
      ProvCompleteCheck, SetState, StoreHandle
<1>3. \A op \in PlainCommands : Cmd(op) \in Commands /\ Cmd(op).op = op
  BY DEF Cmd, Commands
<1>4. {"PROV_SCAN_STOP", "SUBNET_ADD", "ADDR_LOCAL_UNICAST_SET"} \subseteq PlainCommands
  BY DEF PlainCommands
<1>5. Write(<<>>) => UNCHANGED toDongle
  BY DEF Write, TypeOK
<1>6. CASE ProvComplete
  BY <1>3, <1>4, <1>6 DEF ProvComplete
<1>7. CASE LocalUnicastResponse \/ DeviceStarted
  <2>1. ~ProvComplete
    BY <1>7 DEF ProvComplete, LocalUnicastResponse, DeviceStarted, Receive
  <2>. QED
    BY <1>3, <1>4, <1>5, <1>7, <2>1 DEF LocalUnicastResponse, DeviceStarted
<1>. QED  BY <1>1, <1>2, <1>6, <1>7 DEF ReceiverNext

(* One command written comes behind the others.                                *)
LEMMA CommandWritten ==
  ASSUME TypeOK, NEW c \in Commands, Write(<<c>>)
  PROVE  /\ Range(toDongle') = Range(toDongle) \cup {c}
         /\ \A op : Has(toDongle', op) <=> Has(toDongle, op) \/ c.op = op
<1>1. <<c>> \in Seq(Commands) /\ Range(<<c>>) = {c} /\ \A op : Has(<<c>>, op) <=> c.op = op
  BY ShortRange, ShortHas
<1>. QED  BY <1>1, CommandsWritten DEF TypeOK

(* What a rung writes is no application key for the dongle.                    *)
LEMMA BodyWrites ==
  ASSUME TypeOK, Body
  PROVE  /\ job.rung \in Rungs
         /\ RungCommands(job.rung, job.ev) \in Seq(Commands)
         /\ Write(RungCommands(job.rung, job.ev))
         /\ Range(toDongle') = Range(toDongle) \cup Range(RungCommands(job.rung, job.ev))
         /\ \A op : Has(toDongle', op) <=>
                      Has(toDongle, op) \/ Has(RungCommands(job.rung, job.ev), op)
<1>1. job.rung \in Rungs /\ job.ev \in Events /\ Write(RungCommands(job.rung, job.ev))
  BY DEF TypeOK, Body
<1>2. RungCommands(job.rung, job.ev) \in Seq(Commands)
  BY <1>1, RungCommandsType
<1>. QED  BY <1>1, <1>2, CommandsWritten DEF TypeOK

-------------------------------------------------------------------------------
(* A step that has nothing to do with the subnet.                              *)
InstallFrame ==
  /\ UNCHANGED subnet_handle
  /\ appkeys' \subseteq appkeys
  /\ sound' => sound /\ (SetupOver => SetupOver')
  /\ \A e \in Range(toHost') : e \in Range(toHost) \/ e.op # "SUBNET_ADD"
  /\ \A c \in Range(toDongle') : c \in Range(toDongle) \/ c.op # "APPKEY_ADD"

(* Such a step keeps the subnet handle right.                                  *)
LEMMA InstallFrameKeeps == ASSUME Installing, InstallFrame PROVE Installing'
BY DEF Installing, InstallFrame

(* The receiver sets a dongle up only when it hears of it.                     *)
LEMMA ReceiverLeavesSetup ==
  ASSUME TypeOK, SetupOver, ReceiverNext, Range(toHost') \subseteq Range(toHost)
  PROVE  SetupOver'
<1>1. \A op : Has(toHost', op) => Has(toHost, op)
  BY DEF Has
<1>2. ~SubnetResponse /\ ~LocalUnicastResponse /\ ~DeviceStarted
  BY EventTaken
  DEF SubnetResponse, LocalUnicastResponse, DeviceStarted, Receive, SetupOver, TypeOK
<1>3. \A op \in Setup : Has(toDongle', op) => Has(toDongle, op)
  <2>1. CASE Body
    BY <2>1, BodyWrites, RungOpcodes DEF Setup
  <2>2. CASE ~Body
    <3>1. CASE UNCHANGED toDongle
      BY <3>1
    <3>2. ASSUME NEW c \in Commands, Write(<<c>>), c.op = "PROV_SCAN_STOP"
          PROVE  \A op \in Setup : Has(toDongle', op) => Has(toDongle, op)
      BY <3>2, CommandWritten DEF Setup
    <3>. QED  BY <1>2, <2>2, <3>1, <3>2, ReceiverWrites
  <2>. QED  BY <2>1, <2>2
<1>. QED  BY <1>1, <1>3 DEF SetupOver

(* The receiver stores the handle and writes the application keys with it.     *)
LEMMA ReceiverInstall ==
  ASSUME GTypeOK, Installing, ReceiverNext, UNCHANGED <<subnet, appkeys, sound>>
  PROVE  Installing'
<1>. USE DEF GTypeOK
<1>1. Range(toHost') \subseteq Range(toHost)
  BY ReceiverTakes, EventTaken DEF TypeOK
<1>0. SetupOver => SetupOver'
  BY <1>1, ReceiverLeavesSetup
<1>2. CASE Body
  <2>1. \A c \in Range(RungCommands(job.rung, job.ev)) : c.op # "APPKEY_ADD"
    <3>1. ~Has(RungCommands(job.rung, job.ev), "APPKEY_ADD")
      BY <1>2, BodyWrites, RungOpcodes
    <3>. QED  BY <3>1 DEF Has
  <2>2. UNCHANGED subnet_handle
    BY <1>2 DEF Body
  <2>3. InstallFrame
    BY <1>0, <1>1, <1>2, <2>1, <2>2, BodyWrites DEF InstallFrame
  <2>. QED  BY <2>3, InstallFrameKeeps
<1>3. CASE SubnetResponse
  <2>. DEFINE rsp == Head(toHost)
              a == AppKeyAdd(0, subnet_handle')
              b == AppKeyAdd(1, subnet_handle')
  <2>1. /\ rsp \in Range(toHost) /\ rsp \in Events /\ rsp.op = "SUBNET_ADD" /\ rsp.val = SubnetHandle
    BY <1>3, EventTaken DEF SubnetResponse, Receive, TypeOK, Installing
  <2>2. /\ subnet_handle' \in {subnet_handle, rsp.val} /\ subnet_handle' \in U16Int
        /\ Write(<<a, b>>) \/ Write(<<>>)
    BY <1>3, <2>1 DEF SubnetResponse, TypeOK, Events
  <2>3. /\ a \in Commands /\ a.op = "APPKEY_ADD" /\ a.subnet = subnet_handle'
        /\ b \in Commands /\ b.op = "APPKEY_ADD" /\ b.subnet = subnet_handle'
    BY <2>2 DEF AppKeyAdd, Commands
  <2>. HIDE DEF a, b, rsp
  <2>4. Range(toDongle') \subseteq Range(toDongle) \cup {a, b}
    <3>1. <<a, b>> \in Seq(Commands) /\ Range(<<a, b>>) = {a, b}
          /\ <<>> \in Seq(Commands) /\ Range(<<>>) = {}
      BY <2>3, ShortRange
    <3>. QED  BY <2>2, <3>1, CommandsWritten DEF TypeOK
  <2>5. subnet_handle = SubnetHandle => subnet_handle' = SubnetHandle
    BY <2>1, <2>2
  <2>6. \A c \in Range(toDongle') :
          c.op = "APPKEY_ADD" /\ c.subnet = SubnetHandle => subnet_handle' = SubnetHandle
    BY <2>3, <2>4, <2>5 DEF Installing
  <2>. QED  BY <1>0, <1>1, <2>5, <2>6 DEF Installing
<1>4. CASE ~Body /\ ~SubnetResponse
  <2>1. UNCHANGED subnet_handle
    <3>1. CASE \/ ProvUnprovisionedReceived \/ ProvCapsReceived \/ ProvEcdhRequest
               \/ ProvAuthRequest \/ CompositionDataStatus \/ TxComplete \/ AppkeyStatus
               \/ ModelAppStatus
      BY <3>1
      DEF ProvUnprovisionedReceived, ProvCapsReceived, ProvEcdhRequest, ProvAuthRequest,
          CompositionDataStatus, TxComplete, AppkeyStatus, ModelAppStatus, Handle, Begin,
          Idle, handles
    <3>2. CASE \/ ProvLinkClosed \/ PublicationStatus \/ HandleResponse \/ PrintOnly
               \/ ProvComplete \/ LocalUnicastResponse \/ DeviceStarted
               \/ ProvCompleteCheck \/ SetState \/ StoreHandle
      BY <3>2
      DEF ProvLinkClosed, PublicationStatus, HandleResponse, PrintOnly, Begin, Idle,
          ProvComplete, LocalUnicastResponse, DeviceStarted,
          ProvCompleteCheck, SetState, StoreHandle, handles
    <3>. QED  BY <1>4, <3>1, <3>2 DEF ReceiverNext
  <2>2. \A c \in Range(toDongle') : c \in Range(toDongle) \/ c.op # "APPKEY_ADD"
    BY <1>4, ReceiverWrites, CommandWritten
  <2>3. InstallFrame
    BY <1>0, <1>1, <2>1, <2>2 DEF InstallFrame
  <2>. QED  BY <2>3, InstallFrameKeeps
<1>. QED  BY <1>2, <1>3, <1>4

-------------------------------------------------------------------------------
(* The reports that carry a session on: who makes them.                        *)
LEMMA OutsideReports ==
  ASSUME GTypeOK, Outside
  PROVE  \/ UNCHANGED toHost
         \/ \E e \in Events :
              /\ Answer(<<e>>)
              /\ e.op = "SUBNET_ADD" => DongleSubnetAdd /\ e.val = SubnetHandle
              /\ e.op = "COMPLETE" => DongleAuthData /\ e.dev \in member'
              /\ e.op = "LINK_CLOSED" => LinkClosed \/ DongleProvision
              /\ e.op = "UNPROVISIONED_RECEIVED" => Beacon
              /\ e.op = "DEVKEY_ADD" => DongleDevkeyAdd
              /\ e.op \in HandleOps => DongleDevkeyAdd \/ DongleAddrPublicationAdd
              /\ e.op = "ADDR_LOCAL_UNICAST_SET" => DongleLocalUnicastSet
              /\ e.op # "DEVICE_STARTED"
<1>. USE DEF GTypeOK
<1>. DEFINE Special == {"COMPLETE", "LINK_CLOSED", "UNPROVISIONED_RECEIVED",
                        "DEVICE_STARTED", "ADDR_LOCAL_UNICAST_SET"}
            Rest == Reports \ Special
            Goal == \/ UNCHANGED toHost
                    \/ \E e \in Events :
                         /\ Answer(<<e>>)
                         /\ e.op = "SUBNET_ADD" => DongleSubnetAdd /\ e.val = SubnetHandle
                         /\ e.op = "COMPLETE" => DongleAuthData /\ e.dev \in member'
                         /\ e.op = "LINK_CLOSED" => LinkClosed \/ DongleProvision
                         /\ e.op = "UNPROVISIONED_RECEIVED" => Beacon
                         /\ e.op = "DEVKEY_ADD" => DongleDevkeyAdd
                         /\ e.op \in HandleOps => DongleDevkeyAdd \/ DongleAddrPublicationAdd
                         /\ e.op = "ADDR_LOCAL_UNICAST_SET" => DongleLocalUnicastSet
                         /\ e.op # "DEVICE_STARTED"
<1>. HIDE DEF Goal, Rest
<1>. SUFFICES Goal
  BY DEF Goal
<1>1. ASSUME NEW e \in Events, UNCHANGED toHost \/ Answer(<<e>>),
             e.op \notin {"SUBNET_ADD"} \cup Special \cup HandleOps
      PROVE  Goal
  BY <1>1 DEF Goal, HandleOps
<1>2. ASSUME NEW op \in Rest, UNCHANGED toHost \/ Answer(<<Report(op)>>) PROVE Goal
  <2>1. Report(op) \in Events /\ Report(op).op = op
    BY ReportTypes DEF Rest
  <2>2. op \notin {"SUBNET_ADD"} \cup Special \cup HandleOps
    BY DEF Reports, HandleOps, Rest
  <2>. QED  BY <1>1, <1>2, <2>1, <2>2
<1>3. ASSUME UNCHANGED toHost \/ Answer(<<Report("LINK_CLOSED")>>),
             LinkClosed \/ DongleProvision
      PROVE  Goal
  <2>1. Report("LINK_CLOSED") \in Events /\ Report("LINK_CLOSED").op = "LINK_CLOSED"
    BY ReportTypes DEF Reports
  <2>. QED  BY <1>3, <2>1 DEF HandleOps, Goal
<1>4. {"CAPS_RECEIVED", "ECDH_REQUEST", "AUTH_REQUEST", "TX_COMPLETE"} \subseteq Rest
  BY DEF Reports, Rest
<1>5. Answer(<<>>) => UNCHANGED toHost
  BY DEF Answer, TypeOK
<1>6. CASE DongleProvision
  <2>1. UNCHANGED toHost \/ Answer(<<Report("CAPS_RECEIVED")>>)
        \/ Answer(<<Report("LINK_CLOSED")>>)
    BY <1>5, <1>6 DEF DongleProvision
  <2>2. Answer(<<Report("CAPS_RECEIVED")>>) => Goal
    BY <1>2, <1>4
  <2>. QED  BY <1>3, <1>6, <2>1, <2>2 DEF Goal
<1>7. CASE DongleOobUse \/ DongleEcdhSecret \/ DongleTxComplete \/ LinkClosed
  <2>1. \/ UNCHANGED toHost \/ Answer(<<Report("ECDH_REQUEST")>>)
        \/ Answer(<<Report("AUTH_REQUEST")>>) \/ Answer(<<Report("TX_COMPLETE")>>)
        \/ Answer(<<Report("LINK_CLOSED")>>) /\ LinkClosed
    BY <1>7 DEF DongleOobUse, DongleEcdhSecret, DongleTxComplete, LinkClosed, LinkStep
  <2>2. /\ Answer(<<Report("ECDH_REQUEST")>>) => Goal
        /\ Answer(<<Report("AUTH_REQUEST")>>) => Goal
        /\ Answer(<<Report("TX_COMPLETE")>>) => Goal
    BY <1>2, <1>4
  <2>. QED  BY <1>3, <2>1, <2>2 DEF Goal
<1>8. CASE DongleScan \/ DongleAppKeyAdd \/ DonglePacketSend \/ Loss \/ WriteFails
  BY <1>8 DEF DongleScan, DongleAppKeyAdd, DonglePacketSend, Loss, WriteFails, Goal
<1>9. CASE DongleAuthData
  <2>. DEFINE e == Event("COMPLETE", TRUE, link.addr, link.dev)
  <2>1. e \in Events /\ e.op = "COMPLETE" /\ e.dev = link.dev
    BY ReportTypes DEF WorldTypeOK, EventOps, Reports, Event
  <2>2. UNCHANGED toHost \/ (Answer(<<e>>) /\ link.dev \in member')
    BY <1>9 DEF DongleAuthData, LinkStep
  <2>. HIDE DEF e
  <2>. QED  BY <1>9, <2>1, <2>2 DEF HandleOps, Goal
<1>10. CASE Beacon
  <2>1. PICK d \in Devices : Answer(<<Event("UNPROVISIONED_RECEIVED", TRUE, 0, d)>>)
    BY <1>10 DEF Beacon
  <2>. DEFINE e == Event("UNPROVISIONED_RECEIVED", TRUE, 0, d)
  <2>2. "UNPROVISIONED_RECEIVED" \in EventOps /\ d \in Devices \cup {NoDevice}
    BY DEF EventOps, Reports
  <2>3. e \in Events /\ e.op = "UNPROVISIONED_RECEIVED"
    BY <2>2, ReportTypes, ZeroInRange
  <2>4. Answer(<<e>>)
    BY <2>1
  <2>. HIDE DEF e
  <2>. QED  BY <1>10, <2>3, <2>4 DEF HandleOps, Goal
<1>11. CASE NodeAnswers
  <2>1. PICK m \in air :
           Answer(IF m.dev \in member /\ Understood(m)
                  THEN <<Event(StatusOf(m.msg), TRUE, m.elem, NoDevice)>> ELSE <<>>)
    BY <1>11 DEF NodeAnswers
  <2>. DEFINE e == Event(StatusOf(m.msg), TRUE, m.elem, NoDevice)
  <2>2. m.elem \in U16Int /\ StatusOf(m.msg) \in EventOps
        /\ StatusOf(m.msg) \notin {"SUBNET_ADD"} \cup Special \cup HandleOps
    BY DEF WorldTypeOK, StatusOf, EventOps, Messages, HandleOps
  <2>3. e \in Events /\ e.op = StatusOf(m.msg)
    <3>1. NoDevice \in Devices \cup {NoDevice}
      OBVIOUS
    <3>. QED  BY <2>2, <3>1, ReportTypes
  <2>4. UNCHANGED toHost \/ Answer(<<e>>)
    BY <1>5, <2>1
  <2>. HIDE DEF e
  <2>. QED  BY <1>1, <2>2, <2>3, <2>4
<1>12. CASE DongleLocalUnicastSet
  <2>. DEFINE e == CmdRsp("ADDR_LOCAL_UNICAST_SET", TRUE, 0)
  <2>1. e \in Events /\ e.op = "ADDR_LOCAL_UNICAST_SET"
    BY ReportTypes, ZeroInRange DEF Responses
  <2>2. Answer(<<e>>)
    BY <1>12 DEF DongleLocalUnicastSet
  <2>. HIDE DEF e
  <2>. QED  BY <1>12, <2>1, <2>2 DEF HandleOps, Goal
<1>13. CASE DongleSubnetAdd
  <2>. DEFINE e == CmdRsp("SUBNET_ADD", ~subnet, SubnetHandle)
  <2>1. e \in Events /\ e.op = "SUBNET_ADD" /\ e.val = SubnetHandle
    <3>1. (~subnet) \in BOOLEAN /\ SubnetHandle \in U16Int /\ "SUBNET_ADD" \in Responses
      BY GatewayAssumption DEF GatewayAssumption, Responses
    <3>2. e.val = SubnetHandle
      BY DEF CmdRsp, Event
    <3>. QED  BY <3>1, <3>2, ReportTypes
  <2>2. Answer(<<e>>)
    BY <1>13 DEF DongleSubnetAdd
  <2>. HIDE DEF e
  <2>. QED  BY <1>13, <2>1, <2>2 DEF HandleOps, Goal
<1>14. CASE DongleDevkeyAdd \/ DongleAddrPublicationAdd
  <2>1. PICK op \in {"DEVKEY_ADD", "ADDR_PUBLICATION_ADD"}, ok \in BOOLEAN, val \in U16Int :
          Command(op) /\ Answer(<<CmdRsp(op, ok, val)>>)
    BY <1>14, HandleAnswers
  <2>2. CmdRsp(op, ok, val) \in Events /\ CmdRsp(op, ok, val).op = op
    BY ReportTypes DEF Responses
  <2>3. op = "DEVKEY_ADD" => DongleDevkeyAdd
    BY <1>14, <2>1 DEF DongleAddrPublicationAdd, Command
  <2>. QED  BY <1>14, <2>1, <2>2, <2>3 DEF HandleOps, Goal
<1>15. \/ DongleScan \/ DongleLocalUnicastSet \/ DongleSubnetAdd \/ DongleAppKeyAdd
       \/ DongleDevkeyAdd \/ DongleAddrPublicationAdd \/ DonglePacketSend
       \/ DongleTxComplete \/ Beacon \/ NodeAnswers \/ Loss \/ WriteFails
       \/ DongleProvision \/ LinkClosed \/ DongleOobUse \/ DongleEcdhSecret \/ DongleAuthData
  BY DEF Outside, DongleCommand
<1>. QED
  BY <1>6, <1>7, <1>8, <1>9, <1>10, <1>11, <1>12, <1>13, <1>14, <1>15

(* A step outside the process takes no command but the first.                  *)
LEMMA OutsideTakes ==
  ASSUME GTypeOK, Process, Outside
  PROVE  /\ Range(toDongle') \subseteq Range(toDongle)
         /\ \A op : Has(toDongle', op) => Has(toDongle, op)
         /\ sound' => sound
<1>1. UNCHANGED toDongle \/ (toDongle # <<>> /\ toDongle' = Tail(toDongle))
  BY OutsideFrame
<1>2. UNCHANGED luck \/ \E kind : Fault(kind)
  BY HandleAnswers
  DEF Outside, DongleCommand, DongleScan, DongleProvision, DongleOobUse,
      DongleEcdhSecret, DongleAuthData, DongleLocalUnicastSet, DongleSubnetAdd,
      DongleAppKeyAdd, DonglePacketSend, LinkStep,
      DongleTxComplete, LinkClosed, Beacon, NodeAnswers, Loss, WriteFails, world
<1>. QED  BY <1>1, <1>2, CommandTaken, FaultStays DEF GTypeOK, TypeOK

(* The dongle sets up nothing of itself unless it is told to.                  *)
LEMMA OutsideLeavesSetup ==
  ASSUME GTypeOK, Process, SetupOver, Outside
  PROVE  SetupOver' /\ UNCHANGED <<subnet, appkeys>>
<1>1. ~DongleLocalUnicastSet /\ ~DongleSubnetAdd /\ ~DongleAppKeyAdd
  <2>1. \A op \in Setup : ~Command(op)
    BY CommandTaken DEF Command, SetupOver, GTypeOK, TypeOK
  <2>. QED
    BY <2>1 DEF DongleLocalUnicastSet, DongleSubnetAdd, DongleAppKeyAdd, Setup
<1>2. UNCHANGED <<subnet, appkeys>>
  <2>1. CASE DongleCommand /\ ~DongleRadioReset
    BY <1>1, <2>1
    DEF DongleCommand, DongleScan, DongleProvision, DongleOobUse,
        DongleEcdhSecret, DongleAuthData, DongleDevkeyAdd, DongleAddrPublicationAdd,
        DonglePacketSend, LinkStep, install
  <2>2. CASE DongleTxComplete \/ LinkClosed \/ Beacon \/ NodeAnswers \/ Loss \/ WriteFails
    BY <2>2
    DEF DongleTxComplete, LinkClosed, Beacon, NodeAnswers, Loss, WriteFails, install,
        world, dongle
  <2>. QED  BY <2>1, <2>2 DEF Outside
<1>3. \A op \in {"DEVICE_STARTED", "ADDR_LOCAL_UNICAST_SET", "SUBNET_ADD"} : ~Has(toHost', op)
  <2>1. CASE UNCHANGED toHost
    BY <2>1 DEF SetupOver
  <2>2. ASSUME NEW e \in Events, Answer(<<e>>), e.op # "SUBNET_ADD",
               e.op # "ADDR_LOCAL_UNICAST_SET", e.op # "DEVICE_STARTED"
        PROVE  \A op \in {"DEVICE_STARTED", "ADDR_LOCAL_UNICAST_SET", "SUBNET_ADD"} : ~Has(toHost', op)
    BY <2>2, EventsReported DEF SetupOver, GTypeOK, TypeOK
  <2>. QED  BY <1>1, <2>1, <2>2, OutsideReports
<1>. QED  BY <1>2, <1>3, OutsideTakes DEF SetupOver

(* The dongle gives out one subnet handle, and takes application keys only     *)
(* with it.                                                                    *)
LEMMA OutsideInstall ==
  ASSUME GTypeOK, Process, Installing, Outside
  PROVE  Installing'
<1>1. UNCHANGED subnet_handle
  BY OutsideFrame DEF HostFrame, handles
<1>2. Range(toDongle') \subseteq Range(toDongle) /\ (sound' => sound)
  BY OutsideTakes
<1>3. \A e \in Range(toHost') : e.op = "SUBNET_ADD" => e.val = SubnetHandle
  <2>1. \A e \in Range(toHost) : e.op = "SUBNET_ADD" => e.val = SubnetHandle
    BY DEF Installing
  <2>2. CASE UNCHANGED toHost
    BY <2>1, <2>2
  <2>3. ASSUME NEW e \in Events, Answer(<<e>>), e.op = "SUBNET_ADD" => e.val = SubnetHandle
        PROVE  \A f \in Range(toHost') : f.op = "SUBNET_ADD" => f.val = SubnetHandle
    <3>1. toHost \in Seq(Events)
      BY DEF GTypeOK, TypeOK
    <3>2. Range(toHost') = Range(toHost) \cup {e}
      BY <2>3, <3>1, EventsReported
    <3>. QED  BY <2>1, <2>3, <3>2
  <2>4. \/ UNCHANGED toHost
        \/ \E e \in Events : Answer(<<e>>) /\ (e.op = "SUBNET_ADD" => e.val = SubnetHandle)
    BY OutsideReports
  <2>. QED  BY <2>2, <2>3, <2>4
<1>4. (UNCHANGED subnet \/ subnet') /\ (UNCHANGED appkeys \/ DongleAppKeyAdd)
  <2>1. CASE DongleCommand /\ ~DongleRadioReset
    BY <2>1
    DEF DongleCommand, DongleScan, DongleProvision, DongleOobUse,
        DongleEcdhSecret, DongleAuthData, DongleLocalUnicastSet, DongleSubnetAdd,
        DongleAppKeyAdd, DongleDevkeyAdd, DongleAddrPublicationAdd, DonglePacketSend,
        LinkStep, install, world, dongle
  <2>2. CASE DongleTxComplete \/ LinkClosed \/ Beacon \/ NodeAnswers \/ Loss \/ WriteFails
    BY <2>2
    DEF DongleTxComplete, LinkClosed, Beacon, NodeAnswers, Loss, WriteFails, install,
        world, dongle
  <2>. QED  BY <2>1, <2>2 DEF Outside
<1>5. appkeys' # {} => subnet_handle = SubnetHandle
  <2>1. CASE DongleAppKeyAdd
    <3>1. Head(toDongle) \in Range(toDongle) /\ Head(toDongle).op = "APPKEY_ADD"
      BY <2>1, CommandTaken DEF DongleAppKeyAdd, Command, GTypeOK, TypeOK
    <3>2. UNCHANGED appkeys \/ Head(toDongle).subnet = SubnetHandle
      BY <2>1 DEF DongleAppKeyAdd
    <3>. QED  BY <3>1, <3>2 DEF Installing
  <2>2. CASE UNCHANGED appkeys
    BY <2>2 DEF Installing
  <2>. QED  BY <1>4, <2>1, <2>2
<1>6. sound' => SetupOver'
  <2>. SUFFICES ASSUME SetupOver PROVE SetupOver'
    BY <1>2 DEF Installing
  <2>. QED  BY OutsideLeavesSetup
<1>. QED  BY <1>1, <1>2, <1>3, <1>4, <1>5, <1>6 DEF Installing

(* A key is pressed when nothing is going on, and sets up nothing.             *)
LEMMA MainInstall ==
  ASSUME Careful, GTypeOK, Installing, (HostStep /\ CliContinue) \/ User
  PROVE  Installing'
<1>1. PressKey \/ CliContinue
  BY DEF User
<1>2. UNCHANGED <<subnet, appkeys, subnet_handle, toHost>>
  BY <1>1, MainWrites DEF User, HostStep, world, dongle, install, handles, GTypeOK
<1>3. \A c \in Range(toDongle') : c \in Range(toDongle) \/ c.op \notin Setup
  <2>1. CASE UNCHANGED toDongle
    BY <2>1
  <2>2. ASSUME NEW c \in Commands, Write(<<c>>),
               c.op \in {"DFU_JUMP_TO_BOOTLOADER", "PROV_SCAN_STOP", "PACKET_SEND"}
        PROVE  \A x \in Range(toDongle') : x \in Range(toDongle) \/ x.op \notin Setup
    BY <2>2, CommandWritten DEF Setup, GTypeOK
  <2>. QED  BY <1>1, <2>1, <2>2, MainWrites DEF GTypeOK
<1>4. sound' => SetupOver'
  <2>1. sound' => SetupOver
    <3>1. CASE User
      <4>1. toHost = <<>> /\ toDongle = <<>>
        BY <3>1 DEF User, Careful, Quiet
      <4>. QED  BY <4>1, NothingOnItsWay DEF SetupOver
    <3>2. CASE HostStep
      BY <3>2 DEF HostStep, world, luck, Installing
    <3>. QED  BY <3>1, <3>2
  <2>. QED  BY <1>2, <1>3, <2>1 DEF SetupOver, Has
<1>. QED  BY <1>2, <1>3, <1>4 DEF Installing, Setup

(* At the first reset nothing is installed.                                    *)
LEMMA ResetInstall ==
  ASSUME GTypeOK, Process, Installing, DongleRadioReset, HostFrame
  PROVE  Installing'
<1>1. toDongle' = <<>> /\ Range(toDongle') = {}
  BY ResetProcess, ShortRange
<1>0. ~sound
  <2>1. ~Started
    BY ResetProcess DEF Started
  <2>. QED  BY <2>1 DEF Process, Booting
<1>2. UNCHANGED <<subnet_handle, sound>> /\ appkeys' = {} /\ Answer(<<Report("DEVICE_STARTED")>>)
  BY DEF DongleRadioReset, Reboot, HostFrame, handles
<1>3. \A e \in Range(toHost') : e.op = "SUBNET_ADD" => e.val = SubnetHandle
  <2>1. Report("DEVICE_STARTED") \in Events /\ Report("DEVICE_STARTED").op = "DEVICE_STARTED"
    BY ReportTypes DEF Reports
  <2>. QED  BY <1>2, <2>1, EventsReported DEF Installing, GTypeOK, TypeOK
<1>. QED  BY <1>0, <1>1, <1>2, <1>3 DEF Installing

(* The receiver is quiet while a key is handled.                               *)
LEMMA ReceiverWaits ==
  ASSUME Process, ReceiverNext PROVE cpc = "getchar" /\ UNCHANGED cli
<1>1. rpc # "idle" \/ toHost # <<>>
  BY DEF ReceiverNext, ProvUnprovisionedReceived, ProvCapsReceived, ProvEcdhRequest,
     ProvAuthRequest, ProvComplete, ProvCompleteCheck, ProvLinkClosed,
     CompositionDataStatus, TxComplete, AppkeyStatus, ModelAppStatus, PublicationStatus,
     Body, SetState, HandleResponse, StoreHandle, SubnetResponse, LocalUnicastResponse,
     DeviceStarted, PrintOnly, Handle, Receive
<1>2. UNCHANGED cli
  BY DEF ReceiverNext, ProvUnprovisionedReceived, ProvCapsReceived, ProvEcdhRequest,
     ProvAuthRequest, ProvComplete, ProvCompleteCheck, ProvLinkClosed,
     CompositionDataStatus, TxComplete, AppkeyStatus, ModelAppStatus, PublicationStatus,
     Body, SetState, HandleResponse, StoreHandle, SubnetResponse, LocalUnicastResponse,
     DeviceStarted, PrintOnly, Handle
<1>. QED  BY <1>1, <1>2 DEF Process, KeyAlone

-------------------------------------------------------------------------------
(* The main thread fills a packet while nobody else does anything.             *)
LEMMA MainKeys ==
  ASSUME GTypeOK, Process, KeysKeepUp, PressKey \/ CliContinue, PressKey => Quiet
  PROVE  KeysKeepUp'
<1>1. UNCHANGED <<devkey_handle, dst_addr_handle>>
  BY MainWrites DEF handles, GTypeOK
<1>2. CASE PressScanStart
  <2>1. toDongle = <<>>
    BY <1>2 DEF PressKey, Quiet
  <2>2. toDongle' = <<Cmd("DFU_JUMP_TO_BOOTLOADER")>> /\ cpc' = "new"
    BY <1>2, <2>1 DEF PressScanStart, Write
  <2>. QED  BY <2>2 DEF KeysKeepUp
<1>3. CASE PressScanStop \/ ResetState \/ WritePacket
  <2>1. cpc' = "getchar"
    BY <1>3 DEF PressScanStop, ResetState, WritePacket, Press, cli
  <2>. QED  BY <2>1 DEF KeysKeepUp
<1>4. CASE PressOnOff \/ PressComposition \/ PressNodeReset
  <2>1. /\ cpc' = "dst"
        /\ packet'.msg = "ONOFF_SET" \/ packet'.key = devkey_handle
    BY <1>4 DEF PressOnOff, PressComposition, PressNodeReset, PressPacket, PacketSend
  <2>. QED  BY <1>1, <2>1 DEF KeysKeepUp
<1>5. CASE FillDestination
  <2>1. /\ cpc = "dst" /\ cpc' = "write" /\ packet'.msg = packet.msg
        /\ packet'.key = packet.key /\ packet'.dst = dst_addr_handle
    BY <1>5 DEF FillDestination, GTypeOK, TypeOK, Packets
  <2>. QED  BY <1>1, <2>1 DEF KeysKeepUp
<1>. QED  BY <1>2, <1>3, <1>4, <1>5 DEF PressKey, CliContinue

(* Until the state is reset the dongle leaves the command of '1' alone; it may *)
(* get lost.                                                                   *)
LEMMA OutsideKeys ==
  ASSUME GTypeOK, Careful, Process, KeysKeepUp, Outside
  PROVE  KeysKeepUp'
<1>1. UNCHANGED <<devkey_handle, dst_addr_handle, cpc, packet>> /\ (sound' => sound)
  BY OutsideFrame, OutsideTakes DEF HostFrame, handles, cli
<1>2. cpc = "new" => UNCHANGED toDongle \/ ~sound'
  <2>1. Fault("write") => ~sound'
    BY Zenon DEF Fault
  <2>2. WriteFails => ~sound'
    BY <2>1 DEF WriteFails
  <2>3. cpc = "new" => ~DongleCommand
    BY DEF DongleCommand, Careful
  <2>. QED
    BY <2>2, <2>3 DEF Outside, DongleTxComplete, LinkClosed, Beacon, NodeAnswers, Loss
<1>. QED  BY <1>1, <1>2 DEF KeysKeepUp

-------------------------------------------------------------------------------
(* A step of the receiver that neither takes nor stores a handle.              *)
LEMMA ReceiverHand ==
  ASSUME TypeOK, HandlesOK, UNCHANGED <<world, cli, devkey_handle, dst_addr_handle>>,
         Storing => UNCHANGED dev_addr,
         Range(toHost') \subseteq Range(toHost),
         \A op \in HandleOps : Has(toHost, op) => Has(toHost', op),
         \A op : Has(toDongle, op) => Has(toDongle', op),
         \A c \in Range(toDongle') : c \in Range(toDongle) \/ c.op \notin AfterLink,
         Has(toDongle', "PROV_SCAN_STOP") => Has(toDongle, "PROV_SCAN_STOP") \/ CompleteComing,
         rpc # "store", rpc' # "store",
         Storing' <=> Storing, CompleteComing' <=> CompleteComing,
         Reached < DEVKEY_ADDRPUBADD => Reached' < DEVKEY_ADDRPUBADD
  PROVE  HandlesOK'
<1>1. UNCHANGED <<devkeys, addrs, nodeAddr, link, scanning, sound, cpc>>
  BY DEF world, dongle, nodes, luck, cli
<1>2. Live' <=> Live
  BY <1>1 DEF Live
<1>3. \A op \in HandleOps : OnWay(op)' <=> OnWay(op)
  <2>1. ASSUME NEW op \in HandleOps PROVE Has(toDongle', op) <=> Has(toDongle, op)
    <3>1. op \in AfterLink
      BY DEF HandleOps, AfterLink
    <3>. QED  BY <3>1 DEF Has
  <2>2. ASSUME NEW op \in HandleOps PROVE Has(toHost', op) <=> Has(toHost, op)
    BY DEF Has
  <2>. QED  BY <2>1, <2>2 DEF OnWay
<1>4. ~CompleteComing /\ ScanOn => ScanOn'
  BY <1>1 DEF ScanOn
<1>. QED  BY <1>1, <1>2, <1>3, <1>4, HandFrameKeeps DEF HandFrame

(* Taking an event that is no handle and not the end of the handshake.         *)
LEMMA HandTakes ==
  ASSUME TypeOK, NEW ops, Receive(ops)
  PROVE  /\ Range(toHost') \subseteq Range(toHost)
         /\ \A op : op \notin ops => (Has(toHost', op) <=> Has(toHost, op))
BY EventTaken DEF Receive, TypeOK

(* Nothing is written.                                                         *)
NoWrite ==
  /\ \A op : Has(toDongle', op) <=> Has(toDongle, op)
  /\ \A c \in Range(toDongle') : c \in Range(toDongle) \/ c.op \notin AfterLink
LEMMA HandNoWrite == ASSUME UNCHANGED toDongle PROVE NoWrite
BY DEF NoWrite

(* The guarded handlers of rungs without handles.                              *)
LEMMA HandleHand ==
  ASSUME TypeOK, HandlesOK, UNCHANGED world,
         NEW op, NEW k \in Rungs, Handle(op, k), op \notin HandleOps \cup {"COMPLETE"},
         k \notin {DEVKEY_ADDRPUBADD, PS_COMPOSDATA}
  PROVE  HandlesOK'
<1>1. /\ Receive({op}) /\ rpc = "idle"
      /\ UNCHANGED <<devkey_handle, dst_addr_handle, dev_addr, toDongle, state, cli, link>>
      /\ rpc' = "idle" \/ (rpc' = "body" /\ state = k - 1)
  BY DEF Handle, Receive, Begin, Idle, handles, receiver, world, dongle
<1>2. /\ Range(toHost') \subseteq Range(toHost)
      /\ \A o \in HandleOps \cup {"COMPLETE"} : Has(toHost', o) <=> Has(toHost, o)
  BY <1>1, HandTakes
<1>3. NoWrite
  BY <1>1, HandNoWrite
<1>4. (Storing' <=> Storing) /\ (CompleteComing' <=> CompleteComing) /\ Reached' = Reached
  <2>1. Reached' = state /\ Reached = state
    BY <1>1 DEF Reached
  <2>2. k \in 1 .. 9
    BY DEF Rungs
  <2>3. ~InHand /\ ~InHand'
    BY <1>1, <2>2 DEF InHand
  <2>4. Storing' <=> Storing
    BY <1>1, <2>1, <2>2 DEF Storing
  <2>. QED  BY <1>2, <2>1, <2>3, <2>4 DEF CompleteComing
<1>. QED  BY <1>1, <1>2, <1>3, <1>4, ReceiverHand DEF NoWrite

(* The receiver's handlers that write commands of no session, or nothing.      *)
LEMMA PlainHand ==
  ASSUME GTypeOK, HandlesOK, UNCHANGED world,
         SubnetResponse \/ LocalUnicastResponse \/ DeviceStarted \/ PrintOnly
  PROVE  HandlesOK'
<1>. USE DEF GTypeOK
<1>1. /\ rpc = "idle" /\ UNCHANGED <<devkey_handle, dst_addr_handle, dev_addr, state, receiver, cli, link>>
      /\ Range(toHost') \subseteq Range(toHost)
      /\ \A op \in HandleOps \cup {"COMPLETE"} : Has(toHost', op) <=> Has(toHost, op)
  <2>1. PICK ops : Receive(ops) /\ ops \cap (HandleOps \cup {"COMPLETE"}) = {}
    <3>. DEFINE A == {"SUBNET_ADD"}
                B == {"ADDR_LOCAL_UNICAST_SET"}
                C == {"DEVICE_STARTED"}
                D == {"OTHER_RESPONSE", "OTHER_MESSAGE", "OTHER_REPORT"}
    <3>1. Receive(A) \/ Receive(B) \/ Receive(C) \/ Receive(D)
      BY DEF SubnetResponse, LocalUnicastResponse, DeviceStarted, PrintOnly
    <3>2. \A o \in A \cup B \cup C \cup D : o \notin HandleOps \cup {"COMPLETE"}
      BY DEF HandleOps
    <3>. HIDE DEF A, B, C, D
    <3>. QED  BY <3>1, <3>2
  <2>2. rpc = "idle"
    BY <2>1 DEF Receive
  <2>3. UNCHANGED <<devkey_handle, dst_addr_handle, dev_addr, state, receiver, cli, link>>
    BY DEF SubnetResponse, LocalUnicastResponse, DeviceStarted, PrintOnly, Idle, handles,
       world, dongle
  <2>. QED  BY <2>1, <2>2, <2>3, HandTakes
<1>2. (Storing' <=> Storing) /\ (CompleteComing' <=> CompleteComing) /\ Reached' = Reached
  BY <1>1 DEF receiver, Reached, Storing, CompleteComing, InHand
<1>3. /\ \A op \in AfterLink \cup {"PROV_SCAN_STOP"} : Has(toDongle', op) => Has(toDongle, op)
      /\ \A op : Has(toDongle, op) => Has(toDongle', op)
      /\ \A c \in Range(toDongle') : c \in Range(toDongle) \/ c.op \notin AfterLink
  <2>1. \/ UNCHANGED toDongle
        \/ \E s \in Seq(Commands) :
             Write(s) /\ \A op \in AfterLink \cup {"PROV_SCAN_STOP"} : ~Has(s, op)
    <3>1. CASE PrintOnly
      BY <3>1 DEF PrintOnly, Idle
    <3>2. <<>> \in Seq(Commands) /\ \A op \in AfterLink \cup {"PROV_SCAN_STOP"} : ~Has(<<>>, op)
      BY ShortHas
    <3>3. CASE LocalUnicastResponse \/ DeviceStarted
      <4>1. PICK op \in {"SUBNET_ADD", "ADDR_LOCAL_UNICAST_SET"} :
               Write(<<Cmd(op)>>) \/ Write(<<>>)
        BY <3>3 DEF LocalUnicastResponse, DeviceStarted
      <4>. DEFINE c == Cmd(op)
      <4>2. c \in Commands /\ c.op \notin AfterLink \cup {"PROV_SCAN_STOP"}
        BY DEF Cmd, Commands, PlainCommands, AfterLink
      <4>3. Write(<<c>>) \/ Write(<<>>)
        BY <4>1
      <4>. HIDE DEF c
      <4>4. <<c>> \in Seq(Commands) /\ \A o \in AfterLink \cup {"PROV_SCAN_STOP"} : ~Has(<<c>>, o)
        BY <4>2, ShortHas
      <4>. QED  BY <3>2, <4>3, <4>4
    <3>4. CASE SubnetResponse
      <4>1. PICK net \in U16Int : Write(IF Head(toHost).ok
                               THEN <<AppKeyAdd(0, net), AppKeyAdd(1, net)>> ELSE <<>>)
        BY <3>4, ReceiveType DEF SubnetResponse, TypeOK, Events
      <4>. DEFINE a == AppKeyAdd(0, net)
                  b == AppKeyAdd(1, net)
      <4>2. a \in Commands /\ b \in Commands /\ a.op = "APPKEY_ADD" /\ b.op = "APPKEY_ADD"
        BY DEF AppKeyAdd, Commands
      <4>3. Write(<<a, b>>) \/ Write(<<>>)
        BY <4>1
      <4>. HIDE DEF a, b
      <4>4. <<a, b>> \in Seq(Commands)
            /\ \A op \in AfterLink \cup {"PROV_SCAN_STOP"} : ~Has(<<a, b>>, op)
        BY <4>2, ShortHas DEF AfterLink
      <4>. QED  BY <3>2, <4>3, <4>4
    <3>. QED  BY <3>1, <3>3, <3>4
  <2>2. ASSUME NEW s \in Seq(Commands), Write(s),
               \A op \in AfterLink \cup {"PROV_SCAN_STOP"} : ~Has(s, op)
        PROVE  /\ \A op \in AfterLink \cup {"PROV_SCAN_STOP"} : Has(toDongle', op) => Has(toDongle, op)
               /\ \A op : Has(toDongle, op) => Has(toDongle', op)
               /\ \A c \in Range(toDongle') : c \in Range(toDongle) \/ c.op \notin AfterLink
    BY <2>2, CommandsWritten DEF TypeOK, Has
  <2>. QED  BY <2>1, <2>2
<1>. QED  BY <1>1, <1>2, <1>3, ReceiverHand DEF receiver

(* The end of the handshake is taken, and the scan is stopped.                 *)
LEMMA CompleteHand ==
  ASSUME GTypeOK, InTurn, HandlesOK, UNCHANGED world, ProvComplete \/ ProvCompleteCheck
  PROVE  HandlesOK'
<1>. USE DEF GTypeOK
<1>1. CASE ProvComplete
  <2>1. /\ Receive({"COMPLETE"}) /\ rpc = "idle" /\ rpc' = "check"
        /\ UNCHANGED <<devkey_handle, dst_addr_handle, dev_addr, state, cli, link>>
    BY <1>1 DEF ProvComplete, Receive, handles, world, dongle
  <2>2. Has(toHost, "COMPLETE") /\ CompleteComing /\ CompleteComing'
    <3>1. Has(toHost, "COMPLETE")
      BY <2>1, EventTaken DEF Receive, TypeOK
    <3>. QED  BY <2>1, <3>1 DEF CompleteComing, InHand
  <2>3. Reached = AUTH /\ Reached' = AUTH
    BY <2>1, <2>2 DEF InTurn, LinkInv, EventsInTurn, Awaits, Reached
  <2>4. ~Storing /\ ~Storing'
    BY <2>3 DEF Storing
  <2>5. /\ \A op : Has(toDongle, op) => Has(toDongle', op)
        /\ \A c \in Range(toDongle') : c \in Range(toDongle) \/ c.op \notin AfterLink
    <3>. DEFINE c == Cmd("PROV_SCAN_STOP")
    <3>1. c \in Commands /\ c.op \notin AfterLink /\ Write(<<c>>)
      BY <1>1 DEF ProvComplete, Cmd, Commands, PlainCommands, AfterLink
    <3>. HIDE DEF c
    <3>. QED  BY <3>1, CommandWritten
  <2>6. /\ Range(toHost') \subseteq Range(toHost)
        /\ \A op \in HandleOps : Has(toHost, op) => Has(toHost', op)
    BY <2>1, HandTakes DEF HandleOps
  <2>. QED  BY <2>1, <2>2, <2>3, <2>4, <2>5, <2>6, ReceiverHand
<1>2. CASE ProvCompleteCheck
  <2>1. rpc = "check" /\ rpc' = "body" /\ state = AUTH
        /\ UNCHANGED <<devkey_handle, dst_addr_handle, dev_addr, state, cli, toHost, toDongle, link>>
    BY <1>2 DEF ProvCompleteCheck, InTurn, Process, StateKept, handles, world, dongle
  <2>2. Reached' = Reached /\ ~Storing /\ ~Storing' /\ CompleteComing /\ CompleteComing'
    BY <2>1 DEF Reached, Storing, CompleteComing, InHand
  <2>. QED  BY <2>1, <2>2, HandNoWrite, ReceiverHand DEF NoWrite
<1>. QED  BY <1>1, <1>2

(* The link is closed, or the last answer has come.                            *)
LEMMA EndHand ==
  ASSUME GTypeOK, InTurn, HandlesOK, UNCHANGED world, ProvLinkClosed \/ PublicationStatus
  PROVE  HandlesOK'
<1>. USE DEF GTypeOK
<1>1. /\ rpc = "idle" /\ rpc' \in {"idle", "body"}
      /\ UNCHANGED <<devkey_handle, dst_addr_handle, dev_addr, toDongle, cli, link>>
      /\ Range(toHost') \subseteq Range(toHost)
      /\ \A op \in HandleOps \cup {"COMPLETE"} : Has(toHost', op) <=> Has(toHost, op)
  <2>1. PICK ops : Receive(ops) /\ ops \cap (HandleOps \cup {"COMPLETE"}) = {}
    <3>1. {"LINK_CLOSED"} \cap (HandleOps \cup {"COMPLETE"}) = {}
          /\ {"MODEL_PUBLICATION_STATUS"} \cap (HandleOps \cup {"COMPLETE"}) = {}
      BY DEF HandleOps
    <3>2. Receive({"LINK_CLOSED"}) \/ Receive({"MODEL_PUBLICATION_STATUS"})
      BY DEF ProvLinkClosed, PublicationStatus
    <3>. QED  BY <3>1, <3>2
  <2>2. rpc = "idle"
    BY <2>1 DEF Receive
  <2>3. /\ UNCHANGED <<devkey_handle, dst_addr_handle, dev_addr, toDongle, cli, link>>
        /\ rpc' \in {"idle", "body"}
    BY <2>2 DEF ProvLinkClosed, PublicationStatus, Begin, handles, receiver, world, dongle
  <2>. QED  BY <2>1, <2>2, <2>3, HandTakes
<1>2. CASE ProvLinkClosed
  <2>1. Has(toHost, "LINK_CLOSED")
    BY <1>2, EventTaken DEF ProvLinkClosed, Receive, TypeOK
  <2>2. link.phase = "none"
    BY <2>1 DEF InTurn, LinkInv, ClosedInTurn, Closing
  <2>3. (state' = state /\ state = DEVKEY_ADDRPUBADD) \/ (state' = STATE_NEW /\ rpc' = "idle")
    BY <1>1, <1>2 DEF ProvLinkClosed, Begin, receiver
  <2>4. ~Storing /\ ~Storing' /\ ~InHand /\ ~InHand'
    BY <1>1, <2>2, <2>3 DEF Storing, InHand
  <2>5. Reached < DEVKEY_ADDRPUBADD => Reached' < DEVKEY_ADDRPUBADD
    BY <1>1, <2>3 DEF Reached
  <2>. QED
    BY <1>1, <2>4, <2>5, HandNoWrite, ReceiverHand DEF NoWrite, CompleteComing
<1>3. CASE PublicationStatus
  <2>1. rpc' = "idle" /\ (state' = state \/ (state = PS_MODEL_PUBLICATION_SET /\ state' = STATE_NEW))
    BY <1>1, <1>3 DEF PublicationStatus, receiver
  <2>2. (Storing' <=> Storing) /\ ~InHand /\ ~InHand'
        /\ (Reached < DEVKEY_ADDRPUBADD => Reached' < DEVKEY_ADDRPUBADD)
    BY <1>1, <2>1 DEF Storing, InHand, Reached
  <2>. QED
    BY <1>1, <2>1, <2>2, HandNoWrite, ReceiverHand DEF NoWrite, CompleteComing
<1>. QED  BY <1>2, <1>3

(* A handler ends: its rung has been reached since its commands were written.  *)
LEMMA SetHand ==
  ASSUME GTypeOK, HandlesOK, UNCHANGED world, SetState
  PROVE  HandlesOK'
<1>1. /\ rpc = "set" /\ rpc' = "idle" /\ state' = job.rung
      /\ UNCHANGED <<devkey_handle, dst_addr_handle, dev_addr, toDongle, toHost, cli, link>>
  BY DEF SetState, handles, world, dongle
<1>2. Reached' = Reached /\ (Storing' <=> Storing) /\ ~InHand /\ ~InHand'
  BY <1>1 DEF Reached, Storing, InHand
<1>. QED
  BY <1>1, <1>2, HandNoWrite, ReceiverHand DEF NoWrite, CompleteComing, GTypeOK

(* A handle is taken to be stored: it is the session's own, and awaited.       *)
LEMMA ResponseHand ==
  ASSUME GTypeOK, HandlesOK, UNCHANGED world, HandleResponse
  PROVE  HandlesOK'
<1>. USE DEF GTypeOK
<1>. DEFINE rsp == Head(toHost)
<1>1. /\ rpc = "idle" /\ rsp.op \in HandleOps /\ toHost # <<>> /\ toHost' = Tail(toHost)
      /\ UNCHANGED <<devkey_handle, dst_addr_handle, dev_addr, toDongle, state, cli>>
      /\ (rsp.ok /\ state = DEVKEY_ADDRPUBADD) =>
            rpc' = "store" /\ job' = [rung |-> DEVKEY_ADDRPUBADD, ev |-> rsp]
  BY DEF HandleResponse, Receive, AwaitsHandles, handles, HandleOps, Idle
<1>. HIDE DEF rsp
<1>2. /\ rsp \in Range(toHost) /\ Range(toHost') \subseteq Range(toHost)
      /\ \A op : Has(toHost, op) <=> rsp.op = op \/ Has(toHost', op)
  BY <1>1, EventTaken DEF rsp, TypeOK
<1>3. UNCHANGED <<devkeys, addrs, nodeAddr, link, scanning, sound, cpc>>
  BY <1>1 DEF world, dongle, nodes, luck, cli
<1>4. Live' <=> Live
  BY <1>3 DEF Live
<1>5. ASSUME Live', Roomy' PROVE HandFrame
  <2>1. InPlace
    BY <1>3, <1>4, <1>5 DEF HandlesOK, Roomy
  <2>2. Storing /\ rsp.ok
    <3>1. OnWay(rsp.op)
      BY <1>2 DEF OnWay
    <3>2. GoodResponse(rsp)
      BY <1>2, <2>1 DEF InPlace
    <3>. QED  BY <1>1, <2>1, <3>1, <3>2 DEF InPlace, GoodResponse, HandleOps
  <2>3. state = DEVKEY_ADDRPUBADD
    BY <1>1, <2>2 DEF Storing, Reached
  <2>4. rpc' = "store" /\ job'.ev = rsp
    BY <1>1, <2>2, <2>3
  <2>5. Reached' = Reached /\ Storing'
    BY <1>1, <1>3, <2>2, <2>3, <2>4 DEF Reached, Storing
  <2>6. \A op \in HandleOps : OnWay(op)' <=> OnWay(op)
    <3>1. \A op : Has(toDongle', op) <=> Has(toDongle, op)
      BY <1>1
    <3>. QED  BY <1>1, <1>2, <2>4, <3>1 DEF OnWay
  <2>7. CompleteComing' <=> CompleteComing
    <3>1. Has(toHost', "COMPLETE") <=> Has(toHost, "COMPLETE")
      BY <1>1, <1>2 DEF HandleOps
    <3>2. ~InHand /\ ~InHand'
      BY <1>1, <2>4 DEF InHand
    <3>. QED  BY <3>1, <3>2 DEF CompleteComing
  <2>8. ScanOn => ScanOn'
    BY <1>1, <1>3 DEF ScanOn
  <2>. QED
    BY <1>1, <1>2, <1>3, <1>4, <2>2, <2>4, <2>5, <2>6, <2>7, <2>8 DEF HandFrame
<1>. QED  BY <1>5, HandFrameKeeps

(* What belongs together depends on the dongle, the nodes and the counter.     *)
LEMMA PairsKept ==
  ASSUME UNCHANGED <<devkeys, addrs, nodeAddr>>
  PROVE  /\ \A k, d : Paired(k, d)' <=> Paired(k, d)
         /\ UNCHANGED dev_addr =>
              /\ \A k : GoodKey(k)' <=> GoodKey(k)
              /\ \A d : GoodDst(d)' <=> GoodDst(d)
              /\ \A c : GoodCommand(c)' <=> GoodCommand(c)
              /\ \A e : GoodResponse(e)' <=> GoodResponse(e)
<1>1. \A k, d : Paired(k, d)' <=> Paired(k, d)
  BY DEF Paired, KeyKnown, KeyAt, DstKnown, DstAt
<1>2. UNCHANGED dev_addr => (\A k : GoodKey(k)' <=> GoodKey(k)) /\ (\A d : GoodDst(d)' <=> GoodDst(d))
  BY DEF GoodKey, GoodDst, KeyKnown, KeyAt, DstKnown, DstAt
<1>3. UNCHANGED dev_addr => \A c : GoodCommand(c)' <=> GoodCommand(c)
  BY <1>1 DEF GoodCommand
<1>4. UNCHANGED dev_addr => \A e : GoodResponse(e)' <=> GoodResponse(e)
  BY <1>2 DEF GoodResponse
<1>. QED  BY <1>1, <1>2, <1>3, <1>4

(* A handle is stored: it is the session's from now on.                        *)
LEMMA StoreHand ==
  ASSUME GTypeOK, HandlesOK, UNCHANGED world, StoreHandle
  PROVE  HandlesOK'
<1>1. /\ rpc = "store" /\ rpc' = "idle"
      /\ UNCHANGED <<toHost, toDongle, dev_addr, state, cli>>
      /\ devkey_handle' = IF job.ev.op = "DEVKEY_ADD" THEN job.ev.val ELSE devkey_handle
      /\ dst_addr_handle' =
           IF job.ev.op = "ADDR_PUBLICATION_ADD" THEN job.ev.val ELSE dst_addr_handle
  BY DEF StoreHandle
<1>2. UNCHANGED <<devkeys, addrs, nodeAddr, link, scanning, sound, cpc>>
  BY <1>1 DEF world, dongle, nodes, luck, cli
<1>. SUFFICES ASSUME Live', Roomy' PROVE InPlace'
  BY DEF HandlesOK
<1>3. Live /\ InPlace
  BY <1>2 DEF Live, HandlesOK, Roomy
<1>4. Reached' = Reached /\ (Storing' <=> Storing) /\ (ScanOn => ScanOn')
  BY <1>1, <1>2 DEF Reached, Storing, ScanOn
<1>5. CompleteComing' <=> CompleteComing
  BY <1>1 DEF CompleteComing, InHand
<1>6. \A op : /\ OnWay(op)' <=> Has(toDongle, op) \/ Has(toHost, op)
              /\ OnWay(op) <=> Has(toDongle, op) \/ Has(toHost, op) \/ job.ev.op = op
  BY <1>1 DEF OnWay
<1>7. job.ev.op \in HandleOps => Storing
  BY <1>3, <1>6 DEF InPlace
<1>8. Storing' => /\ OnWay("DEVKEY_ADD")' \/ GoodKey(devkey_handle)'
                  /\ OnWay("ADDR_PUBLICATION_ADD")' \/ GoodDst(dst_addr_handle)'
  <2>1. GoodResponse(job.ev)
    BY <1>1, <1>3 DEF InPlace
  <2>2. Storing => /\ OnWay("DEVKEY_ADD") \/ GoodKey(devkey_handle)
                   /\ OnWay("ADDR_PUBLICATION_ADD") \/ GoodDst(dst_addr_handle)
    BY <1>3 DEF InPlace
  <2>3. Storing => OnWay("DEVKEY_ADD")' \/ GoodKey(devkey_handle')
    BY <1>1, <1>6, <2>1, <2>2 DEF GoodResponse
  <2>4. Storing => OnWay("ADDR_PUBLICATION_ADD")' \/ GoodDst(dst_addr_handle')
    BY <1>1, <1>6, <2>1, <2>2 DEF GoodResponse
  <2>5. GoodKey(devkey_handle') => GoodKey(devkey_handle)'
    BY <1>1, <1>2 DEF GoodKey, KeyKnown, KeyAt
  <2>6. GoodDst(dst_addr_handle') => GoodDst(dst_addr_handle)'
    BY <1>1, <1>2 DEF GoodDst, DstKnown, DstAt
  <2>. QED  BY <1>4, <2>3, <2>4, <2>5, <2>6
<1>9. ~Storing /\ Paired(devkey_handle, dst_addr_handle) => Paired(devkey_handle, dst_addr_handle)'
  <2>1. ~Storing => UNCHANGED <<devkey_handle, dst_addr_handle>>
    BY <1>1, <1>7 DEF HandleOps
  <2>. QED  BY <1>2, <2>1 DEF Paired, KeyKnown, KeyAt, DstKnown, DstAt
<1>10. /\ \A c \in Range(toDongle') : GoodCommand(c)'
       /\ \A e \in Range(toHost') : GoodResponse(e)'
  BY <1>1, <1>2, <1>3, PairsKept DEF InPlace
<1>11. \A op \in HandleOps : OnWay(op)' => Storing'
  BY <1>3, <1>4, <1>6 DEF InPlace
<1>12. CompleteComing' => link'.phase = "complete"
  BY <1>2, <1>3, <1>5 DEF InPlace
<1>13. ~CompleteComing' /\ ~Storing' =>
          Paired(devkey_handle, dst_addr_handle)' \/ (Reached' < DEVKEY_ADDRPUBADD /\ ScanOn')
  BY <1>3, <1>4, <1>5, <1>9 DEF InPlace
<1>. QED  BY <1>1, <1>8, <1>10, <1>11, <1>12, <1>13 DEF InPlace

(* What the commands of a rung leave alone, whichever they are.                *)
LEMMA BodyLeaves ==
  ASSUME GTypeOK, InTurn, Body
  PROVE  /\ rpc = "body" /\ rpc' = "set" /\ state = job.rung - 1 /\ job.rung \in Rungs
         /\ UNCHANGED <<state, job, toHost, cli, devkey_handle>>
         /\ job.rung # DEVKEY_ADDRPUBADD => UNCHANGED dst_addr_handle
         /\ job.rung # PROVISION => UNCHANGED dev_addr
<1>1. rpc = "body"
  BY DEF Body
<1>2. job.rung \in Rungs
  BY <1>1 DEF GTypeOK, TypeOK
<1>3. state = job.rung - 1
  BY <1>1 DEF InTurn, Process, StateKept
<1>4. /\ rpc' = "set" /\ UNCHANGED <<state, job, toHost, cli, devkey_handle>>
      /\ job.rung # DEVKEY_ADDRPUBADD => UNCHANGED dst_addr_handle
      /\ job.rung # PROVISION => UNCHANGED dev_addr
  BY DEF Body
<1>. QED  BY <1>1, <1>2, <1>3, <1>4

(* A rung before the handles writes nothing that has to do with them.          *)
LEMMA EarlyBodyHand ==
  ASSUME GTypeOK, InTurn, HandlesOK, UNCHANGED world, Body, job.rung < DEVKEY_ADDRPUBADD
  PROVE  HandlesOK'
<1>. USE DEF GTypeOK
<1>. DEFINE s == RungCommands(job.rung, job.ev)
<1>1. /\ rpc = "body" /\ rpc' = "set" /\ state = job.rung - 1 /\ job.rung \in 1 .. 4
      /\ UNCHANGED <<state, job, toHost, cli, devkey_handle, dst_addr_handle, link>>
  <2>1. UNCHANGED link
    BY DEF world, dongle
  <2>. QED  BY <2>1, BodyLeaves DEF Rungs
<1>2. Reached = state /\ Reached' = job.rung /\ ~Storing /\ ~Storing' /\ ~InHand /\ ~InHand'
  BY <1>1 DEF Reached, Storing, InHand
<1>3. \A op \in AfterLink \cup {"PROV_SCAN_STOP"} : ~Has(s, op)
  BY <1>1, RungOpcodes DEF AfterLink, Rungs
<1>. HIDE DEF s
<1>4. /\ Range(toDongle') = Range(toDongle) \cup Range(s)
      /\ \A op : Has(toDongle', op) <=> Has(toDongle, op) \/ Has(s, op)
  BY BodyWrites DEF s
<1>5. \A c \in Range(toDongle') : c \in Range(toDongle) \/ c.op \notin AfterLink
  BY <1>3, <1>4 DEF Has
<1>. QED  BY <1>1, <1>2, <1>3, <1>4, <1>5, ReceiverHand DEF CompleteComing

(* The fifth rung asks the dongle for the handles of the device that joined.   *)
LEMMA AskBodyHand ==
  ASSUME GTypeOK, InTurn, Installing, Installed, HandlesOK, UNCHANGED world, Body,
         job.rung = DEVKEY_ADDRPUBADD
  PROVE  HandlesOK'
<1>. USE DEF GTypeOK
<1>. DEFINE a == DevkeyAdd(dev_addr, subnet_handle, job.ev.dev)
            b == AddrPublicationAdd(dev_addr)
<1>1. /\ rpc = "body" /\ rpc' = "set" /\ state = AUTH
      /\ UNCHANGED <<state, job, toHost, cli, devkey_handle, dev_addr>>
  BY BodyLeaves
<1>2. UNCHANGED <<devkeys, addrs, nodeAddr, link, scanning, sound, cpc>>
  BY <1>1 DEF world, dongle, nodes, luck, cli
<1>. SUFFICES ASSUME Live', Roomy' PROVE InPlace'
  BY DEF HandlesOK
<1>3. Live /\ InPlace /\ sound
  BY <1>2 DEF Live, HandlesOK, Roomy
<1>4. CompleteComing /\ link.phase = "complete"
  BY <1>1, <1>3 DEF CompleteComing, InHand, InPlace
<1>5. Reached' = DEVKEY_ADDRPUBADD /\ Storing'
  BY <1>1, <1>2, <1>4 DEF Reached, Storing
<1>6. ~CompleteComing'
  <2>1. ~Has(toHost, "COMPLETE")
    BY <1>1 DEF InTurn, LinkInv, EventsInTurn, Awaits, Waiting
  <2>. QED  BY <1>1, <2>1 DEF CompleteComing, InHand
<1>7. /\ Range(toDongle') = Range(toDongle) \cup {a, b}
      /\ OnWay("DEVKEY_ADD")' /\ OnWay("ADDR_PUBLICATION_ADD")'
  <2>1. RungCommands(job.rung, job.ev) = <<a, b>>
    BY BodyWrites, RungWrites
  <2>2. a.op = "DEVKEY_ADD" /\ b.op = "ADDR_PUBLICATION_ADD"
    BY DEF DevkeyAdd, AddrPublicationAdd
  <2>. HIDE DEF a, b
  <2>. QED  BY <2>1, <2>2, BodyWrites, ShortRange, ShortHas DEF OnWay
<1>8. GoodCommand(a) /\ GoodCommand(b)
  <2>1. subnet_handle = SubnetHandle
    BY DEF Installing, Installed
  <2>. QED  BY <2>1 DEF GoodCommand, DevkeyAdd, AddrPublicationAdd
<1>. HIDE DEF a, b
<1>9. \A c \in Range(toDongle') : GoodCommand(c)'
  BY <1>1, <1>2, <1>3, <1>7, <1>8, PairsKept DEF InPlace
<1>10. \A e \in Range(toHost') : GoodResponse(e)'
  BY <1>1, <1>2, <1>3, PairsKept DEF InPlace
<1>. QED  BY <1>1, <1>2, <1>4, <1>5, <1>6, <1>7, <1>9, <1>10 DEF InPlace

(* The rungs after it write packets, with the handles of the session.          *)
LEMMA PacketBodyHand ==
  ASSUME GTypeOK, InTurn, HandlesOK, UNCHANGED world, Body,
         job.rung > DEVKEY_ADDRPUBADD
  PROVE  HandlesOK'
<1>. USE DEF GTypeOK
<1>. DEFINE s == RungCommands(job.rung, job.ev)
<1>1. /\ rpc = "body" /\ rpc' = "set" /\ state = job.rung - 1 /\ job.rung \in 6 .. 9
      /\ UNCHANGED <<state, job, toHost, cli, devkey_handle, dst_addr_handle, dev_addr>>
  BY BodyLeaves DEF Rungs
<1>2. UNCHANGED <<devkeys, addrs, nodeAddr, link, scanning, sound, cpc>>
  BY <1>1 DEF world, dongle, nodes, luck, cli
<1>. SUFFICES ASSUME Live', Roomy' PROVE InPlace'
  BY DEF HandlesOK
<1>3. Live /\ InPlace
  BY <1>2 DEF Live, HandlesOK, Roomy
<1>4. /\ Reached = state /\ Reached' = job.rung /\ ~Storing /\ ~Storing'
      /\ ~CompleteComing /\ ~CompleteComing'
  <2>1. ~Has(toHost, "COMPLETE")
    BY <1>1 DEF InTurn, LinkInv, EventsInTurn, Awaits, Waiting
  <2>. QED  BY <1>1, <2>1 DEF Reached, Storing, CompleteComing, InHand
<1>5. Paired(devkey_handle, dst_addr_handle)
  BY <1>1, <1>3, <1>4 DEF InPlace
<1>6. \A c \in Range(s) : GoodCommand(c) /\ c.op \notin HandleOps
  <2>1. PICK c : /\ s = <<c>> /\ c.op = "PACKET_SEND"
                 /\ c.key = devkey_handle /\ c.dst = dst_addr_handle
    <3>1. PICK msg \in PacketMessages : s = <<ConfigPacket(msg)>> \/ s = <<ModelPacket(msg)>>
      <4>1. {"COMPOSITION_DATA_GET", "APPKEY_ADD", "MODEL_APP_BIND", "MODEL_PUBLICATION_SET"}
              \subseteq PacketMessages
        BY DEF PacketMessages
      <4>. QED  BY <1>1, <4>1, BodyWrites, RungWrites
    <3>. QED  BY <3>1 DEF ConfigPacket, ModelPacket, PacketSend
  <2>2. Range(s) = {c}
    BY <2>1, ShortRange
  <2>. QED  BY <1>5, <2>1, <2>2 DEF GoodCommand, HandleOps
<1>. HIDE DEF s
<1>7. /\ Range(toDongle') = Range(toDongle) \cup Range(s)
      /\ \A op : Has(toDongle', op) <=> Has(toDongle, op) \/ Has(s, op)
  BY BodyWrites DEF s
<1>8. \A c \in Range(toDongle') : GoodCommand(c)'
  BY <1>1, <1>2, <1>3, <1>6, <1>7, PairsKept DEF InPlace
<1>9. \A e \in Range(toHost') : GoodResponse(e)'
  BY <1>1, <1>2, <1>3, PairsKept DEF InPlace
<1>10. \A op \in HandleOps : OnWay(op)' => OnWay(op)
  BY <1>1, <1>6, <1>7 DEF OnWay, Has
<1>11. Paired(devkey_handle, dst_addr_handle)'
  BY <1>1, <1>2, <1>5 DEF Paired, KeyKnown, KeyAt, DstKnown, DstAt
<1>. QED  BY <1>1, <1>3, <1>4, <1>8, <1>9, <1>10, <1>11 DEF InPlace

(* Every handler keeps the handles of different nodes apart.                   *)
LEMMA ReceiverKeepsHandles ==
  ASSUME GTypeOK, InTurn, Installing, Installed, HandlesOK, UNCHANGED world, ReceiverNext
  PROVE  HandlesOK'
<1>1. CASE ProvUnprovisionedReceived \/ ProvCapsReceived \/ ProvEcdhRequest
           \/ ProvAuthRequest \/ CompositionDataStatus \/ TxComplete \/ AppkeyStatus
           \/ ModelAppStatus
  <2>1. PICK op \in EventOps, k \in Rungs :
          /\ op \notin HandleOps \cup {"COMPLETE"} /\ k \notin {DEVKEY_ADDRPUBADD, PS_COMPOSDATA}
          /\ Handle(op, k)
    <3>. DEFINE Ops == {"UNPROVISIONED_RECEIVED", "CAPS_RECEIVED", "ECDH_REQUEST", "AUTH_REQUEST",
                        "COMPOSITION_DATA_STATUS", "TX_COMPLETE", "APPKEY_STATUS",
                        "MODEL_APP_STATUS"}
                Ks  == {PROVISION, OOBUSE, ECDH, AUTH, PS_APPKEY_ADD, PS_MODEL_APP_BIND,
                        PS_MODEL_PUBLICATION_SET}
    <3>1. \A op \in Ops : op \in EventOps /\ op \notin HandleOps \cup {"COMPLETE"}
      BY DEF EventOps, Reports, Messages, HandleOps
    <3>2. \A k \in Ks : k \in Rungs /\ k \notin {DEVKEY_ADDRPUBADD, PS_COMPOSDATA}
      BY DEF Rungs
    <3>3. \E op \in Ops, k \in Ks : Handle(op, k)
      BY <1>1
      DEF ProvUnprovisionedReceived, ProvCapsReceived, ProvEcdhRequest,
          ProvAuthRequest, CompositionDataStatus, TxComplete, AppkeyStatus, ModelAppStatus
    <3>. HIDE DEF Ops, Ks
    <3>. QED  BY <3>1, <3>2, <3>3
  <2>. QED  BY <2>1, HandleHand DEF GTypeOK
<1>2. CASE Body
  <2>1. job.rung \in 1 .. 9
    BY <1>2 DEF Body, GTypeOK, TypeOK, Rungs
  <2>. QED  BY <1>2, <2>1, EarlyBodyHand, AskBodyHand, PacketBodyHand
<1>. QED
  BY <1>1, <1>2, PlainHand, CompleteHand, EndHand, SetHand, ResponseHand, StoreHand
  DEF ReceiverNext

-------------------------------------------------------------------------------
(* A step outside the process that gives no handle and does not end the        *)
(* handshake or, when it is complete, the link.                                *)
ReportsNoHandle ==
  UNCHANGED toHost \/ \E e \in Events : Answer(<<e>>) /\ e.op \notin HandleOps \cup {"COMPLETE"}
TakesNoHandle ==
  \/ UNCHANGED <<toDongle, scanning>>
  \/ DongleScan
  \/ /\ toDongle # <<>> /\ toDongle' = Tail(toDongle) /\ UNCHANGED scanning
     /\ Head(toDongle).op
          \notin HandleOps \cup {"DFU_JUMP_TO_BOOTLOADER", "PROV_SCAN_STOP"}

(* The scanner listens to the command that '1' writes.                         *)
LEMMA ScanKept ==
  ASSUME GTypeOK, "DFU_JUMP_TO_BOOTLOADER" \in ScanOpcodes, TakesNoHandle, ScanOn
  PROVE  ScanOn'
<1>1. CASE UNCHANGED <<toDongle, scanning>>
  BY <1>1 DEF ScanOn
<1>2. ASSUME toDongle # <<>>, toDongle' = Tail(toDongle)
      PROVE  \A op : Has(toDongle, op) <=> Head(toDongle).op = op \/ Has(toDongle', op)
  BY <1>2, CommandTaken DEF GTypeOK, TypeOK
<1>3. CASE DongleScan
  <2>1. toDongle # <<>> /\ toDongle' = Tail(toDongle)
    BY <1>3 DEF DongleScan, Command
  <2>2. Head(toDongle).op # "PROV_SCAN_STOP" /\ ~Has(toDongle', "PROV_SCAN_STOP")
    BY <1>2, <2>1 DEF ScanOn
  <2>3. scanning'
    BY <1>3, <2>2 DEF DongleScan, Command
  <2>. QED  BY <2>2, <2>3 DEF ScanOn
<1>4. CASE /\ toDongle # <<>> /\ toDongle' = Tail(toDongle) /\ UNCHANGED scanning
           /\ Head(toDongle).op
                \notin HandleOps \cup {"DFU_JUMP_TO_BOOTLOADER", "PROV_SCAN_STOP"}
  BY <1>2, <1>4 DEF ScanOn
<1>. QED  BY <1>1, <1>3, <1>4 DEF TakesNoHandle

(* Such a step leaves the handles as they are.                                 *)
LEMMA OutsideHand ==
  ASSUME GTypeOK, "DFU_JUMP_TO_BOOTLOADER" \in ScanOpcodes, Process, HandlesOK, Outside,
         UNCHANGED <<devkeys, addrs, nodeAddr>>,
         link'.phase = "complete" <=> link.phase = "complete",
         ReportsNoHandle, TakesNoHandle
  PROVE  HandlesOK'
<1>. USE DEF GTypeOK
<1>1. /\ UNCHANGED <<devkey_handle, dst_addr_handle, dev_addr, rpc, job, state, cpc>>
      /\ sound' => sound
  BY OutsideFrame, OutsideTakes DEF HostFrame, handles, receiver, cli
<1>2. Live' => Live
  BY <1>1 DEF Live
<1>3. Reached' = Reached /\ (Storing' <=> Storing) /\ (InHand' <=> InHand)
  BY <1>1 DEF Reached, Storing, InHand
<1>4. /\ \A e \in Range(toHost') : e \in Range(toHost) \/ e.op \notin HandleOps
      /\ \A op \in HandleOps \cup {"COMPLETE"} : Has(toHost', op) <=> Has(toHost, op)
  <2>1. CASE UNCHANGED toHost
    BY <2>1
  <2>2. ASSUME NEW e \in Events, Answer(<<e>>), e.op \notin HandleOps \cup {"COMPLETE"}
        PROVE  /\ \A x \in Range(toHost') : x \in Range(toHost) \/ x.op \notin HandleOps
               /\ \A op \in HandleOps \cup {"COMPLETE"} : Has(toHost', op) <=> Has(toHost, op)
    BY <2>2, EventsReported DEF TypeOK
  <2>. QED  BY <2>1, <2>2 DEF ReportsNoHandle
<1>5. Range(toDongle') \subseteq Range(toDongle)
      /\ \A op \in HandleOps : Has(toDongle', op) <=> Has(toDongle, op)
  <2>1. CASE UNCHANGED toDongle
    BY <2>1
  <2>2. CASE toDongle # <<>> /\ toDongle' = Tail(toDongle) /\ Head(toDongle).op \notin HandleOps
    BY <2>2, CommandTaken DEF TypeOK
  <2>3. DongleScan => toDongle # <<>> /\ toDongle' = Tail(toDongle) /\ Head(toDongle).op \notin HandleOps
    BY DEF DongleScan, Command, HandleOps
  <2>. QED  BY <2>1, <2>2, <2>3 DEF TakesNoHandle
<1>6. \A op \in HandleOps : OnWay(op)' <=> OnWay(op)
  BY <1>1, <1>4, <1>5 DEF OnWay
<1>7. CompleteComing' <=> CompleteComing
  BY <1>3, <1>4 DEF CompleteComing
<1>8. ScanOn => ScanOn'
  BY ScanKept
<1>. QED
  BY <1>1, <1>2, <1>3, <1>4, <1>5, <1>6, <1>7, <1>8, HandFrameKeeps DEF HandFrame

(* A fault other than a broken link ends what the invariant is about.          *)
LEMMA FaultHand ==
  ASSUME NEW kind, Fault(kind), kind # "drop" PROVE HandlesOK' /\ ~sound'
<1>1. ~sound'
  BY Zenon DEF Fault
<1>. QED  BY <1>1 DEF HandlesOK, Live

(* Most of what the dongle and the nodes do is such a step.                    *)
LEMMA QuietOutsideHand ==
  ASSUME GTypeOK, "DFU_JUMP_TO_BOOTLOADER" \in ScanOpcodes, Process, HandlesOK, Outside,
         \/ DongleScan \/ DongleProvision \/ DongleOobUse \/ DongleEcdhSecret
         \/ DongleLocalUnicastSet \/ DongleSubnetAdd \/ DongleAppKeyAdd \/ DonglePacketSend
         \/ DongleTxComplete \/ Beacon \/ NodeAnswers \/ Loss \/ WriteFails
         \/ (DongleAuthData /\ link.phase # "secret")
  PROVE  HandlesOK'
<1>. USE DEF GTypeOK
<1>1. CASE Loss \/ WriteFails
  BY <1>1, FaultHand DEF Loss, WriteFails
<1>2. CASE DongleScan \/ DongleTxComplete \/ Beacon \/ NodeAnswers
  <2>1. UNCHANGED <<devkeys, addrs, nodeAddr, link>> /\ TakesNoHandle
    BY <1>2 DEF DongleScan, DongleTxComplete, Beacon, NodeAnswers, TakesNoHandle,
                world, dongle, nodes
  <2>2. ReportsNoHandle
    <3>1. ~DongleAuthData /\ ~DongleDevkeyAdd /\ ~DongleAddrPublicationAdd
          /\ ~DongleSubnetAdd
      <4>1. CASE DongleScan
        BY <4>1 DEF DongleScan, DongleAuthData, DongleDevkeyAdd, DongleAddrPublicationAdd,
                    DongleSubnetAdd, LinkStep, Command
      <4>2. toDongle # <<>> => Tail(toDongle) # toDongle
        BY DEF TypeOK
      <4>3. CASE UNCHANGED toDongle
        BY <4>2, <4>3 DEF DongleAuthData, DongleDevkeyAdd, DongleAddrPublicationAdd,
                    DongleSubnetAdd, LinkStep, Command
      <4>. QED  BY <1>2, <4>1, <4>3 DEF DongleTxComplete, Beacon, NodeAnswers
    <3>. QED  BY <3>1, OutsideReports DEF ReportsNoHandle
  <2>. QED  BY <2>1, <2>2, OutsideHand
<1>3. CASE \/ DongleProvision \/ DongleOobUse \/ DongleEcdhSecret
           \/ DongleLocalUnicastSet \/ DongleSubnetAdd \/ DongleAppKeyAdd \/ DonglePacketSend
  <2>1. UNCHANGED <<devkeys, addrs, nodeAddr, scanning>>
    BY <1>3 DEF DongleProvision, DongleOobUse, DongleEcdhSecret, DongleLocalUnicastSet,
           DongleSubnetAdd, DongleAppKeyAdd, DonglePacketSend, LinkStep, world, dongle, nodes
  <2>2. link'.phase = "complete" <=> link.phase = "complete"
    <3>1. CASE DongleProvision
      BY <3>1 DEF DongleProvision
    <3>2. CASE DongleOobUse \/ DongleEcdhSecret
      BY <3>2 DEF DongleOobUse, DongleEcdhSecret, LinkStep, WorldTypeOK
    <3>3. CASE \/ DongleLocalUnicastSet \/ DongleSubnetAdd \/ DongleAppKeyAdd \/ DonglePacketSend
      BY <3>3 DEF DongleLocalUnicastSet, DongleSubnetAdd, DongleAppKeyAdd, DonglePacketSend,
                  world, dongle
    <3>. QED  BY <1>3, <3>1, <3>2, <3>3
  <2>3. /\ toDongle # <<>> /\ toDongle' = Tail(toDongle)
        /\ Head(toDongle).op \in {"PROV_PROVISION", "PROV_OOB_USE", "PROV_ECDH_SECRET",
             "ADDR_LOCAL_UNICAST_SET", "SUBNET_ADD", "APPKEY_ADD", "PACKET_SEND"}
    BY <1>3 DEF DongleProvision, DongleOobUse, DongleEcdhSecret, DongleLocalUnicastSet,
           DongleSubnetAdd, DongleAppKeyAdd, DonglePacketSend, LinkStep, Command
  <2>4. TakesNoHandle
    BY <2>1, <2>3 DEF TakesNoHandle, HandleOps
  <2>5. ReportsNoHandle
    <3>1. ~DongleAuthData /\ ~DongleDevkeyAdd /\ ~DongleAddrPublicationAdd
      BY <2>3 DEF DongleAuthData, DongleDevkeyAdd, DongleAddrPublicationAdd, LinkStep, Command
    <3>. QED  BY <3>1, OutsideReports DEF ReportsNoHandle
  <2>. QED  BY <2>1, <2>2, <2>4, <2>5, OutsideHand
<1>4. CASE DongleAuthData /\ link.phase # "secret"
  <2>1. /\ UNCHANGED <<devkeys, addrs, nodeAddr, scanning, link, toHost>>
        /\ toDongle # <<>> /\ toDongle' = Tail(toDongle) /\ Head(toDongle).op = "PROV_AUTH_DATA"
    BY <1>4 DEF DongleAuthData, LinkStep, Command
  <2>2. TakesNoHandle /\ ReportsNoHandle
    BY <2>1 DEF TakesNoHandle, ReportsNoHandle, HandleOps
  <2>. QED  BY <2>1, <2>2, OutsideHand
<1>. QED  BY <1>1, <1>2, <1>3, <1>4

(* What is appended leaves the rest as it is.                                  *)
LEMMA Appended ==
  ASSUME NEW S, NEW q \in Seq(S), NEW x, NEW r, r = q \/ r = Append(q, x)
  PROVE  /\ Len(q) \in Nat /\ Len(r) \in Nat /\ Len(q) <= Len(r)
         /\ \A i \in 1 .. Len(q) : r[i] = q[i]
<1>1. CASE r = q
  BY <1>1
<1>2. CASE r = Append(q, x)
  BY <1>2
<1>. QED  BY <1>1, <1>2

(* The keys that the dongle knows stay what they are.                          *)
LEMMA KnownKept ==
  ASSUME GTypeOK, UNCHANGED devkeys \/ \E k : devkeys' = Append(devkeys, k)
  PROVE  \A k : KeyKnown(k) => KeyKnown(k)' /\ KeyAt(k)' = KeyAt(k)
<1>. USE DEF GTypeOK, WorldTypeOK
<1>1. PICK key : devkeys' = devkeys \/ devkeys' = Append(devkeys, key)
  OBVIOUS
<1>2. /\ Len(devkeys) \in Nat /\ Len(devkeys') \in Nat /\ Len(devkeys) <= Len(devkeys')
      /\ \A i \in 1 .. Len(devkeys) : devkeys'[i] = devkeys[i]
  BY <1>1, Appended
<1>3. ASSUME NEW k, NEW i, i = k - DevkeyBase, KeyKnown(k)
      PROVE  KeyKnown(k)' /\ KeyAt(k)' = KeyAt(k)
  <2>1. i \in 0 .. Len(devkeys) - 1 /\ KeyAt(k) = devkeys[i + 1] /\ KeyAt(k)' = devkeys'[i + 1]
    BY <1>3 DEF KeyKnown, KeyAt
  <2>2. i \in 0 .. Len(devkeys') - 1 /\ i + 1 \in 1 .. Len(devkeys)
    BY <1>2, <2>1
  <2>. QED  BY <1>2, <1>3, <2>1, <2>2 DEF KeyKnown
<1>. QED  BY <1>3

(* More keys and addresses at the dongle leave the known ones as they are.     *)
LEMMA PairsGrow ==
  ASSUME GTypeOK, UNCHANGED <<nodeAddr, dev_addr>>,
         UNCHANGED devkeys \/ \E k : devkeys' = Append(devkeys, k),
         UNCHANGED addrs \/ \E a : addrs' = Append(addrs, a)
  PROVE  /\ \A k, d : Paired(k, d) => Paired(k, d)'
         /\ \A k : GoodKey(k) => GoodKey(k)'
         /\ \A d : GoodDst(d) => GoodDst(d)'
         /\ \A c : GoodCommand(c) => GoodCommand(c)'
         /\ \A e : GoodResponse(e) => GoodResponse(e)'
<1>. USE DEF GTypeOK, WorldTypeOK
<1>1. \A k : KeyKnown(k) => KeyKnown(k)' /\ KeyAt(k)' = KeyAt(k)
  BY KnownKept
<1>2. \A d : DstKnown(d) => DstKnown(d)' /\ DstAt(d)' = DstAt(d)
  <2>1. PICK a : addrs' = addrs \/ addrs' = Append(addrs, a)
    OBVIOUS
  <2>2. /\ Len(addrs) \in Nat /\ Len(addrs') \in Nat /\ Len(addrs) <= Len(addrs')
        /\ \A i \in 1 .. Len(addrs) : addrs'[i] = addrs[i]
    BY <2>1, Appended
  <2>. QED  BY <2>2, SMTT(30) DEF DstKnown, DstAt
<1>3. \A k, d : Paired(k, d) => Paired(k, d)'
  BY <1>1, <1>2 DEF Paired
<1>4. (\A k : GoodKey(k) => GoodKey(k)') /\ (\A d : GoodDst(d) => GoodDst(d)')
  BY <1>1, <1>2 DEF GoodKey, GoodDst
<1>5. \A c : GoodCommand(c) => GoodCommand(c)'
  BY <1>3 DEF GoodCommand
<1>6. \A e : GoodResponse(e) => GoodResponse(e)'
  BY <1>4 DEF GoodResponse
<1>. QED  BY <1>3, <1>4, <1>5, <1>6

(* A device joins: nothing of a session before is on its way any more.         *)
LEMMA JoinHand ==
  ASSUME GTypeOK, InTurn, HandlesOK, HostFrame, DongleAuthData, link.phase = "secret"
  PROVE  HandlesOK'
<1>. USE DEF GTypeOK
<1>. DEFINE e == Event("COMPLETE", TRUE, link.addr, link.dev)
<1>1. /\ toDongle # <<>> /\ toDongle' = Tail(toDongle) /\ Head(toDongle).op = "PROV_AUTH_DATA"
      /\ Answer(<<e>>) /\ link'.phase = "complete" /\ UNCHANGED <<devkeys, addrs, sound>>
  BY DEF DongleAuthData, LinkStep, Command, luck, WorldTypeOK
<1>2. e \in Events /\ e.op = "COMPLETE"
  BY ReportTypes DEF WorldTypeOK, EventOps, Reports, Event
<1>. HIDE DEF e
<1>3. UNCHANGED <<devkey_handle, dst_addr_handle, dev_addr, rpc, job, state, cpc>>
  BY DEF HostFrame, handles, receiver, cli
<1>. SUFFICES ASSUME Live', Roomy' PROVE InPlace'
  BY DEF HandlesOK
<1>4. Live /\ InPlace
  BY <1>1, <1>3 DEF Live, HandlesOK, Roomy
<1>5. /\ Range(toHost') = Range(toHost) \cup {e}
      /\ \A op : Has(toHost', op) <=> Has(toHost, op) \/ e.op = op
  BY <1>1, <1>2, EventsReported DEF TypeOK
<1>6. /\ Range(toDongle) = {Head(toDongle)} \cup Range(toDongle')
      /\ \A op : Has(toDongle, op) <=> Head(toDongle).op = op \/ Has(toDongle', op)
  BY <1>1, CommandTaken DEF TypeOK
<1>7. Reached = AUTH /\ Waiting /\ \A op \in AfterLink : ~Has(toDongle, op)
  BY <1>1, <1>6 DEF InTurn, LinkInv, LinkInTurn, LinkAt, NoLinkCommand, LinkCommands
<1>8. ~Storing /\ ~Storing' /\ Reached' = Reached
  BY <1>3, <1>7 DEF Storing, Reached
<1>9. \A op \in HandleOps : ~OnWay(op) /\ ~OnWay(op)'
  <2>1. \A op \in HandleOps : ~OnWay(op)
    BY <1>4, <1>8 DEF InPlace
  <2>2. "COMPLETE" \notin HandleOps
    BY DEF HandleOps
  <2>. QED  BY <1>2, <1>3, <1>5, <1>6, <2>1, <2>2 DEF OnWay
<1>10. \A c \in Range(toDongle') : GoodCommand(c)'
  <2>1. \A c \in Range(toDongle') : c.op \notin AfterLink
    BY <1>6, <1>7 DEF Has
  <2>. QED  BY <2>1 DEF GoodCommand, AfterLink
<1>11. \A x \in Range(toHost') : GoodResponse(x)'
  <2>1. \A x \in Range(toHost') : x.op \notin HandleOps
    BY <1>9 DEF OnWay, Has
  <2>. QED  BY <2>1 DEF GoodResponse, HandleOps
<1>12. CompleteComing'
  BY <1>2, <1>5 DEF CompleteComing
<1>. QED
  BY <1>1, <1>3, <1>7, <1>8, <1>9, <1>10, <1>11, <1>12 DEF InPlace, Waiting

(* A handle that the dongle gives is told to the process.                      *)
LEMMA StoredHand ==
  ASSUME InPlace, NEW op \in HandleOps, NEW e, e.op = op, GoodResponse(e)',
         UNCHANGED <<rpc, job, devkey_handle, dst_addr_handle, link>>,
         Range(toDongle') \subseteq Range(toDongle), Range(toHost') = Range(toHost) \cup {e},
         Storing, Storing', CompleteComing' <=> CompleteComing,
         OnWay(op)', \A o \in HandleOps : o # op => (OnWay(o)' <=> OnWay(o)),
         \A k : GoodKey(k) => GoodKey(k)', \A d : GoodDst(d) => GoodDst(d)',
         \A c : GoodCommand(c) => GoodCommand(c)',
         \A x : GoodResponse(x) => GoodResponse(x)'
  PROVE  InPlace'
<1>. USE DEF InPlace
<1>1. (CompleteComing' => link'.phase = "complete") /\ \A o \in HandleOps : OnWay(o)' => Storing'
  OBVIOUS
<1>2. \A c \in Range(toDongle') : GoodCommand(c)'
  OBVIOUS
<1>3. \A x \in Range(toHost') : GoodResponse(x)'
  OBVIOUS
<1>4. rpc' = "store" => GoodResponse(job.ev)'
  <2>1. GoodResponse(job.ev) => GoodResponse(job.ev)'
    BY DEF GoodResponse
  <2>. QED  BY <2>1
<1>5. /\ OnWay("DEVKEY_ADD")' \/ GoodKey(devkey_handle)'
      /\ OnWay("ADDR_PUBLICATION_ADD")' \/ GoodDst(dst_addr_handle)'
  <2>1. GoodKey(devkey_handle) => GoodKey(devkey_handle)'
    BY DEF GoodKey
  <2>2. GoodDst(dst_addr_handle) => GoodDst(dst_addr_handle)'
    BY DEF GoodDst
  <2>3. "DEVKEY_ADD" \in HandleOps /\ "ADDR_PUBLICATION_ADD" \in HandleOps
    BY DEF HandleOps
  <2>. QED  BY <2>1, <2>2, <2>3
<1>. QED  BY <1>1, <1>2, <1>3, <1>4, <1>5

(* The dongle has room for the key of the device that has joined, and for      *)
(* which it is asked with the subnet it has given out.                         *)
LEMMA KeyGiven ==
  ASSUME GTypeOK, Installed, HandlesOK, HostFrame, DongleDevkeyAdd, Live', Roomy'
  PROVE  /\ Live /\ Roomy /\ InPlace /\ Storing /\ UNCHANGED luck
         /\ Head(toDongle) \in Range(toDongle) /\ GoodCommand(Head(toDongle))
         /\ \E k, x, e :
              /\ x.owner = Head(toDongle).owner /\ x.dev = Head(toDongle).dev
              /\ devkeys' = Append(devkeys, x) /\ KeyKnown(k)' /\ KeyAt(k)' = x
              /\ e \in Events /\ e.op = "DEVKEY_ADD" /\ e.ok /\ e.val = k /\ Answer(<<e>>)
<1>. USE DEF GTypeOK
<1>. DEFINE cmd == Head(toDongle)
<1>1. toDongle # <<>> /\ toDongle' = Tail(toDongle) /\ cmd.op = "DEVKEY_ADD" /\ UNCHANGED addrs
  BY DEF DongleDevkeyAdd, Command
<1>2. UNCHANGED cpc
  BY DEF HostFrame, cli
<1>3. UNCHANGED luck
  BY FaultHand DEF DongleDevkeyAdd, Live
<1>4. /\ cmd \in Range(toDongle) /\ cmd \in Commands
      /\ \A op : Has(toDongle, op) <=> cmd.op = op \/ Has(toDongle', op)
  BY <1>1, CommandTaken DEF TypeOK
<1>5. PICK k : k = DevkeyBase + Len(devkeys)
  OBVIOUS
<1>6. k \in U16Int /\ U16 \in Nat /\ DevkeyBase \in Nat /\ Len(devkeys) \in Nat
  <2>1. DevkeyBase \in Nat /\ U16 \in Nat /\ Len(devkeys) \in Nat
    BY GatewayAssumption, HostAssumption DEF GatewayAssumption, HostAssumption, U16Int, WorldTypeOK
  <2>2. UNCHANGED devkeys \/ \E x : devkeys' = Append(devkeys, x)
    BY DEF DongleDevkeyAdd
  <2>3. Len(devkeys) <= Len(devkeys') /\ Len(devkeys') \in Nat
    BY <2>2, Appended DEF WorldTypeOK
  <2>. QED  BY <1>5, <2>1, <2>3 DEF Roomy, U16Int
<1>7. Live /\ Roomy /\ InPlace
  <2>1. Live
    BY <1>2, <1>3 DEF Live, luck
  <2>2. Roomy
    BY <1>1, <1>5, <1>6 DEF Roomy, U16Int
  <2>. QED  BY <2>1, <2>2 DEF HandlesOK
<1>8. Storing /\ GoodCommand(cmd)
  <2>1. OnWay("DEVKEY_ADD") /\ "DEVKEY_ADD" \in HandleOps
    BY <1>1, <1>4 DEF OnWay, HandleOps
  <2>. QED  BY <1>4, <1>7, <2>1 DEF InPlace
<1>9. PICK x, e : /\ x = [owner |-> cmd.owner, dev |-> cmd.dev]
                  /\ e = CmdRsp("DEVKEY_ADD", TRUE, k)
  OBVIOUS
<1>10. devkeys' = Append(devkeys, x) /\ Answer(<<e>>)
  <2>1. subnet /\ cmd.subnet = SubnetHandle
    BY <1>1, <1>8 DEF Installed, GoodCommand
  <2>2. ~Fault("reject")
    BY FaultHand DEF Live
  <2>. QED  BY <1>5, <1>6, <1>9, <2>1, <2>2 DEF DongleDevkeyAdd
<1>11. e \in Events /\ e.op = "DEVKEY_ADD" /\ e.ok /\ e.val = k
  <2>1. e \in Events /\ e.op = "DEVKEY_ADD"
    BY <1>6, <1>9, ReportTypes DEF Responses
  <2>. QED  BY <1>9, <2>1 DEF CmdRsp, Event
<1>12. KeyKnown(k)' /\ KeyAt(k)' = x
  <2>1. Len(devkeys') = Len(devkeys) + 1 /\ devkeys'[Len(devkeys) + 1] = x
    <3>1. devkeys \in Seq([owner : U16Int, dev : Devices \cup {NoDevice}])
      BY DEF WorldTypeOK
    <3>. QED  BY <1>10, <3>1
  <2>2. k - DevkeyBase = Len(devkeys) /\ k - DevkeyBase + 1 = Len(devkeys) + 1
    BY <1>5, <1>6
  <2>. QED  BY <1>6, <2>1, <2>2 DEF KeyKnown, KeyAt
<1>13. x.owner = cmd.owner /\ x.dev = cmd.dev
  BY <1>9
<1>. HIDE DEF cmd
<1>14. /\ cmd \in Range(toDongle) /\ GoodCommand(cmd)
       /\ \E k1, x1, e1 :
            /\ x1.owner = cmd.owner /\ x1.dev = cmd.dev
            /\ devkeys' = Append(devkeys, x1) /\ KeyKnown(k1)' /\ KeyAt(k1)' = x1
            /\ e1 \in Events /\ e1.op = "DEVKEY_ADD" /\ e1.ok /\ e1.val = k1 /\ Answer(<<e1>>)
  BY <1>4, <1>8, <1>10, <1>11, <1>12, <1>13
<1>. QED  BY <1>3, <1>7, <1>8, <1>14 DEF cmd

(* The dongle gives a handle to the key of the device that has joined.         *)
LEMMA KeyHand ==
  ASSUME GTypeOK, InTurn, AddrsOK, Installed, HandlesOK, HostFrame, DongleDevkeyAdd
  PROVE  HandlesOK'
<1>. USE DEF GTypeOK
<1>. DEFINE cmd == Head(toDongle)
<1>. SUFFICES ASSUME Live', Roomy' PROVE InPlace'
  BY DEF HandlesOK
<1>1. /\ toDongle # <<>> /\ toDongle' = Tail(toDongle) /\ cmd.op = "DEVKEY_ADD"
      /\ UNCHANGED <<scanning, subnet, link, addrs, nodeAddr>>
  BY DEF DongleDevkeyAdd, Command, install, nodes
<1>2. UNCHANGED <<devkey_handle, dst_addr_handle, dev_addr, rpc, job, state, cpc>>
  BY DEF HostFrame, handles, receiver, cli
<1>3. Live /\ Roomy /\ InPlace /\ Storing /\ cmd \in Range(toDongle) /\ GoodCommand(cmd)
  BY KeyGiven
<1>4. PICK k, x, e :
        /\ x.owner = cmd.owner /\ x.dev = cmd.dev
        /\ devkeys' = Append(devkeys, x) /\ KeyKnown(k)' /\ KeyAt(k)' = x
        /\ e \in Events /\ e.op = "DEVKEY_ADD" /\ e.ok /\ e.val = k /\ Answer(<<e>>)
  BY KeyGiven
<1>5. /\ Range(toDongle') \subseteq Range(toDongle)
      /\ \A op : Has(toDongle, op) <=> cmd.op = op \/ Has(toDongle', op)
  BY <1>1, CommandTaken DEF TypeOK
<1>6. GoodKey(k)'
  <2>1. cmd.owner = dev_addr /\ nodeAddr[cmd.dev] = dev_addr
    BY <1>1, <1>3 DEF GoodCommand, AddrsOK
  <2>2. x.owner = dev_addr /\ nodeAddr[x.dev] = dev_addr
    BY <1>4, <2>1
  <2>. QED  BY <1>1, <1>2, <1>4, <2>2 DEF GoodKey
<1>. HIDE DEF cmd
<1>7. /\ Range(toHost') = Range(toHost) \cup {e}
      /\ \A op : Has(toHost', op) <=> Has(toHost, op) \/ e.op = op
  BY <1>4, EventsReported DEF TypeOK
<1>8. Reached' = Reached /\ Storing' /\ (CompleteComing' <=> CompleteComing)
  BY <1>1, <1>2, <1>3, <1>4, <1>7 DEF Reached, Storing, CompleteComing, InHand
<1>9. /\ OnWay("DEVKEY_ADD")'
      /\ OnWay("ADDR_PUBLICATION_ADD")' <=> OnWay("ADDR_PUBLICATION_ADD")
  BY <1>1, <1>2, <1>4, <1>5, <1>7 DEF OnWay
<1>10. /\ \A h : GoodKey(h) => GoodKey(h)'
       /\ \A d : GoodDst(d) => GoodDst(d)'
       /\ \A c : GoodCommand(c) => GoodCommand(c)'
       /\ \A r : GoodResponse(r) => GoodResponse(r)'
  <2>1. UNCHANGED devkeys \/ \E y : devkeys' = Append(devkeys, y)
    BY <1>4
  <2>. QED  BY <1>1, <1>2, <2>1, PairsGrow
<1>11. GoodResponse(e)'
  BY <1>4, <1>6 DEF GoodResponse
<1>12. /\ "DEVKEY_ADD" \in HandleOps
       /\ \A o \in HandleOps : o # "DEVKEY_ADD" => (OnWay(o)' <=> OnWay(o))
  BY <1>9 DEF HandleOps
<1>. QED
  BY <1>1, <1>2, <1>3, <1>4, <1>5, <1>7, <1>8, <1>9, <1>10, <1>11, <1>12, StoredHand

(* ... and one to its address.                                                 *)
LEMMA AddrHand ==
  ASSUME GTypeOK, HandlesOK, HostFrame, DongleAddrPublicationAdd
  PROVE  HandlesOK'
<1>. USE DEF GTypeOK
<1>. DEFINE cmd == Head(toDongle)
<1>. SUFFICES ASSUME Live', Roomy' PROVE InPlace'
  BY DEF HandlesOK
<1>1. /\ toDongle # <<>> /\ toDongle' = Tail(toDongle) /\ cmd.op = "ADDR_PUBLICATION_ADD"
      /\ UNCHANGED <<scanning, link, devkeys, nodeAddr>>
  BY DEF DongleAddrPublicationAdd, Command, nodes
<1>2. UNCHANGED <<devkey_handle, dst_addr_handle, dev_addr, rpc, job, state, cpc>>
  BY DEF HostFrame, handles, receiver, cli
<1>3. UNCHANGED luck
  BY FaultHand DEF DongleAddrPublicationAdd, Live
<1>4. /\ cmd \in Range(toDongle) /\ cmd \in Commands
      /\ Range(toDongle') \subseteq Range(toDongle)
      /\ \A op : Has(toDongle, op) <=> cmd.op = op \/ Has(toDongle', op)
  BY <1>1, CommandTaken DEF TypeOK
<1>5. PICK k : k = Len(addrs)
  OBVIOUS
<1>6. k \in U16Int /\ U16 \in Nat /\ Len(addrs) \in Nat
  <2>1. U16 \in Nat /\ Len(addrs) \in Nat
    BY HostAssumption DEF HostAssumption, U16Int, WorldTypeOK
  <2>2. PICK x : addrs' = addrs \/ addrs' = Append(addrs, x)
    BY DEF DongleAddrPublicationAdd
  <2>3. Len(addrs) <= Len(addrs') /\ Len(addrs') \in Nat
    BY <2>2, Appended DEF WorldTypeOK
  <2>. QED  BY <1>5, <2>1, <2>3 DEF Roomy, U16Int
<1>7. Live /\ Roomy /\ InPlace
  <2>1. Live
    BY <1>2, <1>3 DEF Live, luck
  <2>2. Roomy
    BY <1>1, <1>5, <1>6 DEF Roomy, U16Int
  <2>. QED  BY <2>1, <2>2 DEF HandlesOK
<1>8. cmd.addr = dev_addr /\ Storing
  <2>1. OnWay("ADDR_PUBLICATION_ADD") /\ "ADDR_PUBLICATION_ADD" \in HandleOps
    BY <1>1, <1>4 DEF OnWay, HandleOps
  <2>2. GoodCommand(cmd) /\ Storing
    BY <1>4, <1>7, <2>1 DEF InPlace
  <2>. QED  BY <1>1, <2>2 DEF GoodCommand
<1>9. PICK e : e = CmdRsp("ADDR_PUBLICATION_ADD", TRUE, k)
  OBVIOUS
<1>10. addrs' = Append(addrs, dev_addr) /\ Answer(<<e>>)
  <2>1. ~Fault("reject")
    BY FaultHand DEF Live
  <2>. QED  BY <1>5, <1>6, <1>8, <1>9, <2>1 DEF DongleAddrPublicationAdd
<1>11. e \in Events /\ e.op = "ADDR_PUBLICATION_ADD" /\ e.ok /\ e.val = k
  <2>1. e \in Events /\ e.op = "ADDR_PUBLICATION_ADD"
    BY <1>6, <1>9, ReportTypes DEF Responses
  <2>. QED  BY <1>9, <2>1 DEF CmdRsp, Event
<1>12. GoodDst(k)'
  <2>1. addrs \in Seq(U16Int) /\ dev_addr \in U16Int
    BY DEF WorldTypeOK, TypeOK
  <2>2. Len(addrs') = Len(addrs) + 1 /\ addrs'[Len(addrs) + 1] = dev_addr
    BY <1>10, <2>1
  <2>3. DstKnown(k)' /\ DstAt(k)' = dev_addr
    BY <1>5, <1>6, <2>2 DEF DstKnown, DstAt
  <2>. QED  BY <1>2, <2>3 DEF GoodDst
<1>. HIDE DEF cmd
<1>13. /\ Range(toHost') = Range(toHost) \cup {e}
       /\ \A op : Has(toHost', op) <=> Has(toHost, op) \/ e.op = op
  BY <1>10, <1>11, EventsReported DEF TypeOK
<1>14. Reached' = Reached /\ Storing' /\ (CompleteComing' <=> CompleteComing)
  BY <1>1, <1>2, <1>8, <1>11, <1>13 DEF Reached, Storing, CompleteComing, InHand
<1>15. /\ OnWay("ADDR_PUBLICATION_ADD")'
       /\ OnWay("DEVKEY_ADD")' <=> OnWay("DEVKEY_ADD")
  BY <1>1, <1>2, <1>4, <1>11, <1>13 DEF OnWay
<1>16. /\ \A x : GoodKey(x) => GoodKey(x)'
       /\ \A c : GoodCommand(c) => GoodCommand(c)'
       /\ \A x : GoodResponse(x) => GoodResponse(x)'
  <2>1. UNCHANGED addrs \/ \E x : addrs' = Append(addrs, x)
    BY <1>10
  <2>. QED  BY <1>1, <1>2, <2>1, PairsGrow
<1>17. GoodResponse(e)'
  BY <1>11, <1>12 DEF GoodResponse
<1>18. \A d : GoodDst(d) => GoodDst(d)'
  <2>1. UNCHANGED addrs \/ \E x : addrs' = Append(addrs, x)
    BY <1>10
  <2>. QED  BY <1>1, <1>2, <2>1, PairsGrow
<1>19. /\ "ADDR_PUBLICATION_ADD" \in HandleOps
       /\ \A o \in HandleOps : o # "ADDR_PUBLICATION_ADD" => (OnWay(o)' <=> OnWay(o))
  BY <1>15 DEF HandleOps
<1>. QED
  BY <1>1, <1>2, <1>4, <1>7, <1>8, <1>11, <1>13, <1>14, <1>15, <1>16, <1>17, <1>18, <1>19,
     StoredHand

(* Nothing of a session is on its way after a step: the handles are in place   *)
(* if they are of one node, or if a scan is on.                                *)
LEMMA IdleInPlace ==
  ASSUME rpc' = "idle", link'.phase # "complete",
         \A e \in Range(toHost') : e.op \notin HandleOps \cup {"COMPLETE"},
         \A c \in Range(toDongle') : c.op \notin HandleOps /\ GoodCommand(c)',
         \/ Paired(devkey_handle, dst_addr_handle)'
         \/ Reached' < DEVKEY_ADDRPUBADD /\ ScanOn'
  PROVE  InPlace'
<1>1. ~CompleteComing' /\ \A op \in HandleOps : ~OnWay(op)'
  BY DEF CompleteComing, OnWay, InHand, Has
<1>2. ~Storing'
  BY DEF Storing
<1>3. \A e \in Range(toHost') : GoodResponse(e)'
  BY DEF GoodResponse, HandleOps
<1>. QED  BY <1>1, <1>2, <1>3 DEF InPlace

(* The link of a session closes: after the last handle was stored, so that the *)
(* two are of one node, or earlier, and the scan goes on.                      *)
LEMMA LinkClosedHand ==
  ASSUME GTypeOK, "DFU_JUMP_TO_BOOTLOADER" \in ScanOpcodes, InTurn, HandlesOK, LinkClosed
  PROVE  HandlesOK'
<1>. DEFINE e == Report("LINK_CLOSED")
<1>. USE DEF GTypeOK
<1>0. e \in Events /\ e.op = "LINK_CLOSED" /\ e.op \notin HandleOps \cup {"COMPLETE"}
  <2>1. e \in Events /\ e.op = "LINK_CLOSED"
    BY ReportTypes DEF Reports
  <2>. QED  BY <2>1 DEF HandleOps
<1>1. /\ UNCHANGED <<toDongle, scanning, devkeys, addrs, nodeAddr>>
      /\ UNCHANGED <<devkey_handle, dst_addr_handle, dev_addr, rpc, job, state, cpc>>
      /\ link'.phase = "none" /\ Answer(<<e>>)
  BY DEF LinkClosed, HostFrame, handles, receiver, cli, nodes, NoLink
<1>. HIDE DEF e
<1>2. CASE link.phase = "complete" /\ Fault("early")
  BY <1>2, FaultHand
<1>3. CASE link.phase \in {"invited", "oob", "secret"}
  <2>1. TakesNoHandle /\ ReportsNoHandle
    BY <1>0, <1>1 DEF TakesNoHandle, ReportsNoHandle
  <2>2. Outside /\ Process
    BY DEF Outside, InTurn
  <2>. QED  BY <1>1, <1>3, <2>1, <2>2, OutsideHand
<1>4. CASE link.phase = "complete" /\ Answered /\ UNCHANGED luck
  <2>. SUFFICES ASSUME Live', Roomy' PROVE InPlace'
    BY DEF HandlesOK
  <2>1. Live /\ Roomy /\ InPlace
    BY <1>1, <1>4 DEF Live, Roomy, luck, HandlesOK
  <2>2. /\ rpc = "idle" /\ Range(toHost) = {} /\ Range(toDongle) = {}
        /\ \A op : ~Has(toHost, op) /\ ~Has(toDongle, op)
    BY <1>4, ShortRange DEF Answered, Has
  <2>3. Storing
    BY <1>4, <2>2 DEF InTurn, LinkInv, CompleteInTurn, Storing, Waiting
  <2>4. GoodKey(devkey_handle) /\ GoodDst(dst_addr_handle)
    BY <2>1, <2>2, <2>3 DEF InPlace, OnWay
  <2>5. Paired(devkey_handle, dst_addr_handle)
    BY <2>4 DEF GoodKey, GoodDst, Paired
  <2>6. Paired(devkey_handle, dst_addr_handle)'
    BY <1>1, <2>5, PairsKept
  <2>7. Range(toHost') = {e}
    BY <1>0, <1>1, <2>2, EventsReported DEF TypeOK
  <2>. QED  BY <1>0, <1>1, <2>2, <2>6, <2>7, IdleInPlace
<1>. QED  BY <1>2, <1>3, <1>4 DEF LinkClosed

(* What the dongle and the nodes do keeps the handles in place.                *)
LEMMA OutsideKeepsHandles ==
  ASSUME GTypeOK, "DFU_JUMP_TO_BOOTLOADER" \in ScanOpcodes, InTurn, AddrsOK, Installed,
         HandlesOK, Outside
  PROVE  HandlesOK'
<1>0. Process
  BY DEF InTurn
<1>1. CASE \/ DongleScan \/ DongleProvision \/ DongleOobUse \/ DongleEcdhSecret
           \/ DongleLocalUnicastSet \/ DongleSubnetAdd \/ DongleAppKeyAdd \/ DonglePacketSend
           \/ DongleTxComplete \/ Beacon \/ NodeAnswers \/ Loss \/ WriteFails
           \/ (DongleAuthData /\ link.phase # "secret")
  BY <1>0, <1>1, QuietOutsideHand
<1>2. CASE DongleAuthData /\ link.phase = "secret"
  BY <1>0, <1>2, OutsideFrame, JoinHand
<1>3. CASE DongleDevkeyAdd
  BY <1>0, <1>3, OutsideFrame, KeyHand
<1>4. CASE DongleAddrPublicationAdd
  BY <1>0, <1>4, OutsideFrame, AddrHand
<1>5. CASE LinkClosed
  BY <1>5, LinkClosedHand
<1>. QED  BY <1>1, <1>2, <1>3, <1>4, <1>5 DEF Outside, DongleCommand

-------------------------------------------------------------------------------
(* The main thread writes a packet with the handles of one moment, and that is *)
(* a moment without a session.                                                 *)
LEMMA MainHand ==
  ASSUME GTypeOK, Process, KeysKeepUp, HandlesOK, PressKey \/ CliContinue, PressKey => Quiet,
         UNCHANGED <<dongle, nodes>>, cpc' # "new" => (sound' => sound)
  PROVE  HandlesOK'
<1>. USE DEF GTypeOK
<1>1. rpc = "idle" /\ toHost = <<>> /\ link.phase = "none" /\ ~scanning
      /\ (cpc # "new" => toDongle = <<>>)
  BY DEF Process, KeyAlone, Quiet, NoLink, PressKey, CliContinue, PressScanStart,
      PressScanStop, PressOnOff, PressComposition, PressNodeReset, PressPacket, ResetState,
      FillDestination, WritePacket, Press
<1>2. /\ UNCHANGED <<devkey_handle, dst_addr_handle, dev_addr, rpc, toHost>>
      /\ UNCHANGED <<link, scanning, devkeys, addrs, nodeAddr>>
  BY MainWrites DEF handles, receiver, dongle, nodes
<1>3. /\ Range(toHost') = {} /\ Range(<<>>) = {} /\ \A op : ~Has(<<>>, op)
      /\ rpc' = "idle" /\ link'.phase # "complete"
  BY <1>1, <1>2, ShortRange DEF Has
<1>. SUFFICES ASSUME Live', Roomy' PROVE InPlace'
  BY DEF HandlesOK
<1>4. sound /\ cpc' # "new" /\ Roomy
  BY <1>2 DEF Live, Roomy
<1>5. CASE cpc = "new"
  <2>1. ResetState
    BY <1>5 DEF PressKey, CliContinue, PressScanStart, PressScanStop, PressOnOff,
       PressComposition, PressNodeReset, PressPacket, Press, FillDestination, WritePacket
  <2>2. toDongle' = <<Cmd("DFU_JUMP_TO_BOOTLOADER")>> /\ Reached' = STATE_NEW
    BY <1>1, <1>2, <1>4, <1>5, <2>1 DEF KeysKeepUp, ResetState, Reached
  <2>3. Cmd("DFU_JUMP_TO_BOOTLOADER").op = "DFU_JUMP_TO_BOOTLOADER"
    BY DEF Cmd
  <2>4. \A c \in Range(toDongle') : c.op = "DFU_JUMP_TO_BOOTLOADER"
    BY <2>2, <2>3, ShortRange
  <2>5. Has(toDongle', "DFU_JUMP_TO_BOOTLOADER") /\ ~Has(toDongle', "PROV_SCAN_STOP")
    BY <2>2, <2>3, ShortRange DEF Has
  <2>6. ScanOn'
    BY <2>5 DEF ScanOn
  <2>7. \A c \in Range(toDongle') : c.op \notin HandleOps /\ GoodCommand(c)'
    BY <2>4 DEF GoodCommand, HandleOps
  <2>. QED  BY <1>3, <2>2, <2>6, <2>7, IdleInPlace
<1>6. CASE cpc # "new"
  <2>1. InPlace /\ toDongle = <<>>
    BY <1>1, <1>4, <1>6 DEF Live, HandlesOK
  <2>2. ~CompleteComing /\ ~Storing /\ ~ScanOn
    BY <1>1, <1>3, <2>1 DEF CompleteComing, InHand, Storing, ScanOn
  <2>3. Paired(devkey_handle, dst_addr_handle)
    BY <2>1, <2>2 DEF InPlace
  <2>4. Paired(devkey_handle, dst_addr_handle)'
    BY <1>2, <2>3, PairsKept
  <2>5. \A c \in Range(toDongle') : c.op \notin HandleOps /\ GoodCommand(c)'
    <3>1. CASE UNCHANGED toDongle
      BY <1>3, <2>1, <3>1
    <3>2. ASSUME NEW c \in Commands, Write(<<c>>),
                 \/ c.op = "PROV_SCAN_STOP"
                 \/ c = packet /\ c.op = "PACKET_SEND" /\ cpc = "write"
          PROVE  \A x \in Range(toDongle') : x.op \notin HandleOps /\ GoodCommand(x)'
      <4>1. \A x \in Range(toDongle') : x = c
        BY <1>3, <2>1, <3>2, CommandWritten DEF TypeOK
      <4>2. c.op = "PACKET_SEND" /\ c.msg # "ONOFF_SET"
              => c.key = devkey_handle /\ c.dst = dst_addr_handle
        BY <3>2 DEF KeysKeepUp
      <4>3. \A k, d : Paired(k, d) => Paired(k, d)'
        BY <1>2, PairsKept
      <4>4. GoodCommand(c)' /\ c.op \notin HandleOps
        BY <2>3, <3>2, <4>2, <4>3 DEF GoodCommand, HandleOps
      <4>. QED  BY <4>1, <4>4
    <3>. QED  BY <1>4, <3>1, <3>2, MainWrites
  <2>. QED  BY <1>3, <2>4, <2>5, IdleInPlace
<1>. QED  BY <1>5, <1>6

(* What holds all along; the handles are only promised with a dongle that is   *)
(* set up.                                                                     *)
HandKept == Installing /\ KeysKeepUp /\ (Installed => HandlesOK)

(* At the start nothing has a handle yet.                                      *)
LEMMA HandStart == ASSUME GInit PROVE HandKept
<1>1. /\ toHost = <<>> /\ toDongle = <<Cmd("DEVICE_RADIO_RESET")>> /\ appkeys = {} /\ ~sound
      /\ cpc = "getchar"
  BY DEF GInit, Init
<1>2. Range(toHost) = {} /\ \A c \in Range(toDongle) : c.op = "DEVICE_RADIO_RESET"
  BY <1>1, ShortRange DEF Cmd
<1>. QED  BY <1>1, <1>2 DEF HandKept, Installing, KeysKeepUp, HandlesOK, Live

(* A key is handled by the main thread, which takes it when nothing is going   *)
(* on.                                                                         *)
LEMMA MainStep ==
  ASSUME Careful, (HostStep /\ CliContinue) \/ User
  PROVE  /\ UNCHANGED <<dongle, air, nodes>> /\ (PressKey \/ CliContinue)
         /\ PressKey => Quiet
         /\ cpc' # "new" => (sound' => sound)
<1>1. UNCHANGED <<dongle, air, nodes>> /\ (PressKey \/ CliContinue)
  BY DEF HostStep, User, world
<1>2. PressKey => Quiet
  <2>1. CliContinue => ~PressKey
    BY DEF PressKey, PressScanStart, PressScanStop, PressOnOff, PressComposition,
    PressNodeReset, PressPacket, Press, CliContinue, ResetState, FillDestination,
    WritePacket
  <2>. QED  BY <2>1 DEF User, Careful
<1>3. cpc' # "new" => (sound' => sound)
  <2>1. CASE HostStep
    BY <2>1 DEF HostStep, world, luck
  <2>2. CASE User
    BY <2>2, Zenon DEF User
  <2>. QED  BY <2>1, <2>2
<1>. QED  BY <1>1, <1>2, <1>3

(* The first reset comes before the first session.                             *)
LEMMA ResetStep ==
  ASSUME GTypeOK, Process, DongleRadioReset, DongleCommand
  PROVE  HostFrame /\ ~sound' /\ cpc' = "getchar"
<1>1. HostFrame
  BY DEF DongleCommand
<1>2. ~Started
  BY <1>1, ResetProcess DEF Started
<1>3. ~sound /\ cpc = "getchar"
  BY <1>2 DEF Process, Booting
<1>. QED  BY <1>1, <1>3 DEF DongleRadioReset, HostFrame, cli

(* No step of the whole system breaks the set-up, and while a session is live  *)
(* nothing is added to it.                                                     *)
LEMMA InstallStep ==
  ASSUME Careful, InTurn, Installing, KeysKeepUp, [GNext]_gVars
  PROVE  /\ Installing' /\ KeysKeepUp'
         /\ Live' => UNCHANGED <<subnet, appkeys>>
<1>0. GTypeOK /\ Process
  BY DEF InTurn
<1>1. CASE UNCHANGED gVars
  <2>1. /\ UNCHANGED <<toHost, toDongle, subnet_handle, devkey_handle, dst_addr_handle>>
        /\ UNCHANGED <<cpc, packet, subnet, appkeys, sound>>
    BY <1>1 DEF gVars, hostVars, handles, cli, world, dongle, install, luck
  <2>. QED  BY <2>1 DEF Installing, KeysKeepUp, SetupOver
<1>2. CASE HostStep /\ ReceiverNext
  <2>1. UNCHANGED <<subnet, appkeys, sound>>
    BY <1>2 DEF HostStep, world, dongle, install, luck
  <2>2. Installing'
    BY <1>0, <1>2, <2>1, ReceiverInstall
  <2>3. cpc' = "getchar"
    BY <1>0, <1>2, ReceiverWaits DEF cli
  <2>. QED  BY <2>1, <2>2, <2>3 DEF KeysKeepUp
<1>3. CASE (HostStep /\ CliContinue) \/ User
  <2>1. UNCHANGED <<subnet, appkeys>>
    BY <1>3, MainStep DEF dongle, install
  <2>. QED  BY <1>0, <1>3, <2>1, MainStep, MainInstall, MainKeys
<1>4. CASE Outside
  <2>1. Live' => UNCHANGED <<subnet, appkeys>>
    BY <1>0, <1>4, OutsideTakes, OutsideLeavesSetup DEF Live, Installing
  <2>. QED  BY <1>0, <1>4, <2>1, OutsideInstall, OutsideKeys
<1>5. CASE DongleRadioReset /\ DongleCommand
  BY <1>0, <1>5, ResetStep, ResetInstall DEF KeysKeepUp, Live
<1>6. CASE DongleRestart \/ Crash
  BY <1>6 DEF DongleRestart, Crash, Fault, Careful
<1>. QED
  BY <1>1, <1>2, <1>3, <1>4, <1>5, <1>6 DEF GNext, Outside, DongleStep, HostStep

(* With a dongle that is set up no step takes a handle out of its place.       *)
LEMMA HandStep ==
  ASSUME Careful, "DFU_JUMP_TO_BOOTLOADER" \in ScanOpcodes, InTurn, AddrsOK, Installed,
         HandInv, [GNext]_gVars
  PROVE  HandlesOK'
<1>. USE DEF HandInv
<1>0. GTypeOK /\ Process
  BY DEF InTurn
<1>1. CASE UNCHANGED gVars
  <2>1. /\ UNCHANGED <<toHost, toDongle, subnet_handle, devkey_handle, dst_addr_handle>>
        /\ UNCHANGED <<dev_addr, state, rpc, job, cpc, packet>>
        /\ UNCHANGED <<sound, scanning, link, devkeys, addrs, nodeAddr>>
    BY <1>1
    DEF gVars, hostVars, handles, receiver, cli, world, dongle, nodes, luck
  <2>2. /\ Live' <=> Live
        /\ Storing' <=> Storing
        /\ CompleteComing' <=> CompleteComing
        /\ Reached' = Reached
        /\ ScanOn' <=> ScanOn
        /\ \A op : OnWay(op)' <=> OnWay(op)
    BY <2>1 DEF Live, Storing, CompleteComing, InHand, Reached, ScanOn, OnWay
  <2>3. HandFrame
    BY <2>1, <2>2 DEF HandFrame
  <2>. QED  BY <2>3, HandFrameKeeps
<1>2. CASE HostStep /\ ReceiverNext
  <2>1. UNCHANGED world
    BY <1>2 DEF HostStep
  <2>. QED  BY <1>0, <1>2, <2>1, ReceiverKeepsHandles
<1>3. CASE (HostStep /\ CliContinue) \/ User
  BY <1>0, <1>3, MainStep, MainHand
<1>4. CASE Outside
  BY <1>4, OutsideKeepsHandles, <1>0
<1>5. CASE DongleRadioReset /\ DongleCommand
  BY <1>0, <1>5, ResetStep DEF HandlesOK, Live
<1>6. CASE DongleRestart \/ Crash
  BY <1>6 DEF DongleRestart, Crash, Fault, Careful
<1>. QED
  BY <1>1, <1>2, <1>3, <1>4, <1>5, <1>6 DEF GNext, Outside, DongleStep, HostStep

(* A session that is live with a dongle that is set up began with one.         *)
LEMMA InstalledBefore ==
  ASSUME Careful, InTurn, HandKept, [GNext]_gVars, Installed', Live' PROVE Installed
BY InstallStep DEF HandKept, Installed

(* The handles are in place all along.                                         *)
LEMMA HandAlways ==
  ASSUME Careful, "DFU_JUMP_TO_BOOTLOADER" \in ScanOpcodes
  PROVE  GSpec => [](InTurn /\ HandKept)
<1>1. GSpec => [](InTurn /\ AddrsOK)
  BY AddrsAlwaysOK
<1>2. GInit => HandKept
  BY HandStart
<1>3. InTurn /\ AddrsOK /\ HandKept /\ [GNext]_gVars => HandKept'
  <2>. SUFFICES ASSUME InTurn, AddrsOK, HandKept, [GNext]_gVars PROVE HandKept'
    OBVIOUS
  <2>1. Installing' /\ KeysKeepUp'
    BY InstallStep DEF HandKept
  <2>2. Installed' => HandlesOK'
    <3>1. CASE Installed
      BY <3>1, HandStep DEF HandKept, HandInv
    <3>2. CASE ~Installed
      BY <3>2, InstalledBefore DEF HandlesOK
    <3>. QED  BY <3>1, <3>2
  <2>. QED  BY <2>1, <2>2 DEF HandKept
<1>. QED  BY <1>1, <1>2, <1>3, PTL DEF GSpec

(* Every packet for one node is written with a device key and an address that  *)
(* the dongle knows and that are that node's, whichever sessions broke off or  *)
(* were late before: with a dongle that is set up, while it has handles left,  *)
(* and if its scanner obeys what '1' writes.                                   *)
THEOREM HandlesOfOneNode ==
  ASSUME Careful, "DFU_JUMP_TO_BOOTLOADER" \in ScanOpcodes
  PROVE  GSpec => [](Roomy => HandlesPaired)
<1>1. ASSUME InTurn, HandKept, Roomy PROVE HandlesPaired
  <2>. SUFFICES ASSUME sound, Installed, NEW i \in DOMAIN toDongle, toDongle[i].op = "PACKET_SEND",
                       toDongle[i].msg # "ONOFF_SET"
                PROVE  /\ KnownKey(toDongle[i]) /\ KnownDst(toDongle[i])
                       /\ KeyOf(toDongle[i]).owner = AddrOf(toDongle[i])
                       /\ nodeAddr[KeyOf(toDongle[i]).dev] = AddrOf(toDongle[i])
    BY DEF HandlesPaired
  <2>1. toDongle[i] \in Range(toDongle)
    BY DEF Range
  <2>2. cpc # "new"
    <3>1. \A c \in Range(<<Cmd("DFU_JUMP_TO_BOOTLOADER")>>) : c.op # "PACKET_SEND"
      BY ShortRange DEF Cmd
    <3>. QED  BY <1>1, <2>1, <3>1 DEF HandKept, KeysKeepUp
  <2>3. Paired(toDongle[i].key, toDongle[i].dst)
    BY <1>1, <2>1, <2>2 DEF HandKept, HandlesOK, Live, InPlace, GoodCommand
  <2>. QED
    BY <2>3 DEF Paired, KeyKnown, KeyAt, DstKnown, DstAt, KnownKey, KnownDst, KeyOf, AddrOf
<1>. QED  BY <1>1, HandAlways, PTL

-------------------------------------------------------------------------------
(* A session always goes on: while it is live, the packet, the message, the    *)
(* answer or the report that its rung waits for is somewhere on its way.       *)
-------------------------------------------------------------------------------
(* The device that joined, and from then on the one that the device key handle *)
(* stands for, are in the network: ...                                         *)
InMember(k) == KeyKnown(k) /\ KeyAt(k).dev \in member
EventMember(e) == /\ e.op = "COMPLETE" => e.dev \in member
                  /\ e.op = "DEVKEY_ADD" => InMember(e.val)
MemberInv ==
  /\ \A e \in Range(toHost) : EventMember(e)
  /\ \A c \in Range(toDongle) : c.op = "DEVKEY_ADD" => c.dev \in member
  /\ InHand => job.ev.dev \in member
  /\ rpc = "store" => EventMember(job.ev)
  /\ Reached >= DEVKEY_ADDRPUBADD /\ ~OnWay("DEVKEY_ADD") => InMember(devkey_handle)

(* ... nobody resets a node while a session is on, ...                         *)
IsReset(c) == c.op = "PACKET_SEND" /\ c.msg = "NODE_RESET"
ResetOnWay == \/ \E c \in Range(toDongle) : IsReset(c)
              \/ \E m \in air : m.msg = "NODE_RESET"
              \/ cpc \in {"dst", "write"} /\ packet.msg = "NODE_RESET"
ResetAlone ==
  ResetOnWay => /\ Reached = STATE_NEW /\ rpc = "idle" /\ ~scanning
                /\ ~Has(toDongle, "DFU_JUMP_TO_BOOTLOADER")
                /\ ~Has(toHost, "UNPROVISIONED_RECEIVED")

(* ... and the rungs after the handles have their message or its answer on the *)
(* way.                                                                        *)
NodePacket(c) == c.op = "PACKET_SEND" /\ c.msg # "ONOFF_SET"
CompositionComing == \/ \E c \in Range(toDongle) : NodePacket(c)
                     \/ txs > 0 \/ Has(toHost, "TX_COMPLETE")
ConfigComing == ConfigSent \/ ConfigFlying \/ ConfigTaken
CarriedOn ==
  /\ Reached = PS_COMPOSDATA /\ rpc # "body" => CompositionComing
  /\ Reached > PS_COMPOSDATA /\ rpc # "body" => ConfigComing
Carried == Live /\ Roomy => MemberInv /\ ResetAlone /\ CarriedOn

(* What holds besides with a dongle that is set up, from the theorems above.   *)
Settled == InTurn /\ ConfigInv /\ HandInv

-------------------------------------------------------------------------------
(* With nothing on its way no session is on.                                   *)
Empty == /\ rpc = "idle" /\ toHost = <<>> /\ toDongle = <<>>
         /\ link.phase = "none" /\ txs = 0 /\ air = {} /\ ~scanning

(* Each rung but the first waits for something that is on its way.             *)
LEMMA RestsWhenEmpty ==
  ASSUME Settled, Carried, Live, Roomy, Empty PROVE Reached = STATE_NEW
<1>1. /\ CarriedOn /\ NoLinkInTurn /\ state \in States /\ Reached = state
  BY DEF Carried, Settled, InTurn, LinkInv, GTypeOK, TypeOK, Empty, Reached
<1>2. (\A op : ~Has(toHost, op) /\ ~Has(toDongle, op))
      /\ Range(toHost) = {} /\ Range(toDongle) = {}
  BY NothingOnItsWay, ShortRange DEF Empty
<1>3. state \in {STATE_NEW, PROVISION} \/ state >= PS_COMPOSDATA
  BY <1>1, <1>2 DEF Empty, NoLinkInTurn, Closing, States
<1>4. state # PROVISION
  BY <1>1, <1>2 DEF Empty, NoLinkInTurn, Closing
<1>5. ~CompositionComing /\ ~ConfigComing
  BY <1>2 DEF Empty, CompositionComing, ConfigComing, ConfigSent, ConfigFlying, ConfigTaken
<1>. QED  BY <1>1, <1>3, <1>4, <1>5 DEF Empty, CarriedOn, States

(* After the steps of a session a node may only be reset when none is on.      *)
Unoccupied == /\ InTurn /\ HandlesOK /\ Live /\ Roomy
              /\ rpc = "idle" /\ Reached = STATE_NEW

(* Then there is nothing to be carried on.                                     *)
LEMMA NobodyWaits == Unoccupied => MemberInv /\ CarriedOn
<1>. USE DEF Unoccupied
<1>. SUFFICES ASSUME Unoccupied PROVE MemberInv /\ CarriedOn
  OBVIOUS
<1>1. ~Has(toHost, "COMPLETE")
  BY DEF InTurn, LinkInv, EventsInTurn, Awaits
<1>2. \A op \in HandleOps : ~OnWay(op)
  BY DEF HandlesOK, InPlace, Storing
<1>3. ~Has(toHost, "DEVKEY_ADD") /\ ~Has(toDongle, "DEVKEY_ADD")
  BY <1>2 DEF OnWay, HandleOps
<1>4. /\ \A e \in Range(toHost) : e.op \notin {"COMPLETE", "DEVKEY_ADD"}
      /\ \A c \in Range(toDongle) : c.op # "DEVKEY_ADD"
  BY <1>1, <1>3 DEF Has
<1>5. MemberInv
  BY <1>4 DEF MemberInv, EventMember, InHand
<1>. QED  BY <1>5 DEF CarriedOn

-------------------------------------------------------------------------------
(* A step outside the process that takes nobody out of the network and tells   *)
(* only members' keys.                                                         *)
MemberFrame ==
  /\ member \subseteq member' /\ \A k : InMember(k) => InMember(k)'
  /\ \A e \in Range(toHost') : e \in Range(toHost) \/ EventMember(e)'
  /\ Range(toDongle') \subseteq Range(toDongle)
  /\ OnWay("DEVKEY_ADD") => OnWay("DEVKEY_ADD")'

(* It keeps the members.                                                       *)
LEMMA MemberFrameKeeps ==
  ASSUME HostFrame, MemberInv, MemberFrame PROVE MemberInv'
<1>1. UNCHANGED <<rpc, job, state, devkey_handle>> /\ Reached' = Reached
      /\ (InHand' <=> InHand)
  BY DEF HostFrame, handles, receiver, Reached, InHand
<1>2. ASSUME NEW e, EventMember(e) PROVE EventMember(e)'
  <2>1. PICK k : k = e.val
    OBVIOUS
  <2>2. InMember(k) => InMember(k)'
    BY DEF MemberFrame
  <2>. QED  BY <1>2, <2>1, <2>2 DEF EventMember, MemberFrame
<1>3. \A e \in Range(toHost') : EventMember(e)'
  BY <1>2 DEF MemberInv, MemberFrame
<1>4. rpc' = "store" => EventMember(job.ev)'
  <2>1. PICK e : e = job.ev
    OBVIOUS
  <2>2. job'.ev = e
    BY <1>1, <2>1
  <2>3. EventMember(e)' => EventMember(job.ev)'
    BY <2>2 DEF EventMember, InMember, KeyKnown, KeyAt
  <2>. QED  BY <1>1, <1>2, <2>1, <2>3 DEF MemberInv
<1>5. InHand' => job'.ev.dev \in member'
  BY <1>1 DEF MemberInv, MemberFrame
<1>6. \A c \in Range(toDongle') : c.op = "DEVKEY_ADD" => c.dev \in member'
  BY DEF MemberInv, MemberFrame
<1>7. Reached' >= DEVKEY_ADDRPUBADD /\ ~OnWay("DEVKEY_ADD")' => InMember(devkey_handle)'
  <2>1. PICK k : k = devkey_handle
    OBVIOUS
  <2>2. InMember(k) => InMember(k)'
    BY DEF MemberFrame
  <2>3. devkey_handle' = k
    BY <1>1, <2>1
  <2>4. InMember(devkey_handle) => InMember(k)
    BY <2>1
  <2>5. InMember(k)' => InMember(devkey_handle)'
    BY <2>3 DEF InMember, KeyKnown, KeyAt
  <2>. QED  BY <1>1, <2>2, <2>4, <2>5 DEF MemberInv, MemberFrame
<1>. QED  BY <1>3, <1>4, <1>5, <1>6, <1>7 DEF MemberInv

(* A step that resets no node and brings no scan.                              *)
ResetFrame ==
  /\ ResetOnWay' => ResetOnWay
  /\ scanning' => scanning \/ Has(toDongle, "DFU_JUMP_TO_BOOTLOADER")
  /\ Has(toHost', "UNPROVISIONED_RECEIVED") =>
       Has(toHost, "UNPROVISIONED_RECEIVED") \/ scanning
  /\ \A op : Has(toDongle', op) => Has(toDongle, op)

(* It keeps a reset of a node apart from the sessions.                         *)
LEMMA ResetFrameKeeps ==
  ASSUME HostFrame, ResetAlone, ResetFrame PROVE ResetAlone'
<1>1. Reached' = Reached /\ UNCHANGED rpc
  BY DEF HostFrame, receiver, Reached
<1>. QED  BY <1>1 DEF ResetAlone, ResetFrame

-------------------------------------------------------------------------------
(* What the handlers do to the session between the bodies.                     *)
LEMMA ReceiverPasses ==
  ASSUME TypeOK, ReceiverNext, ~Body
  PROVE  /\ rpc # "body"
         /\ Reached' = Reached \/ (Reached' = STATE_NEW /\ rpc' = "idle")
         /\ UNCHANGED devkey_handle \/ StoreHandle
         /\ rpc = "store" => StoreHandle
         /\ rpc' = "store" => HandleResponse
         /\ InHand' => (InHand /\ UNCHANGED job) \/ ProvComplete
<1>. DEFINE Goal == /\ rpc # "body"
                    /\ Reached' = Reached \/ (Reached' = STATE_NEW /\ rpc' = "idle")
                    /\ UNCHANGED devkey_handle \/ StoreHandle
                    /\ rpc = "store" => StoreHandle
                    /\ rpc' = "store" => HandleResponse
                    /\ InHand' => (InHand /\ UNCHANGED job) \/ ProvComplete
<1>. HIDE DEF Goal
<1>. SUFFICES Goal
  BY DEF Goal
<1>1. ASSUME NEW op, NEW k \in Rungs, k # DEVKEY_ADDRPUBADD, Handle(op, k) PROVE Goal
  BY <1>1 DEF Goal, Handle, Receive, Begin, Idle, handles, receiver, Reached, InHand, Rungs
<1>2. CASE \/ ProvUnprovisionedReceived \/ ProvCapsReceived \/ ProvEcdhRequest
           \/ ProvAuthRequest \/ CompositionDataStatus \/ TxComplete \/ AppkeyStatus
           \/ ModelAppStatus
  <2>1. \E op : \E k \in Rungs : k # DEVKEY_ADDRPUBADD /\ Handle(op, k)
    BY <1>2 DEF ProvUnprovisionedReceived, ProvCapsReceived, ProvEcdhRequest,
           ProvAuthRequest, CompositionDataStatus, TxComplete, AppkeyStatus, ModelAppStatus, Rungs
  <2>. QED  BY <1>1, <2>1
<1>3. CASE ProvComplete \/ ProvCompleteCheck \/ SetState \/ StoreHandle
  BY <1>3 DEF Goal, ProvComplete, ProvCompleteCheck, SetState, StoreHandle, Receive, handles,
         Reached, InHand
<1>4. CASE ProvLinkClosed \/ PublicationStatus
  BY <1>4 DEF Goal, ProvLinkClosed, PublicationStatus, Receive, Begin, handles, receiver,
         Reached, InHand
<1>5. CASE HandleResponse
  BY <1>5 DEF Goal, HandleResponse, Receive, Idle, handles, receiver, Reached, InHand
<1>6. CASE SubnetResponse \/ LocalUnicastResponse \/ DeviceStarted \/ PrintOnly
  BY <1>6 DEF Goal, SubnetResponse, LocalUnicastResponse, DeviceStarted, PrintOnly, Receive, Idle,
         handles, receiver, Reached, InHand
<1>. QED  BY <1>2, <1>3, <1>4, <1>5, <1>6 DEF ReceiverNext

(* The commands that the receiver writes, but for its rungs, reset nobody and  *)
(* add no key; none of its own resets a node.                                  *)
LEMMA ReceiverAdds ==
  ASSUME TypeOK, ReceiverNext
  PROVE  /\ Range(toDongle) \subseteq Range(toDongle')
         /\ \A op : Has(toDongle, op) => Has(toDongle', op)
         /\ \A c \in Range(toDongle') :
              c \in Range(toDongle) \/ (~IsReset(c) /\ (Body \/ c.op # "DEVKEY_ADD"))
         /\ Has(toDongle', "DFU_JUMP_TO_BOOTLOADER") => Has(toDongle, "DFU_JUMP_TO_BOOTLOADER")
<1>. DEFINE New(N) ==
              /\ Range(toDongle') = Range(toDongle) \cup N
              /\ \A c \in N : ~IsReset(c) /\ c.op # "DFU_JUMP_TO_BOOTLOADER"
                              /\ (Body \/ c.op # "DEVKEY_ADD")
<1>. SUFFICES \E N : New(N)
  BY DEF Has
<1>1. CASE Body
  <2>1. /\ job.rung \in Rungs
        /\ Range(toDongle') = Range(toDongle) \cup Range(RungCommands(job.rung, job.ev))
    BY <1>1, BodyWrites
  <2>2. \A c \in Range(RungCommands(job.rung, job.ev)) : c.op # "DFU_JUMP_TO_BOOTLOADER"
    <3>1. ~Has(RungCommands(job.rung, job.ev), "DFU_JUMP_TO_BOOTLOADER")
      BY <2>1, RungOpcodes
    <3>. QED  BY <3>1 DEF Has
  <2>3. ASSUME NEW c \in Range(RungCommands(job.rung, job.ev)) PROVE ~IsReset(c)
    <3>1. CASE job.rung <= DEVKEY_ADDRPUBADD
      <4>1. ~Has(RungCommands(job.rung, job.ev), "PACKET_SEND")
        BY <2>1, <3>1, RungOpcodes DEF Rungs
      <4>. QED  BY <2>3, <4>1 DEF IsReset, Has
    <3>2. CASE job.rung > DEVKEY_ADDRPUBADD
      <4>. DEFINE Written(msg) == \/ RungCommands(job.rung, job.ev) = <<ConfigPacket(msg)>>
                                \/ RungCommands(job.rung, job.ev) = <<ModelPacket(msg)>>
      <4>0. \/ Written("COMPOSITION_DATA_GET") \/ Written("APPKEY_ADD")
            \/ Written("MODEL_APP_BIND") \/ Written("MODEL_PUBLICATION_SET")
        <5>1. job.rung \in {PS_COMPOSDATA, PS_APPKEY_ADD, PS_MODEL_APP_BIND,
                            PS_MODEL_PUBLICATION_SET}
          BY <2>1, <3>2 DEF Rungs
        <5>. QED  BY <5>1 DEF RungCommands
      <4>1. \E msg \in PacketMessages \ {"NODE_RESET"} : Written(msg)
        <5>. HIDE DEF Written
        <5>. QED  BY <4>0 DEF PacketMessages
      <4>2. PICK msg \in PacketMessages \ {"NODE_RESET"} : c = ConfigPacket(msg) \/ c = ModelPacket(msg)
        BY <2>3, <4>1, ShortRange
      <4>. QED  BY <4>2 DEF IsReset, ConfigPacket, ModelPacket, PacketSend
    <3>. QED  BY <2>1, <3>1, <3>2 DEF Rungs
  <2>. QED  BY <1>1, <2>1, <2>2, <2>3
<1>2. CASE SubnetResponse
  <2>1. Write(<<AppKeyAdd(0, subnet_handle'), AppKeyAdd(1, subnet_handle')>>) \/ Write(<<>>)
    BY <1>2 DEF SubnetResponse
  <2>2. Head(toHost).val \in U16Int
    BY <1>2, EventTaken DEF SubnetResponse, Receive, TypeOK, Events
  <2>3. subnet_handle' \in U16Int
    BY <1>2, <2>2 DEF SubnetResponse, TypeOK
  <2>. DEFINE a == AppKeyAdd(0, subnet_handle')  b == AppKeyAdd(1, subnet_handle')
  <2>4. a \in Commands /\ b \in Commands /\ a.op = "APPKEY_ADD" /\ b.op = "APPKEY_ADD"
    BY <2>3 DEF AppKeyAdd, Commands
  <2>. HIDE DEF a, b
  <2>5. <<a, b>> \in Seq(Commands) /\ Range(<<a, b>>) = {a, b}
        /\ <<>> \in Seq(Commands) /\ Range(<<>>) = {}
    BY <2>4, ShortRange
  <2>6. Range(toDongle') = Range(toDongle) \cup {a, b} \/ Range(toDongle') = Range(toDongle) \cup {}
    BY <2>1, <2>5, CommandsWritten DEF TypeOK, a, b
  <2>7. New({a, b}) \/ New({})
    BY <2>4, <2>6 DEF IsReset
  <2>. HIDE DEF New
  <2>. QED  BY <2>7
<1>3. CASE ~Body /\ ~SubnetResponse
  <2>1. UNCHANGED toDongle => New({})
    OBVIOUS
  <2>2. ASSUME NEW c \in Commands, Write(<<c>>),
               c.op \in {"PROV_SCAN_STOP", "SUBNET_ADD", "ADDR_LOCAL_UNICAST_SET"}
        PROVE  New({c})
    BY <2>2, CommandWritten DEF IsReset
  <2>. HIDE DEF New
  <2>3. New({}) \/ \E c : New({c})
    BY <1>3, <2>1, <2>2, ReceiverWrites
  <2>. QED  BY <2>3
<1>. QED  BY <1>1, <1>2, <1>3

(* Which handler takes an event that a session waits for.                      *)
LEMMA TakenBy ==
  ASSUME TypeOK, ReceiverNext, toHost # <<>>, toHost' = Tail(toHost)
  PROVE  LET op == Head(toHost).op IN
         /\ rpc = "idle" /\ ~Body /\ ~StoreHandle
         /\ op \in HandleOps <=> HandleResponse
         /\ op = "TX_COMPLETE" => TxComplete
         /\ op = "APPKEY_STATUS" => AppkeyStatus
         /\ op = "MODEL_APP_STATUS" => ModelAppStatus
         /\ op = "MODEL_PUBLICATION_STATUS" => PublicationStatus
<1>1. Tail(toHost) # toHost
  BY DEF TypeOK
<1>2. ~Body /\ ~StoreHandle /\ ~SetState /\ ~ProvCompleteCheck
  BY <1>1 DEF Body, StoreHandle, SetState, ProvCompleteCheck
<1>. DEFINE op == Head(toHost).op
<1>3. \/ op = "UNPROVISIONED_RECEIVED" \/ op = "CAPS_RECEIVED" \/ op = "ECDH_REQUEST"
      \/ op = "AUTH_REQUEST" \/ op = "COMPLETE" \/ op = "LINK_CLOSED"
      \/ op = "COMPOSITION_DATA_STATUS" \/ op = "SUBNET_ADD"
      \/ op = "TX_COMPLETE" /\ TxComplete
      \/ op = "APPKEY_STATUS" /\ AppkeyStatus
      \/ op = "MODEL_APP_STATUS" /\ ModelAppStatus
      \/ op = "MODEL_PUBLICATION_STATUS" /\ PublicationStatus
      \/ op \in HandleOps /\ HandleResponse
      \/ op = "ADDR_LOCAL_UNICAST_SET" \/ op = "DEVICE_STARTED"
      \/ op \in {"OTHER_RESPONSE", "OTHER_MESSAGE", "OTHER_REPORT"}
  <2>1. /\ \A k, o : Handle(o, k) => op = o
        /\ \A ops : Receive(ops) => op \in ops
    BY DEF Handle, Receive
  <2>. HIDE DEF op
  <2>2. /\ ProvUnprovisionedReceived => op = "UNPROVISIONED_RECEIVED"
        /\ ProvCapsReceived => op = "CAPS_RECEIVED"
        /\ ProvEcdhRequest => op = "ECDH_REQUEST"
        /\ ProvAuthRequest => op = "AUTH_REQUEST"
        /\ CompositionDataStatus => op = "COMPOSITION_DATA_STATUS"
        /\ TxComplete => op = "TX_COMPLETE"
        /\ AppkeyStatus => op = "APPKEY_STATUS"
        /\ ModelAppStatus => op = "MODEL_APP_STATUS"
    BY <2>1 DEF ProvUnprovisionedReceived, ProvCapsReceived, ProvEcdhRequest, ProvAuthRequest,
       CompositionDataStatus, TxComplete, AppkeyStatus, ModelAppStatus
  <2>3. /\ ProvComplete => op = "COMPLETE"
        /\ ProvLinkClosed => op = "LINK_CLOSED"
        /\ PublicationStatus => op = "MODEL_PUBLICATION_STATUS"
        /\ HandleResponse => op \in HandleOps
        /\ SubnetResponse => op = "SUBNET_ADD"
        /\ LocalUnicastResponse => op = "ADDR_LOCAL_UNICAST_SET"
        /\ DeviceStarted => op = "DEVICE_STARTED"
        /\ PrintOnly => op \in {"OTHER_RESPONSE", "OTHER_MESSAGE", "OTHER_REPORT"}
    BY <2>1 DEF ProvComplete, ProvLinkClosed, PublicationStatus, HandleResponse,
       SubnetResponse, LocalUnicastResponse, DeviceStarted, PrintOnly, HandleOps
  <2>. QED  BY <1>2, <2>2, <2>3 DEF ReceiverNext
<1>4. rpc = "idle"
  BY <1>1, ReceiverTakes
<1>5. HandleResponse => op \in HandleOps
  BY DEF HandleResponse, Receive, HandleOps
<1>. QED  BY <1>2, <1>3, <1>4, <1>5 DEF HandleOps

(* The receiver hands the membership on from COMPLETE to the device key.       *)
LEMMA ReceiverMembers ==
  ASSUME GTypeOK, InTurn, InPlace, MemberInv, UNCHANGED <<member, devkeys>>, ReceiverNext
  PROVE  MemberInv'
<1>. USE DEF GTypeOK
<1>1. Range(toHost') \subseteq Range(toHost)
  BY ReceiverTakes, EventTaken DEF TypeOK
<1>2. (\A k : InMember(k)' <=> InMember(k)) /\ (\A e : EventMember(e)' <=> EventMember(e))
  BY DEF InMember, EventMember, KeyKnown, KeyAt
<1>3. \A e \in Range(toHost') : EventMember(e)'
  BY <1>1, <1>2 DEF MemberInv
<1>4. StateKept
  BY DEF InTurn, Process
<1>5. CASE Body
  <2>1. /\ job.rung \in Rungs /\ state = job.rung - 1 /\ rpc = "body" /\ rpc' = "set"
        /\ UNCHANGED <<devkey_handle, job, toHost>>
        /\ Reached' = job.rung /\ Reached = state
    BY <1>4, <1>5, BodyWrites DEF StateKept, Body, Reached
  <2>2. CASE job.rung = DEVKEY_ADDRPUBADD
    <3>1. job.ev.dev \in member
      BY <2>1, <2>2 DEF MemberInv, InHand
    <3>2. PICK c, d : /\ c.op = "DEVKEY_ADD" /\ c.dev = job.ev.dev
                      /\ d.op = "ADDR_PUBLICATION_ADD"
                      /\ RungCommands(job.rung, job.ev) = <<c, d>>
      <4>1. RungCommands(job.rung, job.ev)
              = <<DevkeyAdd(dev_addr, subnet_handle, job.ev.dev), AddrPublicationAdd(dev_addr)>>
        BY <2>2 DEF RungCommands
      <4>. QED  BY <4>1 DEF DevkeyAdd, AddrPublicationAdd
    <3>3. Range(toDongle') = Range(toDongle) \cup {c, d}
      BY <1>5, <3>2, BodyWrites, ShortRange
    <3>4. \A x \in Range(toDongle') : x.op = "DEVKEY_ADD" => x.dev \in member'
      BY <3>1, <3>2, <3>3 DEF MemberInv
    <3>5. OnWay("DEVKEY_ADD")'
      BY <3>2, <3>3 DEF OnWay, Has
    <3>. QED  BY <1>3, <2>1, <3>4, <3>5 DEF MemberInv, InHand
  <2>3. CASE job.rung # DEVKEY_ADDRPUBADD
    <3>1. ~Has(RungCommands(job.rung, job.ev), "DEVKEY_ADD")
      BY <2>1, <2>3, RungOpcodes
    <3>2. \A x \in Range(toDongle') : x.op = "DEVKEY_ADD" => x \in Range(toDongle)
      BY <1>5, <3>1, BodyWrites DEF Has
    <3>3. OnWay("DEVKEY_ADD") => OnWay("DEVKEY_ADD")'
      BY <1>5, <2>1, BodyWrites DEF OnWay
    <3>4. Reached' >= DEVKEY_ADDRPUBADD => Reached >= DEVKEY_ADDRPUBADD
      BY <2>1, <2>3 DEF Rungs
    <3>. QED  BY <1>2, <1>3, <2>1, <3>2, <3>3, <3>4 DEF MemberInv, InHand
  <2>. QED  BY <2>2, <2>3
<1>6. CASE ~Body
  <2>1. \A x \in Range(toDongle') : x.op = "DEVKEY_ADD" => x.dev \in member'
    BY <1>6, ReceiverAdds DEF MemberInv
  <2>2. InHand' => job'.ev.dev \in member'
    <3>1. CASE ProvComplete
      <4>1. Head(toHost) \in Range(toHost) /\ Head(toHost).op = "COMPLETE"
        BY <3>1, EventTaken DEF ProvComplete, Receive, TypeOK
      <4>2. job'.ev = Head(toHost)
        BY <3>1 DEF ProvComplete
      <4>. QED  BY <4>1, <4>2 DEF MemberInv, EventMember
    <3>. QED  BY <1>6, <3>1, ReceiverPasses DEF MemberInv
  <2>3. rpc' = "store" => /\ toHost # <<>> /\ toHost' = Tail(toHost) /\ job'.ev = Head(toHost)
                          /\ EventMember(job.ev)'
    <3>1. rpc' = "store" => toHost # <<>> /\ toHost' = Tail(toHost) /\ job'.ev = Head(toHost)
      BY <1>6, ReceiverPasses DEF HandleResponse, Receive, Idle, receiver
    <3>2. rpc' = "store" => Head(toHost) \in Range(toHost)
      BY <3>1, EventTaken DEF TypeOK
    <3>. QED  BY <1>2, <3>1, <3>2 DEF MemberInv, EventMember, InMember, KeyKnown, KeyAt
  <2>4. ASSUME Reached' >= DEVKEY_ADDRPUBADD, ~OnWay("DEVKEY_ADD")' PROVE InMember(devkey_handle)'
    <3>1. Reached' = Reached /\ (UNCHANGED devkey_handle \/ StoreHandle)
      BY <1>6, <2>4, ReceiverPasses
    <3>2. CASE StoreHandle /\ job.ev.op = "DEVKEY_ADD"
      <4>1. devkey_handle' = job.ev.val /\ EventMember(job.ev)
        BY <3>2 DEF StoreHandle, MemberInv
      <4>. QED  BY <3>2, <4>1 DEF EventMember, InMember, KeyKnown, KeyAt
    <3>3. CASE ~(StoreHandle /\ job.ev.op = "DEVKEY_ADD")
      <4>1. UNCHANGED devkey_handle
        BY <3>1, <3>3 DEF StoreHandle
      <4>2. ~Has(toDongle, "DEVKEY_ADD")
        BY <2>4, ReceiverAdds DEF OnWay
      <4>3. ~(rpc = "store" /\ job.ev.op = "DEVKEY_ADD")
        BY <1>6, <3>3, ReceiverPasses
      <4>4. ~Has(toHost, "DEVKEY_ADD")
        <5>1. CASE UNCHANGED toHost
          BY <2>4, <5>1 DEF OnWay
        <5>2. CASE toHost # <<>> /\ toHost' = Tail(toHost)
          <6>. SUFFICES ASSUME Head(toHost).op = "DEVKEY_ADD" PROVE FALSE
            BY <2>4, <5>2, EventTaken DEF OnWay, TypeOK
          <6>1. HandleResponse
            BY <5>2, TakenBy DEF HandleOps
          <6>2. Head(toHost) \in Range(toHost) /\ Has(toHost, "DEVKEY_ADD")
            BY <5>2, EventTaken DEF TypeOK
          <6>3. Head(toHost).ok /\ Storing
            BY <6>2 DEF InPlace, GoodResponse, OnWay, HandleOps
          <6>4. rpc' = "store" /\ job'.ev = Head(toHost)
            BY <6>1, <6>3 DEF HandleResponse, AwaitsHandles, Storing, Reached, Receive
          <6>. QED  BY <2>4, <6>4 DEF OnWay
        <5>. QED  BY <5>1, <5>2, ReceiverTakes
      <4>5. InMember(devkey_handle)
        BY <2>4, <3>1, <4>2, <4>3, <4>4 DEF MemberInv, OnWay
      <4>. QED  BY <4>1, <4>5 DEF InMember, KeyKnown, KeyAt
    <3>. QED  BY <3>2, <3>3
  <2>. QED  BY <1>3, <2>1, <2>2, <2>3, <2>4 DEF MemberInv
<1>. QED  BY <1>5, <1>6

(* The receiver takes the event that the session waits for to write the next   *)
(* message.                                                                    *)
LEMMA ReceiverCarriesOn ==
  ASSUME GTypeOK, InTurn, DueOnly, CarriedOn, UNCHANGED <<txs, air>>, ReceiverNext
  PROVE  CarriedOn'
<1>. USE DEF GTypeOK
<1>1. CASE Body
  <2>1. /\ job.rung \in Rungs /\ Reached' = job.rung
        /\ RungCommands(job.rung, job.ev) \in Seq(Commands)
        /\ Range(toDongle') = Range(toDongle) \cup Range(RungCommands(job.rung, job.ev))
    BY <1>1, BodyWrites DEF Body, Reached
  <2>2. ASSUME NEW msg \in SessionMessages, NEW c,
               RungCommands(job.rung, job.ev) = <<c>>, c.op = "PACKET_SEND", c.msg = msg
        PROVE  CompositionComing' /\ (msg \in ConfigMessages => ConfigSent')
    <3>1. c \in Range(toDongle') /\ c \in Commands
      <4>1. Range(<<c>>) = {c}
        BY ShortRange
      <4>2. <<c>>[1] \in Commands
        BY <2>1, <2>2
      <4>. QED  BY <2>1, <2>2, <4>1, <4>2
    <3>2. msg # "ONOFF_SET"
      BY DEF SessionMessages, ConfigMessages
    <3>. QED  BY <2>2, <3>1, <3>2, PacketIsPacket DEF CompositionComing, NodePacket, ConfigSent
  <2>3. ASSUME NEW msg \in SessionMessages,
               \/ RungCommands(job.rung, job.ev) = <<ConfigPacket(msg)>>
               \/ RungCommands(job.rung, job.ev) = <<ModelPacket(msg)>>
        PROVE  CompositionComing' /\ (msg \in ConfigMessages => ConfigSent')
    <3>1. PICK c : RungCommands(job.rung, job.ev) = <<c>> /\ c.op = "PACKET_SEND" /\ c.msg = msg
      BY <2>3 DEF ConfigPacket, ModelPacket, PacketSend
    <3>. QED  BY <2>2, <3>1
  <2>4. CASE job.rung = PS_COMPOSDATA
    <3>1. RungCommands(job.rung, job.ev) = <<ConfigPacket("COMPOSITION_DATA_GET")>>
      BY <2>4 DEF RungCommands
    <3>. QED  BY <2>1, <2>3, <2>4, <3>1 DEF CarriedOn, SessionMessages
  <2>5. CASE job.rung > PS_COMPOSDATA
    <3>1. \/ RungCommands(job.rung, job.ev) = <<ConfigPacket("APPKEY_ADD")>>
          \/ RungCommands(job.rung, job.ev) = <<ModelPacket("MODEL_APP_BIND")>>
          \/ RungCommands(job.rung, job.ev) = <<ModelPacket("MODEL_PUBLICATION_SET")>>
      BY <2>1, <2>5 DEF RungCommands, Rungs
    <3>2. {"APPKEY_ADD", "MODEL_APP_BIND", "MODEL_PUBLICATION_SET"}
            \subseteq SessionMessages \cap ConfigMessages
      BY DEF SessionMessages, ConfigMessages
    <3>3. ConfigSent'
      BY <2>3, <3>1, <3>2
    <3>. QED  BY <2>1, <2>5, <3>3 DEF CarriedOn, ConfigComing
  <2>. QED  BY <2>1, <2>4, <2>5 DEF CarriedOn, Rungs
<1>2. CASE ~Body
  <2>. SUFFICES ASSUME Reached' = PS_COMPOSDATA \/ Reached' > PS_COMPOSDATA, rpc' # "body"
                PROVE  /\ Reached = PS_COMPOSDATA => CompositionComing'
                       /\ Reached > PS_COMPOSDATA => ConfigComing'
                       /\ Reached' = Reached
    BY DEF CarriedOn
  <2>1. rpc # "body" /\ Reached' = Reached
    BY <1>2, ReceiverPasses
  <2>2. Range(toDongle) \subseteq Range(toDongle')
    BY ReceiverAdds
  <2>3. ASSUME Reached = PS_COMPOSDATA PROVE CompositionComing'
    <3>1. CompositionComing
      BY <2>1, <2>3 DEF CarriedOn
    <3>2. Has(toHost, "TX_COMPLETE") => Has(toHost', "TX_COMPLETE")
      <4>1. CASE toHost # <<>> /\ toHost' = Tail(toHost)
        <5>1. Head(toHost).op = "TX_COMPLETE" => TxComplete /\ rpc = "idle"
          BY <4>1, TakenBy
        <5>2. TxComplete /\ rpc = "idle" => rpc' = "body"
          BY <2>3 DEF TxComplete, Handle, Begin, Reached
        <5>3. Head(toHost).op # "TX_COMPLETE"
          BY <5>1, <5>2
        <5>. QED  BY <4>1, <5>3, EventTaken DEF TypeOK
      <4>. QED  BY <4>1, ReceiverTakes
    <3>. QED  BY <2>2, <3>1, <3>2 DEF CompositionComing
  <2>4. ASSUME Reached > PS_COMPOSDATA PROVE ConfigComing'
    <3>1. ConfigComing
      BY <2>1, <2>4 DEF CarriedOn
    <3>3. ConfigFlying => ConfigFlying'
      BY DEF ConfigFlying
    <3>4. ConfigSent => ConfigSent'
      BY <2>2 DEF ConfigSent
    <3>2. ConfigTaken => ConfigTaken'
      <4>. SUFFICES ASSUME NEW e \in Range(toHost), e \in StatusEvents, e \notin Range(toHost')
                    PROVE FALSE
        BY DEF ConfigTaken
      <4>1. toHost # <<>> /\ toHost' = Tail(toHost) /\ rpc = "idle"
        BY ReceiverTakes
      <4>2. e = Head(toHost)
        BY <4>1, EventTaken DEF TypeOK
      <4>3. PICK msg \in ConfigMessages : e.op = StatusOf(msg) /\ Due(msg)
        BY DEF DueOnly
      <4>4. Reached = state
        BY <4>1 DEF Reached
      <4>5. CASE msg = "APPKEY_ADD"
        <5>1. e.op = "APPKEY_STATUS" /\ state = PS_APPKEY_ADD
          BY <4>3, <4>4, <4>5 DEF StatusOf, Due
        <5>2. AppkeyStatus
          BY <4>1, <4>2, <5>1, TakenBy
        <5>. QED  BY <5>1, <5>2 DEF AppkeyStatus, Handle, Begin
      <4>6. CASE msg = "MODEL_APP_BIND"
        <5>1. e.op = "MODEL_APP_STATUS" /\ state = PS_MODEL_APP_BIND
          BY <4>3, <4>4, <4>6 DEF StatusOf, Due
        <5>2. ModelAppStatus
          BY <4>1, <4>2, <5>1, TakenBy
        <5>. QED  BY <5>1, <5>2 DEF ModelAppStatus, Handle, Begin
      <4>7. CASE msg = "MODEL_PUBLICATION_SET"
        <5>1. e.op = "MODEL_PUBLICATION_STATUS" /\ state = PS_MODEL_PUBLICATION_SET
          BY <4>3, <4>4, <4>7 DEF StatusOf, Due
        <5>2. PublicationStatus
          BY <4>1, <4>2, <5>1, TakenBy
        <5>. QED  BY <4>1, <5>1, <5>2 DEF PublicationStatus, Reached, receiver
      <4>. QED  BY <4>5, <4>6, <4>7 DEF ConfigMessages
    <3>. QED  BY <3>1, <3>2, <3>3, <3>4 DEF ConfigComing
  <2>. QED  BY <2>1, <2>3, <2>4
<1>. QED  BY <1>1, <1>2

(* While a node is being reset the receiver has nothing to do but to print.    *)
LEMMA ReceiverResets ==
  ASSUME GTypeOK, InTurn, ResetAlone, UNCHANGED <<air, scanning, cli>>, ReceiverNext
  PROVE  ResetAlone'
<1>. USE DEF GTypeOK
<1>. SUFFICES ASSUME ResetOnWay'
              PROVE  /\ Reached' = STATE_NEW /\ rpc' = "idle" /\ ~scanning'
                     /\ ~Has(toDongle', "DFU_JUMP_TO_BOOTLOADER")
                     /\ ~Has(toHost', "UNPROVISIONED_RECEIVED")
  BY DEF ResetAlone
<1>1. ResetOnWay
  BY ReceiverAdds DEF ResetOnWay, cli
<1>2. /\ Reached = STATE_NEW /\ rpc = "idle" /\ ~scanning
      /\ ~Has(toDongle, "DFU_JUMP_TO_BOOTLOADER")
      /\ ~Has(toHost, "UNPROVISIONED_RECEIVED")
  BY <1>1 DEF ResetAlone
<1>3. ~Has(toHost', "UNPROVISIONED_RECEIVED")
  BY <1>2, ReceiverTakes, EventTaken DEF TypeOK
<1>4. ~Has(toDongle', "DFU_JUMP_TO_BOOTLOADER")
  BY <1>2, ReceiverAdds
<1>5. state = STATE_NEW
  BY <1>2 DEF Reached
<1>6. ~Has(toHost, "COMPLETE")
  BY <1>2 DEF InTurn, LinkInv, EventsInTurn, Awaits
<1>7. rpc' = "idle" /\ state' = STATE_NEW
  <2>1. ASSUME NEW op, NEW k \in Rungs, Handle(op, k), k # PROVISION \/ op = "UNPROVISIONED_RECEIVED"
        PROVE  rpc' = "idle" /\ state' = STATE_NEW
    <3>1. op # "UNPROVISIONED_RECEIVED"
      BY <1>2, <2>1, EventTaken DEF Handle, Receive, TypeOK
    <3>. QED  BY <1>2, <1>5, <2>1, <3>1 DEF Handle, Idle, receiver, Rungs
  <2>2. CASE \/ ProvUnprovisionedReceived \/ ProvCapsReceived \/ ProvEcdhRequest
             \/ ProvAuthRequest \/ CompositionDataStatus \/ TxComplete \/ AppkeyStatus
             \/ ModelAppStatus
    <3>1. \E op : \E k \in Rungs :
             Handle(op, k) /\ (k # PROVISION \/ op = "UNPROVISIONED_RECEIVED")
      BY <2>2 DEF ProvUnprovisionedReceived, ProvCapsReceived, ProvEcdhRequest,
             ProvAuthRequest, CompositionDataStatus, TxComplete, AppkeyStatus, ModelAppStatus, Rungs
    <3>. QED  BY <2>1, <3>1
  <2>3. ~ProvComplete
    BY <1>6, EventTaken DEF ProvComplete, Receive, TypeOK
  <2>4. CASE ProvLinkClosed \/ PublicationStatus \/ HandleResponse
    BY <1>2, <1>5, <2>4
    DEF ProvLinkClosed, PublicationStatus, HandleResponse, AwaitsHandles, Idle, receiver
  <2>5. CASE SubnetResponse \/ LocalUnicastResponse \/ DeviceStarted \/ PrintOnly
    BY <1>2, <1>5, <2>5
    DEF SubnetResponse, LocalUnicastResponse, DeviceStarted, PrintOnly, Idle, receiver
  <2>6. ~Body /\ ~SetState /\ ~StoreHandle /\ ~ProvCompleteCheck
    BY <1>2 DEF Body, SetState, StoreHandle, ProvCompleteCheck
  <2>. QED  BY <2>2, <2>3, <2>4, <2>5, <2>6 DEF ReceiverNext
<1>. QED  BY <1>2, <1>3, <1>4, <1>7 DEF Reached

(* The receiver keeps a session going.                                         *)
LEMMA ReceiverCarries ==
  ASSUME Settled, Carried, UNCHANGED world, ReceiverNext PROVE Carried'
<1>1. UNCHANGED <<sound, devkeys, addrs, txs, air, scanning, member>>
  BY DEF world, dongle, nodes, luck
<1>2. UNCHANGED cli
  BY ReceiverWaits DEF Settled, InTurn
<1>3. (Live' <=> Live) /\ (Roomy' <=> Roomy)
  BY <1>1, <1>2 DEF Live, Roomy, cli
<1>. SUFFICES ASSUME Live, Roomy PROVE MemberInv' /\ ResetAlone' /\ CarriedOn'
  BY <1>3 DEF Carried
<1>4. GTypeOK /\ InTurn /\ InPlace /\ DueOnly /\ MemberInv /\ ResetAlone /\ CarriedOn
  BY DEF Settled, Carried, InTurn, HandInv, HandlesOK, ConfigInv, Outstanding
<1>. QED  BY <1>1, <1>2, <1>4, ReceiverMembers, ReceiverResets, ReceiverCarriesOn

-------------------------------------------------------------------------------
(* The main thread finds no session when it fills a packet, and ends one when  *)
(* it begins another.                                                          *)
LEMMA MainCarries ==
  ASSUME Settled, Settled', Carried, PressKey \/ CliContinue, PressKey => Quiet,
         UNCHANGED <<dongle, air, nodes>>, cpc' # "new" => (sound' => sound)
  PROVE  Carried'
<1>. SUFFICES ASSUME Live', Roomy' PROVE MemberInv' /\ ResetAlone' /\ CarriedOn'
  BY DEF Carried
<1>1. GTypeOK /\ TypeOK /\ Process /\ InTurn' /\ HandlesOK'
  BY DEF Settled, InTurn, GTypeOK, HandInv
<1>2. /\ UNCHANGED <<rpc, toHost>>
      /\ UNCHANGED <<scanning, link, txs, air, devkeys, addrs>>
  BY <1>1, MainWrites DEF dongle, receiver
<1>3. rpc = "idle" /\ toHost = <<>> /\ ~scanning /\ air = {}
      /\ link.phase = "none" /\ txs = 0 /\ (cpc # "new" => toDongle = <<>>)
  BY <1>1 DEF Process, KeyAlone, Quiet, NoLink, PressKey, CliContinue, PressScanStart,
      PressScanStop, PressOnOff, PressComposition, PressNodeReset, PressPacket, ResetState,
      FillDestination, WritePacket, Press
<1>4. sound /\ cpc' # "new" /\ Roomy
  BY <1>2 DEF Live, Roomy
<1>5. Reached' = STATE_NEW
  <2>1. CASE cpc = "new"
    <3>1. ResetState
      BY <2>1 DEF PressKey, CliContinue, PressScanStart, PressScanStop, PressOnOff,
         PressComposition, PressNodeReset, PressPacket, Press, FillDestination, WritePacket
    <3>. QED  BY <1>2, <1>3, <3>1 DEF ResetState, Reached
  <2>2. CASE cpc # "new"
    <3>1. Live /\ Empty
      BY <1>3, <1>4, <2>2 DEF Live, Empty
    <3>2. Reached = STATE_NEW
      BY <1>4, <3>1, RestsWhenEmpty
    <3>3. UNCHANGED state
      BY <1>1, <2>2, MainWrites
    <3>. QED  BY <1>2, <1>3, <3>2, <3>3 DEF Reached
  <2>. QED  BY <2>1, <2>2
<1>6. MemberInv' /\ CarriedOn'
  <2>1. Unoccupied'
    BY <1>1, <1>2, <1>3, <1>5 DEF Unoccupied
  <2>2. Unoccupied' => MemberInv' /\ CarriedOn'
    BY NobodyWaits, PTL
  <2>. QED  BY <2>1, <2>2
<1>7. ResetAlone'
  <2>1. ~Has(toHost', "UNPROVISIONED_RECEIVED")
    BY <1>2, <1>3, NothingOnItsWay
  <2>2. ResetOnWay' => ~Has(toDongle', "DFU_JUMP_TO_BOOTLOADER")
    <3>1. CASE cpc = "new"
      <4>1. cpc' = "getchar" /\ (toDongle = <<>> \/ toDongle = <<Cmd("DFU_JUMP_TO_BOOTLOADER")>>)
            /\ UNCHANGED toDongle
        BY <1>1, <1>4, <3>1 DEF Process, KeyAlone, PressKey, CliContinue, PressScanStart,
           PressScanStop, PressOnOff, PressComposition, PressNodeReset, PressPacket, Press,
           FillDestination, WritePacket, ResetState
      <4>2. \A c \in Range(toDongle') : ~IsReset(c)
        BY <4>1, ShortRange DEF Cmd, IsReset
      <4>. QED  BY <1>2, <1>3, <4>1, <4>2 DEF ResetOnWay
    <3>2. CASE cpc # "new" /\ UNCHANGED toDongle
      BY <1>3, <3>2, NothingOnItsWay
    <3>3. ASSUME cpc # "new", NEW c \in Commands, Write(<<c>>),
                 c.op \in {"PROV_SCAN_STOP", "PACKET_SEND"}
          PROVE  ~Has(toDongle', "DFU_JUMP_TO_BOOTLOADER")
      <4>1. ~Has(toDongle, "DFU_JUMP_TO_BOOTLOADER")
        BY <1>3, <3>3, NothingOnItsWay
      <4>. QED  BY <1>1, <3>3, <4>1, CommandWritten
    <3>. QED  BY <1>1, <1>4, <3>1, <3>2, <3>3, MainWrites
  <2>. QED  BY <1>2, <1>3, <1>5, <2>1, <2>2 DEF ResetAlone
<1>. QED  BY <1>6, <1>7

-------------------------------------------------------------------------------
(* Which of the steps outside the process do what, as long as no message is    *)
(* lost.                                                                       *)
LEMMA OutsideDoes ==
  ASSUME GTypeOK, Outside, sound'
  PROVE  /\ ~Loss /\ ~WriteFails
         /\ DongleDevkeyAdd \/ UNCHANGED devkeys
         /\ DongleAddrPublicationAdd \/ UNCHANGED addrs
         /\ DongleAuthData \/ NodeAnswers \/ UNCHANGED member
         /\ DonglePacketSend \/ NodeAnswers \/ UNCHANGED air
         /\ DonglePacketSend \/ DongleTxComplete \/ UNCHANGED txs
         /\ scanning' => scanning \/ (toDongle # <<>> /\ Head(toDongle).op = "DFU_JUMP_TO_BOOTLOADER")
<1>. DEFINE Goal ==
         /\ ~Loss /\ ~WriteFails
         /\ DongleDevkeyAdd \/ UNCHANGED devkeys
         /\ DongleAddrPublicationAdd \/ UNCHANGED addrs
         /\ DongleAuthData \/ NodeAnswers \/ UNCHANGED member
         /\ DonglePacketSend \/ NodeAnswers \/ UNCHANGED air
         /\ DonglePacketSend \/ DongleTxComplete \/ UNCHANGED txs
         /\ scanning' => scanning \/ (toDongle # <<>> /\ Head(toDongle).op = "DFU_JUMP_TO_BOOTLOADER")
<1>. HIDE DEF Goal
<1>. SUFFICES Goal
  BY DEF Goal
<1>1. ~Loss /\ ~WriteFails
  BY FaultHand DEF Loss, WriteFails
<1>2. CASE DongleScan
  BY <1>1, <1>2 DEF Goal, DongleScan, Command, nodes
<1>3. CASE \/ DongleProvision \/ DongleOobUse \/ DongleEcdhSecret
  BY <1>1, <1>3 DEF Goal, DongleProvision, DongleOobUse, DongleEcdhSecret, LinkStep, nodes
<1>4. CASE \/ DongleLocalUnicastSet \/ DongleSubnetAdd \/ DongleAppKeyAdd
           \/ DongleAddrPublicationAdd \/ DongleDevkeyAdd
  BY <1>1, <1>4 DEF Goal, DongleLocalUnicastSet, DongleSubnetAdd, DongleAppKeyAdd,
     DongleAddrPublicationAdd, DongleDevkeyAdd, world, dongle, nodes
<1>5. CASE DongleAuthData \/ DonglePacketSend
  BY <1>1, <1>5 DEF Goal, DongleAuthData, DonglePacketSend, LinkStep, nodes
<1>6. CASE DongleTxComplete \/ LinkClosed \/ Beacon \/ NodeAnswers
  <2>1. CASE DongleTxComplete
    BY <1>1, <2>1 DEF Goal, DongleTxComplete, nodes
  <2>2. CASE LinkClosed
    BY <1>1, <2>2 DEF Goal, LinkClosed, nodes
  <2>3. CASE Beacon
    BY <1>1, <2>3 DEF Goal, Beacon, world, dongle, nodes
  <2>4. CASE NodeAnswers
    BY <1>1, <2>4 DEF Goal, NodeAnswers, dongle
  <2>. QED  BY <1>6, <2>1, <2>2, <2>3, <2>4
<1>7. \/ DongleScan \/ DongleLocalUnicastSet \/ DongleSubnetAdd \/ DongleAppKeyAdd
      \/ DongleDevkeyAdd \/ DongleAddrPublicationAdd \/ DonglePacketSend
      \/ DongleTxComplete \/ Beacon \/ NodeAnswers
      \/ DongleProvision \/ LinkClosed \/ DongleOobUse \/ DongleEcdhSecret \/ DongleAuthData
  BY <1>1 DEF Outside, DongleCommand
<1>. QED  BY <1>2, <1>3, <1>4, <1>5, <1>6, <1>7

(* Who takes the commands that a session waits for.                            *)
LEMMA OutsideServes ==
  ASSUME GTypeOK, Outside, ~WriteFails, toDongle # <<>>, toDongle' = Tail(toDongle)
  PROVE  /\ Head(toDongle).op = "DEVKEY_ADD" <=> DongleDevkeyAdd
         /\ Head(toDongle).op = "PACKET_SEND" <=> DonglePacketSend
<1>1. Tail(toDongle) # toDongle
  BY DEF GTypeOK, TypeOK
<1>2. ~DongleTxComplete /\ ~LinkClosed /\ ~Beacon /\ ~NodeAnswers /\ ~Loss
  BY <1>1 DEF DongleTxComplete, LinkClosed, Beacon, NodeAnswers, Loss
<1>. DEFINE op == Head(toDongle).op
<1>3. \A o : Command(o) => op = o
  BY DEF Command
<1>. HIDE DEF op
<1>4. /\ DongleScan => op \in {"DFU_JUMP_TO_BOOTLOADER", "PROV_SCAN_STOP"}
      /\ DongleProvision => op = "PROV_PROVISION"
      /\ DongleOobUse => op = "PROV_OOB_USE"
      /\ DongleEcdhSecret => op = "PROV_ECDH_SECRET"
      /\ DongleAuthData => op = "PROV_AUTH_DATA"
      /\ DongleLocalUnicastSet => op = "ADDR_LOCAL_UNICAST_SET"
  BY <1>3 DEF DongleScan, DongleProvision, DongleOobUse, DongleEcdhSecret, DongleAuthData,
     DongleLocalUnicastSet, LinkStep
<1>5. /\ DongleSubnetAdd => op = "SUBNET_ADD"
      /\ DongleAppKeyAdd => op = "APPKEY_ADD"
      /\ DongleDevkeyAdd => op = "DEVKEY_ADD"
      /\ DongleAddrPublicationAdd => op = "ADDR_PUBLICATION_ADD"
      /\ DonglePacketSend => op = "PACKET_SEND"
  BY <1>3 DEF DongleSubnetAdd, DongleAppKeyAdd, DongleDevkeyAdd, DongleAddrPublicationAdd,
     DonglePacketSend
<1>6. \/ DongleScan \/ DongleLocalUnicastSet \/ DongleSubnetAdd \/ DongleAppKeyAdd
      \/ DongleDevkeyAdd \/ DongleAddrPublicationAdd \/ DonglePacketSend
      \/ DongleProvision \/ DongleOobUse \/ DongleEcdhSecret \/ DongleAuthData
  BY <1>2 DEF Outside, DongleCommand
<1>7. /\ op = "DEVKEY_ADD" <=> DongleDevkeyAdd
      /\ op = "PACKET_SEND" <=> DonglePacketSend
  BY <1>4, <1>5, <1>6
<1>. QED  BY <1>7 DEF op

(* A device joins, or the dongle gives out the handle of its key.              *)
LEMMA OutsideMembers ==
  ASSUME Settled, Installed, MemberInv, Outside, member \subseteq member', Live', Roomy'
  PROVE  MemberInv'
<1>0. GTypeOK /\ TypeOK /\ Process /\ Installing /\ HandlesOK
  BY DEF Settled, InTurn, GTypeOK, HandInv
<1>1. /\ HostFrame /\ UNCHANGED <<rpc, job>>
      /\ UNCHANGED toDongle \/ (toDongle # <<>> /\ toDongle' = Tail(toDongle))
  BY <1>0, OutsideFrame DEF HostFrame, receiver
<1>2. sound' /\ ~WriteFails /\ (DongleDevkeyAdd \/ UNCHANGED devkeys)
  BY <1>0, OutsideDoes DEF Live
<1>3. Range(toDongle') \subseteq Range(toDongle)
  BY <1>0, OutsideTakes
<1>4. \A k : InMember(k) => InMember(k)'
  <2>1. UNCHANGED devkeys \/ \E x : devkeys' = Append(devkeys, x)
    BY <1>2 DEF DongleDevkeyAdd
  <2>. QED  BY <1>0, <2>1, KnownKept DEF InMember
<1>5. CASE DongleDevkeyAdd
  <2>1. /\ Head(toDongle).op = "DEVKEY_ADD" /\ Head(toDongle) \in Range(toDongle)
    BY <1>0, <1>1, <1>5, KeyGiven DEF DongleDevkeyAdd, Command
  <2>2. Head(toDongle).dev \in member
    BY <2>1 DEF MemberInv
  <2>3. PICK k, x, e : /\ x.dev = Head(toDongle).dev /\ KeyKnown(k)' /\ KeyAt(k)' = x
                       /\ e \in Events /\ e.op = "DEVKEY_ADD" /\ e.val = k /\ Answer(<<e>>)
    BY <1>0, <1>1, <1>5, KeyGiven
  <2>4. InMember(k)'
    BY <2>2, <2>3 DEF InMember
  <2>5. EventMember(e)'
    BY <2>3, <2>4 DEF EventMember
  <2>6. Range(toHost') = Range(toHost) \cup {e} /\ Has(toHost', "DEVKEY_ADD")
    BY <1>0, <2>3, EventsReported DEF TypeOK
  <2>7. MemberFrame
    BY <1>3, <1>4, <2>5, <2>6 DEF MemberFrame, OnWay
  <2>. QED  BY <1>1, <2>7, MemberFrameKeeps
<1>6. CASE ~DongleDevkeyAdd
  <2>1. OnWay("DEVKEY_ADD") => OnWay("DEVKEY_ADD")'
    <3>1. Has(toDongle, "DEVKEY_ADD") => Has(toDongle', "DEVKEY_ADD")
      <4>1. CASE toDongle # <<>> /\ toDongle' = Tail(toDongle)
        BY <1>0, <1>2, <1>6, <4>1, OutsideServes, CommandTaken DEF TypeOK
      <4>. QED  BY <1>1, <4>1
    <3>2. Has(toHost, "DEVKEY_ADD") => Has(toHost', "DEVKEY_ADD")
      BY <1>0, OutsideReports, EventsReported DEF TypeOK
    <3>. QED  BY <1>1, <3>1, <3>2 DEF OnWay
  <2>2. \A e \in Range(toHost') : e \in Range(toHost) \/ EventMember(e)'
    <3>1. CASE UNCHANGED toHost
      BY <3>1
    <3>2. ASSUME NEW e \in Events, Answer(<<e>>), e.op = "COMPLETE" => e.dev \in member',
                 e.op = "DEVKEY_ADD" => DongleDevkeyAdd
          PROVE  \A x \in Range(toHost') : x \in Range(toHost) \/ EventMember(x)'
      <4>1. EventMember(e)'
        BY <1>6, <3>2 DEF EventMember
      <4>2. Range(toHost') = Range(toHost) \cup {e}
        BY <1>0, <3>2, EventsReported DEF TypeOK
      <4>. QED  BY <4>1, <4>2
    <3>. QED  BY <1>0, <3>1, <3>2, OutsideReports
  <2>3. MemberFrame
    BY <1>3, <1>4, <2>1, <2>2 DEF MemberFrame
  <2>. QED  BY <1>1, <2>3, MemberFrameKeeps
<1>. QED  BY <1>5, <1>6

(* Nobody but the main thread writes a reset, and only a scan brings a beacon. *)
LEMMA OutsideResets ==
  ASSUME Settled, ResetAlone, Outside, sound' PROVE ResetAlone'
<1>0. GTypeOK /\ TypeOK /\ Process
  BY DEF Settled, InTurn, GTypeOK
<1>1. HostFrame /\ UNCHANGED cli
  BY <1>0, OutsideFrame DEF HostFrame
<1>2. /\ Range(toDongle') \subseteq Range(toDongle)
      /\ \A op : Has(toDongle', op) => Has(toDongle, op)
  BY <1>0, OutsideTakes
<1>3. scanning' => scanning \/ Has(toDongle, "DFU_JUMP_TO_BOOTLOADER")
  BY <1>0, OutsideDoes, TailHas DEF TypeOK
<1>4. Has(toHost', "UNPROVISIONED_RECEIVED") => Has(toHost, "UNPROVISIONED_RECEIVED") \/ scanning
  BY <1>0, OutsideReports, OutsideNeeds, EventsReported DEF TypeOK
<1>5. ResetOnWay' => ResetOnWay
  <2>1. CASE DonglePacketSend
    <3>1. Head(toDongle) \in Range(toDongle) /\ Head(toDongle).op = "PACKET_SEND"
      BY <1>0, <2>1, CommandTaken DEF DonglePacketSend, Command, TypeOK
    <3>2. \A m \in air' : m \in air \/ m.msg = Head(toDongle).msg
      BY <2>1 DEF DonglePacketSend
    <3>. QED  BY <1>1, <1>2, <3>1, <3>2 DEF ResetOnWay, IsReset, cli
  <2>2. CASE ~DonglePacketSend
    <3>1. air' \subseteq air
      BY <1>0, <2>2, OutsideDoes DEF NodeAnswers
    <3>. QED  BY <1>1, <1>2, <3>1 DEF ResetOnWay, cli
  <2>. QED  BY <2>1, <2>2
<1>6. ResetFrame
  BY <1>2, <1>3, <1>4, <1>5 DEF ResetFrame
<1>. QED  BY <1>1, <1>6, ResetFrameKeeps

(* What flies for a session is written, taken and answered without a loss.     *)
LEMMA OutsideCarriesOn ==
  ASSUME Settled, MemberInv, CarriedOn, InPlace, Outside, sound'
  PROVE  CarriedOn'
<1>0. GTypeOK /\ TypeOK /\ WorldTypeOK /\ Process /\ LinkInv /\ Outstanding
  BY DEF Settled, InTurn, GTypeOK, ConfigInv
<1>1. /\ UNCHANGED <<rpc, state, devkey_handle>> /\ Reached' = Reached
      /\ UNCHANGED toDongle \/ (toDongle # <<>> /\ toDongle' = Tail(toDongle))
  BY <1>0, OutsideFrame DEF HostFrame, handles, receiver, Reached
<1>2. /\ ~Loss /\ ~WriteFails
      /\ DonglePacketSend \/ NodeAnswers \/ UNCHANGED air
      /\ DonglePacketSend \/ DongleTxComplete \/ UNCHANGED txs
  BY <1>0, OutsideDoes
<1>3. Range(toHost) \subseteq Range(toHost')
  BY <1>0, OutsideReports, EventsReported DEF TypeOK
<1>4. ASSUME NEW c \in Range(toDongle), c.op = "PACKET_SEND", c \notin Range(toDongle')
      PROVE  DonglePacketSend /\ c = Head(toDongle)
  <2>1. toDongle # <<>> /\ toDongle' = Tail(toDongle) /\ c = Head(toDongle)
    BY <1>0, <1>1, <1>4, CommandTaken DEF TypeOK
  <2>. QED  BY <1>0, <1>2, <1>4, <2>1, OutsideServes
<1>5. ASSUME NEW c \in Range(toDongle), NodePacket(c), DonglePacketSend, c = Head(toDongle)
      PROVE  /\ txs' > 0
             /\ Paired(c.key, c.dst)
             /\ air' = air \cup {[dev |-> n, msg |-> c.msg, elem |-> c.elem] : n \in Addressees(c)}
  <2>1. Paired(c.key, c.dst)
    BY <1>5 DEF InPlace, GoodCommand, NodePacket
  <2>2. KnownKey(c) /\ KnownDst(c)
    BY <2>1 DEF Paired, KeyKnown, DstKnown, KnownKey, KnownDst
  <2>3. txs \in Nat
    BY <1>0 DEF WorldTypeOK
  <2>. QED  BY <1>5, <2>1, <2>2, <2>3 DEF DonglePacketSend
<1>6. ASSUME Reached = PS_COMPOSDATA, rpc # "body" PROVE CompositionComing'
  <2>1. CASE \E c \in Range(toDongle) : NodePacket(c)
    <3>1. PICK c \in Range(toDongle) : NodePacket(c)
      BY <2>1
    <3>2. CASE c \in Range(toDongle')
      BY <3>1, <3>2 DEF CompositionComing
    <3>3. CASE c \notin Range(toDongle')
      BY <1>4, <1>5, <3>1, <3>3 DEF CompositionComing, NodePacket
    <3>. QED  BY <3>2, <3>3
  <2>2. CASE Has(toHost, "TX_COMPLETE")
    BY <1>3, <2>2 DEF Has, CompositionComing
  <2>3. CASE txs > 0
    <3>1. CASE DongleTxComplete
      <4>1. Answer(<<Report("TX_COMPLETE")>>)
        BY <3>1 DEF DongleTxComplete
      <4>2. Report("TX_COMPLETE") \in Events /\ Report("TX_COMPLETE").op = "TX_COMPLETE"
        BY ReportTypes DEF Reports
      <4>3. Has(toHost', "TX_COMPLETE")
        BY <1>0, <4>1, <4>2, EventsReported DEF TypeOK
      <4>. QED  BY <4>3 DEF CompositionComing
    <3>2. CASE DonglePacketSend
      BY <1>0, <2>3, <3>2 DEF DonglePacketSend, WorldTypeOK, CompositionComing
    <3>. QED  BY <1>2, <2>3, <3>1, <3>2 DEF CompositionComing
  <2>. QED  BY <1>6, <2>1, <2>2, <2>3 DEF CarriedOn, CompositionComing
<1>7. ASSUME Reached > PS_COMPOSDATA, rpc # "body" PROVE ConfigComing'
  <2>. DEFINE key == KeyAt(devkey_handle)
  <2>1. /\ KeyKnown(devkey_handle) /\ key.dev \in member
        /\ key.owner = nodeAddr[key.dev]
    <3>1. Reached \in Int /\ Reached > DEVKEY_ADDRPUBADD /\ ~Storing /\ Reached # AUTH
      <4>1. Reached \in Int
        BY <1>0 DEF TypeOK, States, Reached, Rungs
      <4>. QED  BY <1>7, <4>1 DEF Storing
    <3>2. ~CompleteComing
      BY <1>0, <3>1 DEF InPlace, LinkInv, CompleteInTurn
    <3>3. Paired(devkey_handle, dst_addr_handle)
      BY <3>1, <3>2 DEF InPlace
    <3>4. ~OnWay("DEVKEY_ADD")
      BY <3>1 DEF InPlace, HandleOps
    <3>5. InMember(devkey_handle)
      BY <3>1, <3>4 DEF MemberInv
    <3>. QED  BY <3>3, <3>5 DEF Paired, InMember
  <2>. HIDE DEF key
  <2>2. CASE ConfigTaken
    BY <1>3, <2>2 DEF ConfigTaken, ConfigComing
  <2>3. CASE ConfigSent
    <3>1. PICK c \in Range(toDongle) : c \in ConfigPackets
      BY <2>3 DEF ConfigSent
    <3>2. CASE c \in Range(toDongle')
      BY <3>1, <3>2 DEF ConfigComing, ConfigSent
    <3>3. CASE c \notin Range(toDongle')
      <4>1. NodePacket(c) /\ c.key = devkey_handle /\ c.msg \in ConfigMessages
        BY <1>0, <3>1 DEF Outstanding, DueOnly, ConfigPackets, NodePacket, ConfigMessages
      <4>2. DonglePacketSend /\ c = Head(toDongle)
        BY <1>4, <3>3, <4>1 DEF NodePacket
      <4>3. Paired(devkey_handle, c.dst)
        BY <1>5, <4>1, <4>2
      <4>4. air' = air \cup {[dev |-> n, msg |-> c.msg, elem |-> c.elem] : n \in Addressees(c)}
        BY <1>5, <4>1, <4>2
      <4>5. key.dev \in Addressees(c)
        BY <2>1, <4>1, <4>3 DEF Paired, Addressees, AddrOf, DstAt, KeyOf, KeyAt, key
      <4>6. [dev |-> key.dev, msg |-> c.msg, elem |-> c.elem] \in air'
        BY <4>4, <4>5
      <4>. QED  BY <4>1, <4>6 DEF ConfigComing, ConfigFlying
    <3>. QED  BY <3>2, <3>3
  <2>4. CASE ConfigFlying
    <3>1. PICK m \in air : m.msg \in ConfigMessages
      BY <2>4 DEF ConfigFlying
    <3>2. CASE m \in air'
      BY <3>1, <3>2 DEF ConfigComing, ConfigFlying
    <3>3. CASE m \notin air'
      <4>1. NodeAnswers
        BY <1>2, <3>1, <3>3 DEF DonglePacketSend
      <4>2. Answer(IF m.dev \in member /\ Understood(m)
                   THEN <<Event(StatusOf(m.msg), TRUE, m.elem, NoDevice)>> ELSE <<>>)
        BY <3>1, <3>3, <4>1 DEF NodeAnswers
      <4>3. m.dev = key.dev
        BY <1>0, <3>1 DEF Outstanding, Progress, Aimed, key
      <4>4. Understood(m)
        <5>1. PICK i : i = devkey_handle - DevkeyBase
          OBVIOUS
        <5>2. i + 1 \in DOMAIN devkeys /\ key = devkeys[i + 1]
          <6>1. i \in 0 .. Len(devkeys) - 1 /\ key = devkeys[i + 1]
            BY <2>1, <5>1 DEF KeyKnown, KeyAt, key
          <6>2. DOMAIN devkeys = 1 .. Len(devkeys) /\ Len(devkeys) \in Nat
            BY <1>0 DEF WorldTypeOK
          <6>. QED  BY <6>1, <6>2
        <5>3. devkeys[i + 1] \in [owner : U16Int, dev : Devices \cup {NoDevice}]
          <6>. DEFINE S == [owner : U16Int, dev : Devices \cup {NoDevice}]
          <6>1. devkeys \in Seq(S)
            BY <1>0 DEF WorldTypeOK
          <6>. HIDE DEF S
          <6>2. devkeys[i + 1] \in S
            BY <5>2, <6>1
          <6>. QED  BY <6>2 DEF S
        <5>4. key = [owner |-> key.owner, dev |-> key.dev]
          BY <5>2, <5>3
        <5>. QED  BY <2>1, <4>3, <5>2, <5>4 DEF Understood
      <4>. DEFINE e == Event(StatusOf(m.msg), TRUE, m.elem, NoDevice)
      <4>5. e \in Events /\ e \in StatusEvents
        <5>1. m.elem \in U16Int /\ StatusOf(m.msg) \in ConfigStatuses
          BY <1>0, <3>1, StatusNames DEF WorldTypeOK
        <5>2. StatusOf(m.msg) \in EventOps /\ NoDevice \in Devices \cup {NoDevice}
          BY <1>0, <3>1, StatusNames DEF WorldTypeOK
        <5>3. e \in Events
          BY <5>1, <5>2, ReportTypes
        <5>. QED  BY <5>1, <5>2, <5>3 DEF StatusEvents, Event
      <4>6. Answer(<<e>>)
        BY <2>1, <4>2, <4>3, <4>4
      <4>. HIDE DEF e
      <4>7. e \in Range(toHost')
        BY <1>0, <4>5, <4>6, EventsReported DEF TypeOK
      <4>. QED  BY <4>5, <4>7 DEF ConfigComing, ConfigTaken
    <3>. QED  BY <3>2, <3>3
  <2>. QED  BY <1>7, <2>2, <2>3, <2>4 DEF CarriedOn, ConfigComing
<1>. QED  BY <1>1, <1>6, <1>7 DEF CarriedOn

(* Together, with the node that a reset takes out of the network.              *)
LEMMA OutsideCarries ==
  ASSUME Settled, Settled', Installed, Carried, Outside PROVE Carried'
<1>. SUFFICES ASSUME Live', Roomy' PROVE MemberInv' /\ ResetAlone' /\ CarriedOn'
  BY DEF Carried
<1>0. GTypeOK /\ WorldTypeOK /\ Process /\ HandlesOK /\ InTurn' /\ HandlesOK'
  BY DEF Settled, InTurn, GTypeOK, HandInv
<1>1. HostFrame /\ UNCHANGED <<rpc, cpc>> /\ Reached' = Reached
  BY <1>0, OutsideFrame DEF HostFrame, receiver, cli, Reached
<1>2. sound' /\ (sound' => sound)
  BY <1>0, OutsideTakes DEF Live
<1>3. Roomy
  <2>1. /\ UNCHANGED devkeys \/ \E k : devkeys' = Append(devkeys, k)
        /\ UNCHANGED addrs \/ \E a : addrs' = Append(addrs, a)
    BY <1>0, <1>2, OutsideDoes DEF DongleDevkeyAdd, DongleAddrPublicationAdd
  <2>2. /\ Len(devkeys) \in Nat /\ Len(devkeys') \in Nat /\ Len(devkeys) <= Len(devkeys')
        /\ Len(addrs) \in Nat /\ Len(addrs') \in Nat /\ Len(addrs) <= Len(addrs')
    BY <1>0, <2>1, Appended DEF WorldTypeOK
  <2>3. DevkeyBase \in Nat /\ U16 \in Nat
    BY GatewayAssumption, HostAssumption DEF GatewayAssumption, HostAssumption, U16Int
  <2>. QED  BY <2>2, <2>3 DEF Roomy
<1>4. Live /\ InPlace /\ MemberInv /\ ResetAlone /\ CarriedOn
  BY <1>0, <1>1, <1>2, <1>3 DEF Live, Carried, HandlesOK
<1>5. ResetAlone'
  BY <1>2, <1>4, OutsideResets
<1>6. CASE member \subseteq member'
  BY <1>2, <1>4, <1>5, <1>6, OutsideMembers, OutsideCarriesOn
<1>7. CASE ~(member \subseteq member')
  <2>1. NodeAnswers
    BY <1>0, <1>2, <1>7, OutsideDoes DEF DongleAuthData
  <2>2. \E m \in air : m.msg = "NODE_RESET"
    BY <1>7, <2>1 DEF NodeAnswers, Take
  <2>3. Reached = STATE_NEW /\ rpc = "idle"
    BY <1>4, <2>2 DEF ResetAlone, ResetOnWay
  <2>4. Unoccupied'
    BY <1>0, <1>1, <2>3 DEF Unoccupied
  <2>5. Unoccupied' => MemberInv' /\ CarriedOn'
    BY NobodyWaits, PTL
  <2>. QED  BY <1>5, <2>4, <2>5
<1>. QED  BY <1>6, <1>7

-------------------------------------------------------------------------------
(* At the start no session is live.                                            *)
LEMMA CarriedStart == ASSUME GInit PROVE Carried
BY DEF GInit, Carried, Live

(* No step of the whole system leaves a session without what it waits for.     *)
LEMMA CarriedStep ==
  ASSUME Careful, Settled, Settled', Installed, Carried, [GNext]_gVars PROVE Carried'
<1>0. GTypeOK /\ TypeOK /\ Process
  BY DEF Settled, InTurn, GTypeOK
<1>1. CASE UNCHANGED gVars
  <2>1. /\ UNCHANGED <<toHost, toDongle, devkey_handle, state, rpc, job, cpc, packet>>
        /\ UNCHANGED <<sound, scanning, link, devkeys, addrs, txs, air, member>>
    BY <1>1
    DEF gVars, hostVars, handles, receiver, cli, world, dongle, install, nodes, luck
  <2>2. /\ Live' <=> Live
        /\ Roomy' <=> Roomy
        /\ Reached' = Reached
    BY <2>1 DEF Live, Roomy, Reached
  <2>3. MemberInv => MemberInv'
    BY <2>1, <2>2 DEF MemberInv, EventMember, InMember, KeyKnown, KeyAt, InHand, OnWay
  <2>4. ResetAlone => ResetAlone'
    BY <2>1, <2>2 DEF ResetAlone, ResetOnWay
  <2>5. CarriedOn => CarriedOn'
    BY <2>1, <2>2 DEF CarriedOn, CompositionComing, ConfigComing, ConfigSent,
       ConfigFlying, ConfigTaken
  <2>. QED  BY <2>2, <2>3, <2>4, <2>5 DEF Carried
<1>2. CASE HostStep /\ ReceiverNext
  <2>1. UNCHANGED world
    BY <1>2 DEF HostStep
  <2>. QED  BY <1>2, <2>1, ReceiverCarries
<1>3. CASE (HostStep /\ CliContinue) \/ User
  BY <1>3, MainStep, MainCarries
<1>4. CASE Outside
  BY <1>4, OutsideCarries
<1>5. CASE DongleRadioReset /\ DongleCommand
  BY <1>0, <1>5, ResetStep DEF Carried, Live
<1>6. CASE DongleRestart \/ Crash
  BY <1>6 DEF DongleRestart, Crash, Fault, Careful
<1>. QED
  BY <1>1, <1>2, <1>3, <1>4, <1>5, <1>6 DEF GNext, Outside, DongleStep, HostStep

(* With a dongle that is set up a session is carried on all along.             *)
LEMMA CarriedAlways ==
  ASSUME Careful, "DFU_JUMP_TO_BOOTLOADER" \in ScanOpcodes
  PROVE  GSpec => [](Installed => Settled /\ Carried)
<1>. DEFINE Kept == InTurn /\ HandKept /\ ConfigInv
<1>1. GSpec => []Kept
  <2>1. GSpec => [](InTurn /\ HandKept)
    BY HandAlways
  <2>2. GSpec => []ConfigInv
    BY ConfigAlways
  <2>. QED  BY <2>1, <2>2, PTL
<1>2. Kept /\ Installed => Settled
  BY DEF Settled, HandKept, HandInv
<1>3. Kept' /\ Installed' => Settled'
  BY <1>2, PTL
<1>4. GInit => (Installed => Carried)
  BY CarriedStart
<1>5. Kept /\ Kept' /\ (Installed => Carried) /\ [GNext]_gVars => (Installed' => Carried')
  <2>. SUFFICES ASSUME Kept, Kept', Installed => Carried, [GNext]_gVars, Installed'
                PROVE  Carried'
    OBVIOUS
  <2>1. CASE Installed
    BY <1>2, <1>3, <2>1, CarriedStep
  <2>2. CASE ~Installed
    BY <2>2, InstalledBefore DEF Carried
  <2>. QED  BY <2>1, <2>2
<1>. HIDE DEF Kept
<1>. QED  BY <1>1, <1>2, <1>4, <1>5, PTL DEF GSpec

(* When nothing is on its way any more the process has gone through its        *)
(* session to the end and awaits the next device, whatever the order in which  *)
(* the dongle and the nodes have answered: with a dongle that is set up, and   *)
(* has handles left, unless a fault hit the session that its handlers know no  *)
(* way out of.                                                                 *)
THEOREM SessionsEnd ==
  ASSUME Careful, "DFU_JUMP_TO_BOOTLOADER" \in ScanOpcodes
  PROVE  GSpec => [](Roomy => NeverStuck)
<1>1. ASSUME Installed => Settled /\ Carried, Roomy PROVE NeverStuck
  <2>. SUFFICES ASSUME sound, Installed, Quiet PROVE state = STATE_NEW
    BY DEF NeverStuck
  <2>1. Live /\ Empty
    BY DEF Quiet, Live, Empty, NoLink
  <2>2. Reached = STATE_NEW
    BY <1>1, <2>1, RestsWhenEmpty
  <2>. QED  BY <2>1, <2>2 DEF Reached, Empty
<1>. QED  BY <1>1, CarriedAlways, PTL
===============================================================================
