------------------------------- MODULE Gateway --------------------------------
(* The whole system: the gateway process of module Host, the mesh dongle on    *)
(* its serial port and the devices in radio range.  The dongle and the devices *)
(* are not in the repository: they are modelled from the commands and events   *)
(* of ble_cmd.h and ble_evt.h and from the sessions recorded in doc/.          *)
EXTENDS Host, FiniteSets

CONSTANTS
  ScanOpcodes,   \* the commands on which the firmware starts its scanner
  SubnetHandle,  \* handle the firmware gives the first subnet
  DevkeyBase,    \* handle it gives the first device key
  Faults,        \* what may go wrong in this instance, see FaultKinds
  Patient,       \* TRUE: the user presses a key only when nothing is going on
  Prompt,        \* TRUE: '1' resets the state before the dongle can react
  MaxPresses,    \* bound: keys pressed
  MaxFaults      \* bound: faults that happen

(* "drop": the provisioning link breaks.  "loss": a mesh message or its answer *)
(* is lost.  "reject": the dongle refuses to add a key or an address, for lack *)
(* of room.  "early": the link closes before the dongle has answered the last  *)
(* commands of the session.  "restart": the dongle reboots.  "write": a write  *)
(* to the serial port fails.  "crash": the process is killed and run again.    *)
FaultKinds == {"drop", "loss", "reject", "early", "restart", "write", "crash"}

ASSUME GatewayAssumption ==
  /\ IsFiniteSet(Devices)
  /\ SubnetHandle \in U16Int
  /\ DevkeyBase \in U16Int
  /\ DevkeyBase + MaxProvisions + MaxPresses < U16
  /\ Faults \subseteq FaultKinds
  /\ Patient \in BOOLEAN /\ Prompt \in BOOLEAN
  /\ MaxPresses \in Nat /\ MaxFaults \in Nat

VARIABLES
  scanning,  \* the dongle reports unprovisioned beacons
  subnet,    \* the dongle has its subnet
  appkeys,   \* the indices of the application keys it has
  link,      \* its provisioning link
  devkeys,   \* its device keys, in the order of their handles
  addrs,     \* its publication addresses, in the order of their handles
  txs,       \* packets sent whose TX_COMPLETE is still to come
  air,       \* mesh messages on their way to a node
  nodeAddr,  \* the address each device was last given, 0 before
  member,    \* the devices that are nodes of the network
  config,    \* the configuration messages each node has taken
  presses, faults,
  sound,     \* history: no fault but a broken link since the last '1'
  killed,    \* history: the process was killed
  unset      \* history: a command that sets up the dongle was not written since
             \* it booted

luck == <<faults, sound, killed, unset>>
install == <<subnet, appkeys>>
dongle == <<scanning, install, link, devkeys, addrs, txs>>
nodes  == <<nodeAddr, member, config>>
world  == <<dongle, air, nodes, presses, luck>>
gVars  == <<hostVars, world>>

NoLink      == [phase |-> "none", dev |-> NoDevice, addr |-> 0]
LinkPhases  == {"none", "invited", "oob", "secret", "complete"}
ConfigMessages  == {"APPKEY_ADD", "MODEL_APP_BIND", "MODEL_PUBLICATION_SET"}
SessionMessages == ConfigMessages \cup {"COMPOSITION_DATA_GET"}
(* What a dongle that has booted is sent.                                      *)
Setup == {"ADDR_LOCAL_UNICAST_SET", "SUBNET_ADD", "APPKEY_ADD"}

-------------------------------------------------------------------------------
(* The dongle takes one command off the serial port.                           *)
Command(op) == /\ toDongle # <<>>
               /\ Head(toDongle).op = op
               /\ toDongle' = Tail(toDongle)
Answer(events) == toHost' = toHost \o events
HostFrame == UNCHANGED <<state, handles, element_address, dev_addr, receiver, cli,
                         done>>
Fault(kind) == /\ kind \in Faults /\ faults < MaxFaults
               /\ faults' = faults + 1
               /\ sound' = (sound /\ kind = "drop")
               /\ killed' = (killed \/ kind = "crash")
               /\ unset' = CASE kind = "restart" -> FALSE
                             [] kind = "write"   -> unset \/ Head(toDongle).op \in Setup
                             [] OTHER            -> unset
CmdRsp(op, ok, val) == Event(op, ok, val, NoDevice)

Reboot ==
  /\ scanning' = FALSE /\ link' = NoLink
  /\ subnet' = FALSE /\ appkeys' = {}
  /\ devkeys' = <<>> /\ addrs' = <<>> /\ txs' = 0
  /\ Answer(<<Report("DEVICE_STARTED")>>)
  /\ UNCHANGED <<air, nodes, presses>>

DongleRadioReset == /\ Command("DEVICE_RADIO_RESET")
                    /\ Reboot
                    /\ unset' = FALSE
                    /\ UNCHANGED <<faults, sound, killed>>

DongleScan ==
  \/ /\ Command("DFU_JUMP_TO_BOOTLOADER")
     /\ scanning' = (scanning \/ "DFU_JUMP_TO_BOOTLOADER" \in ScanOpcodes)
     /\ UNCHANGED <<toHost, install, link, devkeys, addrs, txs, air, nodes,
                    presses, luck>>
  \/ /\ Command("PROV_SCAN_STOP")
     /\ scanning' = FALSE
     /\ UNCHANGED <<toHost, install, link, devkeys, addrs, txs, air, nodes,
                    presses, luck>>

(* One provisioning context: a second PROVISION is refused.  Inviting a device *)
(* that is a node already times out and closes the link.                       *)
DongleProvision ==
  /\ Command("PROV_PROVISION")
  /\ LET cmd  == Head(toDongle)
         free == link.phase = "none"
         here == cmd.dev \in Devices \ member
     IN /\ link' = IF free /\ here
                   THEN [phase |-> "invited", dev |-> cmd.dev, addr |-> cmd.addr]
                   ELSE link
        /\ Answer(CASE free /\ here  -> <<Report("CAPS_RECEIVED")>>
                    [] free /\ ~here -> <<Report("LINK_CLOSED")>>
                    [] OTHER         -> <<>>)
  /\ UNCHANGED <<scanning, install, devkeys, addrs, txs, air, nodes, presses, luck>>

(* The steps of an open link; out of turn they are refused.                    *)
LinkStep(op, from, to, event) ==
  /\ Command(op)
  /\ IF link.phase = from
     THEN link' = [link EXCEPT !.phase = to] /\ Answer(<<event>>)
     ELSE UNCHANGED <<link, toHost>>
  /\ UNCHANGED <<scanning, install, devkeys, addrs, txs, air, presses, luck>>

DongleOobUse == /\ LinkStep("PROV_OOB_USE", "invited", "oob", Report("ECDH_REQUEST"))
                /\ UNCHANGED nodes
DongleEcdhSecret ==
  /\ LinkStep("PROV_ECDH_SECRET", "oob", "secret", Report("AUTH_REQUEST"))
  /\ UNCHANGED nodes
DongleAuthData ==
  /\ LinkStep("PROV_AUTH_DATA", "secret", "complete",
              Event("COMPLETE", TRUE, link.addr, link.dev))
  /\ IF link.phase = "secret"
     THEN /\ nodeAddr' = [nodeAddr EXCEPT ![link.dev] = link.addr]
          /\ member' = member \cup {link.dev}
     ELSE UNCHANGED <<nodeAddr, member>>
  /\ UNCHANGED config

DongleLocalUnicastSet ==
  /\ Command("ADDR_LOCAL_UNICAST_SET")
  /\ Answer(<<CmdRsp("ADDR_LOCAL_UNICAST_SET", TRUE, 0)>>)
  /\ UNCHANGED world

DongleSubnetAdd ==
  /\ Command("SUBNET_ADD")
  /\ Answer(<<CmdRsp("SUBNET_ADD", ~subnet, SubnetHandle)>>)
  /\ subnet' = TRUE
  /\ UNCHANGED <<scanning, appkeys, link, devkeys, addrs, txs, air, nodes, presses, luck>>

DongleAppKeyAdd ==
  /\ Command("APPKEY_ADD")
  /\ appkeys' = IF subnet /\ Head(toDongle).subnet = SubnetHandle
                THEN appkeys \cup {Head(toDongle).index} ELSE appkeys
  /\ UNCHANGED <<toHost, scanning, subnet, link, devkeys, addrs, txs, air, nodes,
                 presses, luck>>

(* Adding a device key or an address: a handle, which has 16 bits, or a        *)
(* failure status.                                                             *)
DongleDevkeyAdd ==
  /\ Command("DEVKEY_ADD")
  /\ LET cmd    == Head(toDongle)
         handle == DevkeyBase + Len(devkeys)
         known  == subnet /\ cmd.subnet = SubnetHandle /\ handle \in U16Int
     IN \/ /\ known
           /\ devkeys' = Append(devkeys, [owner |-> cmd.owner, dev |-> cmd.dev])
           /\ Answer(<<CmdRsp("DEVKEY_ADD", TRUE, handle)>>)
           /\ UNCHANGED luck
        \/ /\ ~known
           /\ Answer(<<CmdRsp("DEVKEY_ADD", FALSE, 0)>>)
           /\ UNCHANGED <<devkeys, luck>>
        \/ /\ Fault("reject")
           /\ Answer(<<CmdRsp("DEVKEY_ADD", FALSE, 0)>>)
           /\ UNCHANGED devkeys
  /\ UNCHANGED <<scanning, install, link, addrs, txs, air, nodes, presses>>

DongleAddrPublicationAdd ==
  /\ Command("ADDR_PUBLICATION_ADD")
  /\ LET room == Len(addrs) \in U16Int
     IN \/ /\ addrs' = IF room THEN Append(addrs, Head(toDongle).addr) ELSE addrs
           /\ Answer(<<CmdRsp("ADDR_PUBLICATION_ADD", room,
                              IF room THEN Len(addrs) ELSE 0)>>)
           /\ UNCHANGED luck
        \/ /\ Fault("reject")
           /\ Answer(<<CmdRsp("ADDR_PUBLICATION_ADD", FALSE, 0)>>)
           /\ UNCHANGED addrs
  /\ UNCHANGED <<scanning, install, link, devkeys, txs, air, nodes, presses>>

(* A packet needs an address handle and, unless it is an application message,  *)
(* a device key that the dongle knows.  The node at the address understands it *)
(* if the key is its own; the dongle finds the key for the answer by its owner.*)
KnownKey(p) == p.msg = "ONOFF_SET" \/ p.key - DevkeyBase \in 0 .. Len(devkeys) - 1
KnownDst(p) == p.dst \in 0 .. Len(addrs) - 1
KeyOf(p)    == devkeys[p.key - DevkeyBase + 1]
AddrOf(p)   == addrs[p.dst + 1]

Addressees(p) ==
  {n \in member : /\ nodeAddr[n] = AddrOf(p)
                  /\ p.msg # "ONOFF_SET" => KeyOf(p).dev = n}

DonglePacketSend ==
  /\ Command("PACKET_SEND")
  /\ LET p == Head(toDongle) IN
     IF KnownKey(p) /\ KnownDst(p)
     THEN /\ txs' = txs + 1
          /\ air' = air \cup {[dev |-> n, msg |-> p.msg, elem |-> p.elem]
                                : n \in Addressees(p)}
     ELSE UNCHANGED <<txs, air>>
  /\ UNCHANGED <<toHost, scanning, install, link, devkeys, addrs, nodes, presses,
                 luck>>

DongleCommand ==
  /\ Prompt => cpc # "new"
  /\ \/ DongleRadioReset \/ DongleScan \/ DongleProvision \/ DongleOobUse
     \/ DongleEcdhSecret \/ DongleAuthData \/ DongleLocalUnicastSet
     \/ DongleSubnetAdd \/ DongleAppKeyAdd \/ DongleDevkeyAdd
     \/ DongleAddrPublicationAdd \/ DonglePacketSend
  /\ HostFrame

-------------------------------------------------------------------------------
(* What the dongle reports on its own account.                                 *)
DongleTxComplete ==
  /\ txs > 0
  /\ txs' = txs - 1
  /\ Answer(<<Report("TX_COMPLETE")>>)
  /\ UNCHANGED <<toDongle, scanning, install, link, devkeys, addrs, air, nodes,
                 presses, luck>>
  /\ HostFrame

Beacon ==
  /\ scanning /\ Len(toHost) < MaxQueue /\ done[PROVISION] < MaxProvisions
  /\ \E d \in Devices \ (member \cup {link.dev}) :
       Answer(<<Event("UNPROVISIONED_RECEIVED", TRUE, 0, d)>>)
  /\ UNCHANGED <<toDongle, world>>
  /\ HostFrame

(* The devices' answers take far longer than the serial commands that end the  *)
(* session: the link closes after those are answered, unless "early".          *)
Answered == toHost = <<>> /\ toDongle = <<>> /\ rpc = "idle"

LinkClosed ==
  /\ \/ link.phase = "complete" /\ Answered /\ UNCHANGED luck
     \/ link.phase = "complete" /\ Fault("early")
     \/ link.phase \in {"invited", "oob", "secret"} /\ Fault("drop")
  /\ link' = NoLink
  /\ Answer(<<Report("LINK_CLOSED")>>)
  /\ UNCHANGED <<toDongle, scanning, install, devkeys, addrs, txs, air, nodes, presses>>
  /\ HostFrame

DongleRestart ==
  /\ Fault("restart")
  /\ Reboot
  /\ UNCHANGED toDongle
  /\ HostFrame

(* ble_write returns the -1 of a failed write, and only ble_radioReset looks:  *)
(* the command is gone and its handler goes on.  Nobody sees it go before its  *)
(* turn comes.                                                                 *)
WriteFails ==
  /\ toDongle # <<>> /\ Head(toDongle).op # "DEVICE_RADIO_RESET"
  /\ Fault("write")
  /\ toDongle' = Tail(toDongle)
  /\ UNCHANGED <<toHost, dongle, air, nodes, presses>>
  /\ HostFrame

(* The process keeps nothing: run again, it counts from FirstAddr.  Closing    *)
(* the port discards what was not read.                                        *)
Crash ==
  /\ Fault("crash")
  /\ state' = STATE_NEW
  /\ dst_addr_handle' = 0 /\ devkey_handle' = 0 /\ subnet_handle' = 0
  /\ element_address' = 0
  /\ dev_addr' = FirstAddr
  /\ rpc' = "idle" /\ job' = NoJob
  /\ cpc' = "getchar" /\ packet' = PacketSend("ONOFF_SET", 0, 0, 0)
  /\ toHost' = <<>>
  /\ toDongle' = Append(toDongle, Cmd("DEVICE_RADIO_RESET"))
  /\ UNCHANGED <<done, dongle, air, nodes, presses>>

-------------------------------------------------------------------------------
(* A node takes a message and answers it.  Messages arrive in any order.       *)
StatusOf(msg) ==
  CASE msg = "COMPOSITION_DATA_GET"  -> "COMPOSITION_DATA_STATUS"
    [] msg = "APPKEY_ADD"            -> "APPKEY_STATUS"
    [] msg = "MODEL_APP_BIND"        -> "MODEL_APP_STATUS"
    [] msg = "MODEL_PUBLICATION_SET" -> "MODEL_PUBLICATION_STATUS"
    [] OTHER                         -> "OTHER_MESSAGE"

Take(m) ==
  /\ config' = [config EXCEPT ![m.dev] = CASE m.msg = "NODE_RESET"     -> {}
                                           [] m.msg \in ConfigMessages -> @ \cup {m.msg}
                                           [] OTHER                    -> @]
  /\ member' = IF m.msg = "NODE_RESET" THEN member \ {m.dev} ELSE member

Understood(m) ==
  m.msg = "ONOFF_SET" \/ \E i \in DOMAIN devkeys :
                           devkeys[i] = [owner |-> nodeAddr[m.dev], dev |-> m.dev]

NodeAnswers ==
  /\ \E m \in air :
       /\ air' = air \ {m}
       /\ IF m.dev \in member THEN Take(m) ELSE UNCHANGED <<config, member>>
       /\ Answer(IF m.dev \in member /\ Understood(m)
                 THEN <<Event(StatusOf(m.msg), TRUE, m.elem, NoDevice)>>
                 ELSE <<>>)
  /\ UNCHANGED <<toDongle, dongle, nodeAddr, presses, luck>>
  /\ HostFrame

(* Either the message or its answer is lost.                                   *)
Loss ==
  /\ Fault("loss")
  /\ \E m \in air :
       /\ air' = air \ {m}
       /\ \/ UNCHANGED <<config, member>>
          \/ m.dev \in member /\ Take(m)
  /\ UNCHANGED <<toHost, toDongle, dongle, nodeAddr, presses>>
  /\ HostFrame

-------------------------------------------------------------------------------
(* The subnet and both application keys are in place.                          *)
Installed == subnet /\ appkeys = {0, 1}

(* Nothing is on its way and no session is open at the dongle.                 *)
Quiet == /\ rpc = "idle" /\ cpc = "getchar"
         /\ toHost = <<>> /\ toDongle = <<>>
         /\ link = NoLink /\ txs = 0 /\ air = {} /\ ~scanning

(* ble_start sleeps until the dongle has long taken the reset; only then are    *)
(* there a receiver thread and a loop that reads keys.                         *)
Started == \A i \in DOMAIN toDongle : toDongle[i].op # "DEVICE_RADIO_RESET"

User ==
  /\ Started
  /\ presses < MaxPresses /\ Len(toDongle) <= MaxQueue
  /\ Patient => Quiet
  /\ PressKey
  /\ presses' = presses + 1
  /\ sound' = (sound \/ cpc' = "new")
  /\ UNCHANGED <<dongle, air, nodes, faults, killed, unset>>

HostStep == Started /\ (ReceiverNext \/ CliContinue) /\ UNCHANGED world

DongleStep == DongleCommand \/ DongleTxComplete \/ LinkClosed

GInit ==
  /\ Init
  /\ scanning = FALSE /\ subnet = FALSE /\ appkeys = {} /\ link = NoLink
  /\ devkeys = <<>> /\ addrs = <<>> /\ txs = 0 /\ air = {}
  /\ nodeAddr = [d \in Devices |-> 0]
  /\ member = {}
  /\ config = [d \in Devices |-> {}]
  /\ presses = 0 /\ faults = 0 /\ sound = FALSE
  /\ killed = FALSE /\ unset = FALSE

GNext == \/ HostStep \/ DongleStep \/ Beacon \/ NodeAnswers
         \/ Loss \/ DongleRestart \/ WriteFails \/ Crash \/ User

GSpec == GInit /\ [][GNext]_gVars

(* The threads run, the dongle serves its port and its radio, a device that is *)
(* heard keeps sending beacons, a node answers.  The user owes nothing, and a  *)
(* link that is open is closed in the end.                                     *)
Fairness == /\ WF_gVars(HostStep) /\ WF_gVars(DongleCommand)
            /\ WF_gVars(DongleTxComplete) /\ WF_gVars(NodeAnswers)
            /\ WF_gVars(link.phase = "complete" /\ LinkClosed)
            /\ WF_gVars(Beacon)

FairSpec == GSpec /\ Fairness

-------------------------------------------------------------------------------
(* Types of the variables of the dongle and the nodes, and of the process.     *)
WorldTypeOK ==
  /\ scanning \in BOOLEAN /\ subnet \in BOOLEAN /\ appkeys \subseteq {0, 1}
  /\ link \in [phase : LinkPhases, dev : Devices \cup {NoDevice}, addr : U16Int]
  /\ link.phase # "none" => link.dev \in Devices
  /\ devkeys \in Seq([owner : U16Int, dev : Devices \cup {NoDevice}])
  /\ addrs \in Seq(U16Int)
  /\ txs \in Nat
  /\ air \subseteq [dev : Devices, msg : PacketMessages, elem : U16Int]
  /\ nodeAddr \in [Devices -> U16Int]
  /\ member \subseteq Devices
  /\ config \in [Devices -> SUBSET ConfigMessages]
  /\ presses \in Nat /\ faults \in Nat /\ sound \in BOOLEAN
  /\ killed \in BOOLEAN /\ unset \in BOOLEAN
GTypeOK == TypeOK /\ WorldTypeOK

(* No two nodes of the network have the same unicast address, nor does the     *)
(* device that is just being provisioned get the address of a node, whatever   *)
(* sessions broke off, were restarted or were refused before.                  *)
UniqueAddresses ==
  /\ \A m, n \in member : nodeAddr[m] = nodeAddr[n] => m = n
  /\ link.phase \in {"invited", "oob", "secret"} =>
       \A n \in member : nodeAddr[n] # link.addr

(* Nodes join with addresses that were never given before, one at a time, and  *)
(* keep them while they are nodes.                                             *)
M == INSTANCE Membership WITH forgotten <- killed
MembershipSpec == M!Spec

(* ble_DevkeyAdd takes the owner from the counter dev_addr, not from the       *)
(* COMPLETE event: it is the address the device really got.                    *)
DevkeyHasItsOwner ==
  sound => \A i \in DOMAIN toDongle :
    toDongle[i].op = "DEVKEY_ADD" => toDongle[i].owner = nodeAddr[toDongle[i].dev]

(* With a dongle that is set up, every message of a session, and the user's    *)
(* composition request and node reset, are written with a device key handle    *)
(* and an address handle that the dongle knows and that belong to one node.    *)
HandlesPaired ==
  sound /\ Installed => \A i \in DOMAIN toDongle :
    LET p == toDongle[i] IN
    p.op = "PACKET_SEND" /\ p.msg # "ONOFF_SET" =>
      /\ KnownKey(p) /\ KnownDst(p)
      /\ KeyOf(p).owner = AddrOf(p)
      /\ nodeAddr[KeyOf(p).dev] = AddrOf(p)

(* A response that is being stored answers a command of this very session: its *)
(* handle is that of the key, or the address, that the session asked for, even *)
(* if the user starts another one while the response is on its way.  A reboot  *)
(* voids the handles that the dongle gave out before.                          *)
StoresItsOwn ==
  rpc = "store" /\ (\A i \in DOMAIN toHost : toHost[i].op # "DEVICE_STARTED") =>
    LET handle == job.ev.val IN
    IF job.ev.op = "DEVKEY_ADD"
    THEN /\ handle - DevkeyBase \in 0 .. Len(devkeys) - 1
         /\ devkeys[handle - DevkeyBase + 1].owner = dev_addr
    ELSE /\ handle \in 0 .. Len(addrs) - 1
         /\ addrs[handle + 1] = dev_addr

(* A node binds a model only once it has the AppKey, and publishes only with a *)
(* bound model: an answer never advances the session of another node.          *)
ConfiguredInOrder ==
  \A n \in member :
    /\ "MODEL_APP_BIND" \in config[n] => "APPKEY_ADD" \in config[n]
    /\ "MODEL_PUBLICATION_SET" \in config[n] => "MODEL_APP_BIND" \in config[n]

(* When nothing is on its way any more the process is ready for a new device:  *)
(* with a dongle that is set up no session ends in a state that only an event  *)
(* which never comes would leave, unless a fault hit it for which the code has *)
(* no path.                                                                    *)
NeverStuck == sound /\ Installed /\ Quiet => state = STATE_NEW

(* A provisioning link that is open at the dongle is waited for: somewhere on  *)
(* the way there is still the event or the command that carries it on.         *)
LinkServed ==
  sound /\ link.phase \in {"invited", "oob", "secret"} => ~Answered \/ cpc = "new"

(* A model message names the element of the node it goes to.                   *)
ElementIsAddressed ==
  \A m \in air : m.msg \in {"MODEL_APP_BIND", "MODEL_PUBLICATION_SET"}
                   => m.elem = nodeAddr[m.dev]

(* Pressing '1' makes the dongle scan.                                         *)
ScanStarts == cpc = "new" ~> scanning

(* Each scan that the user starts with a dongle that is set up takes one more  *)
(* device through the whole ladder, whatever an earlier session died of, and   *)
(* even if provisioning links break on the way: only another fault in this     *)
(* very session can prevent it.                                                *)
EveryScanConfigures ==
  \A D \in SUBSET Devices : D # Devices =>
    (cpc = "new" /\ Installed /\ member = D
       ~> ~sound \/ \E d \in member \ D : config[d] = ConfigMessages)

(* A dongle that has booted, at the start, after a reboot in the middle of a   *)
(* session or when the process is run again, gets the subnet and both          *)
(* application keys, unless a command for that was not written.  The exception *)
(* is a beacon that a process run again handles before the response of         *)
(* SUBNET_ADD: then it never learns the handle of the subnet.                  *)
NeverLearns == killed /\ subnet /\ subnet_handle # SubnetHandle
AlwaysInstalled == []<>(Installed \/ unset \/ NeverLearns)
===============================================================================
