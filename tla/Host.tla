--------------------------------- MODULE Host ---------------------------------
(* The gateway process: the receiver thread that reacts to the events of the   *)
(* mesh dongle (ble_cli.c), the command writers (ble_serial.c) and the main    *)
(* thread that reacts to the keyboard (main.c).  The two threads share the     *)
(* record `unprovisioner' without a lock, so a handler is cut where it tests   *)
(* the shared state, where it stores or writes, and where it sets the state.   *)
(* The specification of this module is open: any event may arrive in any       *)
(* order.  Module Gateway closes it with a dongle and with nodes.              *)
EXTENDS Integers, Sequences

CONSTANTS
  U16,            \* modulus of uint16_t arithmetic (2^16 in the program)
  FirstAddr,      \* initial value of dev_addr (0x001a)
  Devices,        \* the devices that may be heard; each stands for its UUID and keys
  NoDevice,       \* in events and commands that are about no device
  Values,         \* 16-bit payload values an open environment sends
  Keys,           \* the keys the user presses
  MaxProvisions,  \* bound: no unprovisioned beacon after this many sessions
  MaxQueue        \* bound: commands queued when the user or the dongle acts

ASSUME HostAssumption ==
  /\ U16 \in Nat /\ U16 > 26
  /\ FirstAddr \in 0 .. U16 - 1
  /\ NoDevice \notin Devices
  /\ Values \subseteq 0 .. U16 - 1
  /\ Keys \subseteq {"1", "2", "3", "4", "5", "r"}
  /\ MaxProvisions \in Nat
  /\ MaxQueue \in Nat

VARIABLES
  state,            \* unprovisioner.state
  dst_addr_handle,  \* unprovisioner.dst_addr_handle
  devkey_handle,    \* unprovisioner.devkey_handle
  subnet_handle,    \* unprovisioner.subnet_handle
  element_address,  \* unprovisioner.element_address
  dev_addr,         \* the file-level address counter of ble_serial.c
  rpc, job,         \* receiver thread: control point, rung and event in hand
  cpc, packet,      \* main thread: control point, packet being filled
  toHost,           \* events decoded from the serial port, oldest first
  toDongle,         \* commands written to the serial port, oldest first
  done              \* history: how often the receiver took each rung

handles  == <<dst_addr_handle, devkey_handle, subnet_handle>>
receiver == <<rpc, job>>
cli      == <<cpc, packet>>
hostVars == <<state, handles, element_address, dev_addr, receiver, cli, toHost,
              toDongle, done>>

(* BLE_UNPROVISIONER_STATE_E: rung k is taken in state k - 1 and ends in k.    *)
STATE_NEW                == 0
PROVISION                == 1
OOBUSE                   == 2
ECDH                     == 3
AUTH                     == 4
DEVKEY_ADDRPUBADD        == 5
PS_COMPOSDATA            == 6
PS_APPKEY_ADD            == 7
PS_MODEL_APP_BIND        == 8
PS_MODEL_PUBLICATION_SET == 9
States == STATE_NEW .. PS_MODEL_PUBLICATION_SET
Rungs  == PROVISION .. PS_MODEL_PUBLICATION_SET
U16Int == 0 .. U16 - 1

-------------------------------------------------------------------------------
(* Events.  A command response is named after the command it answers, a mesh   *)
(* message after its opcode.  `val' is the handle or the address in the        *)
(* payload, `dev' the device whose UUID or device key it carries.              *)
Responses == {"DEVKEY_ADD", "SUBNET_ADD", "ADDR_PUBLICATION_ADD",
              "ADDR_LOCAL_UNICAST_SET", "OTHER_RESPONSE"}
Messages  == {"COMPOSITION_DATA_STATUS", "APPKEY_STATUS", "MODEL_APP_STATUS",
              "MODEL_PUBLICATION_STATUS", "OTHER_MESSAGE"}
Reports   == {"UNPROVISIONED_RECEIVED", "CAPS_RECEIVED", "ECDH_REQUEST",
              "AUTH_REQUEST", "COMPLETE", "LINK_CLOSED", "TX_COMPLETE",
              "DEVICE_STARTED", "OTHER_REPORT"}
EventOps  == Responses \cup Messages \cup Reports

Events == [op : EventOps, ok : BOOLEAN, val : U16Int,
           dev : Devices \cup {NoDevice}]
Event(op, ok, val, dev) == [op |-> op, ok |-> ok, val |-> val, dev |-> dev]
Report(op)  == Event(op, TRUE, 0, NoDevice)
NoJob       == [rung |-> STATE_NEW, ev |-> Report("OTHER_REPORT")]

(* Commands, with the fields that a property or the dongle tells apart.        *)
Cmd(op) == [op |-> op]
Provision(dev, addr) == [op |-> "PROV_PROVISION", dev |-> dev, addr |-> addr]
DevkeyAdd(owner, subnet, dev) ==
  [op |-> "DEVKEY_ADD", owner |-> owner, subnet |-> subnet, dev |-> dev]
AddrPublicationAdd(addr) == [op |-> "ADDR_PUBLICATION_ADD", addr |-> addr]
AppKeyAdd(index, subnet) ==
  [op |-> "APPKEY_ADD", index |-> index, subnet |-> subnet]
PacketSend(msg, key, dst, elem) ==
  [op |-> "PACKET_SEND", msg |-> msg, key |-> key, dst |-> dst, elem |-> elem]

PlainCommands == {"DEVICE_RADIO_RESET", "DFU_JUMP_TO_BOOTLOADER",
                  "PROV_SCAN_STOP", "PROV_OOB_USE", "PROV_ECDH_SECRET",
                  "PROV_AUTH_DATA", "ADDR_LOCAL_UNICAST_SET", "SUBNET_ADD"}
PacketMessages == {"COMPOSITION_DATA_GET", "APPKEY_ADD", "MODEL_APP_BIND",
                   "MODEL_PUBLICATION_SET", "ONOFF_SET", "NODE_RESET"}
Packets == [op : {"PACKET_SEND"}, msg : PacketMessages, key : U16Int,
            dst : U16Int, elem : U16Int]
Commands ==
  [op : PlainCommands]
  \cup [op : {"PROV_PROVISION"}, dev : Devices \cup {NoDevice}, addr : U16Int]
  \cup [op : {"DEVKEY_ADD"}, owner : U16Int, subnet : U16Int,
        dev : Devices \cup {NoDevice}]
  \cup [op : {"ADDR_PUBLICATION_ADD"}, addr : U16Int]
  \cup [op : {"APPKEY_ADD"}, index : 0 .. 1, subnet : U16Int]
  \cup Packets

Write(cmds) == toDongle' = toDongle \o cmds

-------------------------------------------------------------------------------
(* What ble_serial.c writes for each rung of the ladder.                       *)
(* Mutants: no wrap-around, the counter not advanced.                          *)
NextAddrNoWrap == dev_addr + 1
NextAddrSame   == dev_addr
NextAddr == (dev_addr + 1) % U16
(* 0x001a stands literally in the bodies of the bind and publication messages. *)
ElementInBody == 26
ConfigPacket(msg) == PacketSend(msg, devkey_handle, dst_addr_handle, 0)
ModelPacket(msg)  == PacketSend(msg, devkey_handle, dst_addr_handle, ElementInBody)

RungCommands(k, ev) ==
  CASE k = PROVISION         -> <<Provision(ev.dev, NextAddr)>>
    [] k = OOBUSE            -> <<Cmd("PROV_OOB_USE")>>
    [] k = ECDH              -> <<Cmd("PROV_ECDH_SECRET")>>
    [] k = AUTH              -> <<Cmd("PROV_AUTH_DATA")>>
    [] k = DEVKEY_ADDRPUBADD -> <<DevkeyAdd(dev_addr, subnet_handle, ev.dev),
                                  AddrPublicationAdd(dev_addr)>>
    [] k = PS_COMPOSDATA     -> <<ConfigPacket("COMPOSITION_DATA_GET")>>
    [] k = PS_APPKEY_ADD     -> <<ConfigPacket("APPKEY_ADD")>>
    [] k = PS_MODEL_APP_BIND -> <<ModelPacket("MODEL_APP_BIND")>>
    [] OTHER                 -> <<ModelPacket("MODEL_PUBLICATION_SET")>>

-------------------------------------------------------------------------------
(* The receiver thread.  An event is taken when the thread is idle.            *)
Receive(ops) == /\ rpc = "idle"
                /\ toHost # <<>>
                /\ Head(toHost).op \in ops
                /\ toHost' = Tail(toHost)

Idle == UNCHANGED <<state, handles, element_address, dev_addr, receiver,
                    toDongle, done>>

(* A handler guarded by state = k - 1: it goes on to its body or does nothing. *)
Begin(k, ev) == /\ rpc' = "body"
                /\ job' = [rung |-> k, ev |-> ev]
                /\ UNCHANGED <<state, handles, element_address, dev_addr,
                               toDongle, done>>

(* Mutant: a handler that also serves later states.                            *)
HandleFrom(op, k) ==
  /\ Receive({op})
  /\ \/ state >= k - 1 /\ Begin(k, Head(toHost))
     \/ state < k - 1 /\ Idle
  /\ UNCHANGED cli

Handle(op, k) ==
  /\ Receive({op})
  /\ \/ state = k - 1 /\ Begin(k, Head(toHost))
     \/ state # k - 1 /\ Idle
  /\ UNCHANGED cli

(* Mutants: a beacon is taken in state PROVISION too; CAPS and TX_COMPLETE are *)
(* awaited one state late.                                                     *)
ProvUnprovisionedTwice ==
  \/ Handle("UNPROVISIONED_RECEIVED", PROVISION)
  \/ /\ Receive({"UNPROVISIONED_RECEIVED"}) /\ state = PROVISION
     /\ Begin(PROVISION, Head(toHost))
     /\ UNCHANGED cli
ProvCapsLate   == Handle("CAPS_RECEIVED", ECDH)
TxCompleteLate == Handle("TX_COMPLETE", PS_MODEL_APP_BIND)

ProvUnprovisionedReceived == Handle("UNPROVISIONED_RECEIVED", PROVISION)
ProvCapsReceived          == Handle("CAPS_RECEIVED", OOBUSE)
ProvEcdhRequest           == Handle("ECDH_REQUEST", ECDH)
ProvAuthRequest           == Handle("AUTH_REQUEST", AUTH)
CompositionDataStatus     == Handle("COMPOSITION_DATA_STATUS", PS_APPKEY_ADD)
TxComplete                == Handle("TX_COMPLETE", PS_APPKEY_ADD)
AppkeyStatus              == Handle("APPKEY_STATUS", PS_MODEL_APP_BIND)
ModelAppStatus            == Handle("MODEL_APP_STATUS", PS_MODEL_PUBLICATION_SET)

(* COMPLETE writes the scan-stop command before it looks at the state.         *)
ProvComplete ==
  /\ Receive({"COMPLETE"})
  /\ Write(<<Cmd("PROV_SCAN_STOP")>>)
  /\ rpc' = "check"
  /\ job' = [rung |-> DEVKEY_ADDRPUBADD, ev |-> Head(toHost)]
  /\ UNCHANGED <<state, handles, element_address, dev_addr, done, cli>>

(* Mutant: the state is not looked at after the scan-stop.                     *)
ProvCompleteNoCheck ==
  /\ rpc = "check"
  /\ rpc' = "body"
  /\ UNCHANGED <<state, handles, element_address, dev_addr, job, cli, toHost,
                 toDongle, done>>

ProvCompleteCheck ==
  /\ rpc = "check"
  /\ rpc' = IF state = AUTH THEN "body" ELSE "idle"
  /\ UNCHANGED <<state, handles, element_address, dev_addr, job, cli, toHost,
                 toDongle, done>>

(* LINK_CLOSED ends the provisioning phase, or any session that is elsewhere.  *)
ProvLinkClosed ==
  /\ Receive({"LINK_CLOSED"})
  /\ \/ /\ state = DEVKEY_ADDRPUBADD
        /\ Begin(PS_COMPOSDATA, Head(toHost))
     \/ /\ state # DEVKEY_ADDRPUBADD
        /\ state' = STATE_NEW
        /\ UNCHANGED <<handles, element_address, dev_addr, receiver, toDongle,
                       done>>
  /\ UNCHANGED cli

(* Mutants: the state counts on at the end of a session; it is not ended.      *)
PublicationStatusCounts ==
  /\ Receive({"MODEL_PUBLICATION_STATUS"})
  /\ state' = IF state = PS_MODEL_PUBLICATION_SET THEN state + 1 ELSE state
  /\ UNCHANGED <<handles, element_address, dev_addr, receiver, cli, toDongle,
                 done>>

PublicationStatusNoReset ==
  /\ Receive({"MODEL_PUBLICATION_STATUS"})
  /\ Idle
  /\ UNCHANGED cli

PublicationStatus ==
  /\ Receive({"MODEL_PUBLICATION_STATUS"})
  /\ state' = IF state = PS_MODEL_PUBLICATION_SET THEN STATE_NEW ELSE state
  /\ UNCHANGED <<handles, element_address, dev_addr, receiver, cli, toDongle,
                 done>>

(* The body of a handler: its commands, and what it stores besides the state.  *)
Body ==
  /\ rpc = "body"
  /\ Write(RungCommands(job.rung, job.ev))
  /\ done' = [done EXCEPT ![job.rung] = @ + 1]
  /\ dev_addr' = IF job.rung = PROVISION THEN NextAddr ELSE dev_addr
  /\ dst_addr_handle' =
       IF job.rung = DEVKEY_ADDRPUBADD THEN job.ev.val ELSE dst_addr_handle
  /\ element_address' =
       IF job.rung = PS_MODEL_PUBLICATION_SET THEN job.ev.val ELSE element_address
  /\ rpc' = "set"
  /\ UNCHANGED <<state, devkey_handle, subnet_handle, job, cli, toHost>>

SetState ==
  /\ rpc = "set"
  /\ state' = job.rung
  /\ rpc' = "idle"
  /\ UNCHANGED <<handles, element_address, dev_addr, job, cli, toHost, toDongle,
                 done>>

(* A successful handle response is stored if the state is the one that asked   *)
(* for it; test and store are two steps.  Failures are dropped.                *)
(* Mutants: one state late; in any state of any session.                       *)
AwaitsHandlesLate == state = PS_COMPOSDATA
AwaitsHandlesAny  == state # STATE_NEW
AwaitsHandles == state = DEVKEY_ADDRPUBADD

HandleResponse ==
  /\ Receive({"DEVKEY_ADD", "ADDR_PUBLICATION_ADD"})
  /\ LET rsp == Head(toHost) IN
     \/ /\ rsp.ok /\ AwaitsHandles
        /\ rpc' = "store"
        /\ job' = [rung |-> DEVKEY_ADDRPUBADD, ev |-> rsp]
        /\ UNCHANGED <<state, handles, element_address, dev_addr, toDongle, done>>
     \/ ~(rsp.ok /\ AwaitsHandles) /\ Idle
  /\ UNCHANGED cli

StoreHandle ==
  /\ rpc = "store"
  /\ devkey_handle' = IF job.ev.op = "DEVKEY_ADD" THEN job.ev.val ELSE devkey_handle
  /\ dst_addr_handle' =
       IF job.ev.op = "ADDR_PUBLICATION_ADD" THEN job.ev.val ELSE dst_addr_handle
  /\ rpc' = "idle"
  /\ UNCHANGED <<state, subnet_handle, element_address, dev_addr, job, cli,
                 toHost, toDongle, done>>

(* Bringing the dongle up: DEVICE_STARTED, local address, subnet, AppKeys.     *)
SubnetResponse ==
  /\ Receive({"SUBNET_ADD"})
  /\ LET rsp == Head(toHost)
         keep == rsp.ok /\ state = STATE_NEW
     IN /\ subnet_handle' = IF keep THEN rsp.val ELSE subnet_handle
        /\ Write(IF rsp.ok THEN <<AppKeyAdd(0, subnet_handle'),
                                  AppKeyAdd(1, subnet_handle')>>
                           ELSE <<>>)
  /\ UNCHANGED <<state, dst_addr_handle, devkey_handle, element_address,
                 dev_addr, receiver, cli, done>>

LocalUnicastResponse ==
  /\ Receive({"ADDR_LOCAL_UNICAST_SET"})
  /\ Write(IF Head(toHost).ok THEN <<Cmd("SUBNET_ADD")>> ELSE <<>>)
  /\ UNCHANGED <<state, handles, element_address, dev_addr, receiver, cli, done>>

(* Mutant: a rebooted dongle is only set up between sessions.                  *)
DeviceStartedIfNew ==
  /\ Receive({"DEVICE_STARTED"})
  /\ Write(IF state = STATE_NEW THEN <<Cmd("ADDR_LOCAL_UNICAST_SET")>> ELSE <<>>)
  /\ UNCHANGED <<state, handles, element_address, dev_addr, receiver, cli, done>>

DeviceStarted ==
  /\ Receive({"DEVICE_STARTED"})
  /\ Write(<<Cmd("ADDR_LOCAL_UNICAST_SET")>>)
  /\ UNCHANGED <<state, handles, element_address, dev_addr, receiver, cli, done>>

(* Responses, messages and reports that are only printed.                      *)
PrintOnly ==
  /\ Receive({"OTHER_RESPONSE", "OTHER_MESSAGE", "OTHER_REPORT"})
  /\ Idle
  /\ UNCHANGED cli

ReceiverNext ==
  \/ ProvUnprovisionedReceived \/ ProvCapsReceived \/ ProvEcdhRequest
  \/ ProvAuthRequest \/ ProvComplete \/ ProvCompleteCheck \/ ProvLinkClosed
  \/ CompositionDataStatus \/ TxComplete \/ AppkeyStatus \/ ModelAppStatus
  \/ PublicationStatus \/ Body \/ SetState
  \/ HandleResponse \/ StoreHandle \/ SubnetResponse \/ LocalUnicastResponse
  \/ DeviceStarted \/ PrintOnly

-------------------------------------------------------------------------------
(* The main thread: one action per key at getchar(), then the rest of its case.*)
Press(key) == cpc = "getchar" /\ key \in Keys
CliFrame == UNCHANGED <<handles, element_address, dev_addr, receiver, toHost, done>>

PressScanStart ==
  /\ Press("1")
  /\ Write(<<Cmd("DFU_JUMP_TO_BOOTLOADER")>>)     \* what ble_scanStart writes
  /\ cpc' = "new"
  /\ UNCHANGED <<state, packet>> /\ CliFrame

(* Mutant: '1' scans but leaves the state of the session before.               *)
ResetStateNot ==
  /\ cpc = "new"
  /\ cpc' = "getchar"
  /\ UNCHANGED <<state, packet, toDongle>> /\ CliFrame

ResetState ==
  /\ cpc = "new"
  /\ state' = STATE_NEW
  /\ cpc' = "getchar"
  /\ UNCHANGED <<packet, toDongle>> /\ CliFrame

PressScanStop ==
  /\ Press("2")
  /\ Write(<<Cmd("PROV_SCAN_STOP")>>)
  /\ UNCHANGED <<state, cli>> /\ CliFrame

(* A packet is filled field by field from the shared record, then written.     *)
PressPacket(keys, msg, key_handle) ==
  /\ \E k \in keys : Press(k)
  /\ packet' = PacketSend(msg, key_handle, 0, 0)
  /\ cpc' = "dst"
  /\ UNCHANGED <<state, toDongle>> /\ CliFrame

PressOnOff       == PressPacket({"3", "4"}, "ONOFF_SET", subnet_handle)
PressComposition == PressPacket({"5"}, "COMPOSITION_DATA_GET", devkey_handle)
PressNodeReset   == PressPacket({"r"}, "NODE_RESET", devkey_handle)

FillDestination ==
  /\ cpc = "dst"
  /\ packet' = [packet EXCEPT !.dst = dst_addr_handle]
  /\ cpc' = "write"
  /\ UNCHANGED <<state, toDongle>> /\ CliFrame

WritePacket ==
  /\ cpc = "write"
  /\ Write(<<packet>>)
  /\ cpc' = "getchar"
  /\ UNCHANGED <<state, packet>> /\ CliFrame

PressKey == PressScanStart \/ PressScanStop \/ PressOnOff \/ PressComposition
            \/ PressNodeReset
CliContinue == ResetState \/ FillDestination \/ WritePacket

-------------------------------------------------------------------------------
(* The open environment: any event, and a dongle that takes commands.          *)
EnvEvent ==
  /\ toHost = <<>> /\ Len(toDongle) <= MaxQueue
  /\ \E op \in EventOps, ok \in BOOLEAN, val \in Values, dev \in Devices :
       /\ op = "UNPROVISIONED_RECEIVED" => done[PROVISION] < MaxProvisions
       /\ op \notin Responses => ok
       /\ toHost' = <<Event(op, ok, val, dev)>>
  /\ UNCHANGED <<state, handles, element_address, dev_addr, receiver, cli,
                 toDongle, done>>

EnvDrain ==
  /\ toDongle # <<>>
  /\ toDongle' = Tail(toDongle)
  /\ UNCHANGED <<state, handles, element_address, dev_addr, receiver, cli,
                 toHost, done>>

Init ==
  /\ state = STATE_NEW
  /\ dst_addr_handle = 0 /\ devkey_handle = 0 /\ subnet_handle = 0
  /\ element_address = 0
  /\ dev_addr = FirstAddr
  /\ rpc = "idle" /\ job = NoJob
  /\ cpc = "getchar" /\ packet = PacketSend("ONOFF_SET", 0, 0, 0)
  /\ toHost = <<>>
  /\ toDongle = <<Cmd("DEVICE_RADIO_RESET")>>
  /\ done = [k \in Rungs |-> 0]

Next ==
  \/ ReceiverNext
  \/ Len(toDongle) <= MaxQueue /\ PressKey
  \/ CliContinue
  \/ EnvEvent \/ EnvDrain

Spec == Init /\ [][Next]_hostVars

-------------------------------------------------------------------------------
(* Types of the process's variables and of the serial traffic it produces.     *)
TypeOK ==
  /\ state \in States
  /\ dst_addr_handle \in U16Int /\ devkey_handle \in U16Int
  /\ subnet_handle \in U16Int /\ element_address \in U16Int
  /\ dev_addr \in U16Int
  /\ rpc \in {"idle", "check", "store", "body", "set"}
  /\ job \in [rung : States, ev : Events]
  /\ rpc \in {"body", "set"} => job.rung \in Rungs
  /\ rpc = "check" => job.rung = DEVKEY_ADDRPUBADD
  /\ cpc \in {"getchar", "new", "dst", "write"}
  /\ packet \in Packets
  /\ toHost \in Seq(Events)
  /\ toDongle \in Seq(Commands)
  /\ done \in [Rungs -> Nat]

(* Rung k is pending when its command was written and the session still hopes  *)
(* for the event that leads to rung k + 1.                                     *)
Pending(k) == \/ rpc \in {"idle", "check", "store"} /\ state = k
              \/ rpc = "body" /\ job.rung = k + 1
              \/ rpc = "set" /\ job.rung = k

(* A pending rung was taken more often than the rung above it, even when the   *)
(* user's '1' overwrites the state while a handler is in its body: over all    *)
(* sessions, the command whose answer the receiver thread waits for has been   *)
(* written more often than its answer was taken.                               *)
PendingWasSent ==
  /\ Pending(PS_MODEL_PUBLICATION_SET) => done[PS_MODEL_PUBLICATION_SET] > 0
  /\ \A k \in PROVISION .. PS_MODEL_APP_BIND :
       done[k] >= done[k + 1] /\ (Pending(k) => done[k] > done[k + 1])

(* The order of the provisioning commands is that of the abstract ladder.      *)
L == INSTANCE Ladder WITH Steps <- PS_MODEL_PUBLICATION_SET
LadderSpec == L!Spec
===============================================================================
