---------------------------- MODULE Gateway_proofs -----------------------------
(* Proofs about the whole system, for every set of devices, every modulus of   *)
(* the address counter, every set of faults and every bound: the types, that   *)
(* the session of the process stays in order, and that no address is given     *)
(* twice.                                                                      *)
EXTENDS Gateway, Host_proofs

-------------------------------------------------------------------------------
(* What the dongle answers is well formed.                                     *)
LEMMA ReportsAreEvents ==
  ASSUME NEW op \in Reports PROVE Report(op) \in Events
BY HostAssumption DEF HostAssumption, Report, Event, Events, EventOps, U16Int

(* One event is a sequence of events, and so is none.                          *)
LEMMA SingletonType == <<>> \in Seq(Events) /\ \A e \in Events : <<e>> \in Seq(Events)
OBVIOUS

(* Zero is a 16-bit value.                                                     *)
LEMMA ZeroInRange == 0 \in U16Int
BY HostAssumption DEF HostAssumption, U16Int

(* A response with a 16-bit value is well formed too.                          *)
LEMMA ResponsesAreEvents ==
  ASSUME NEW op \in Responses, NEW ok \in BOOLEAN, NEW val \in U16Int
  PROVE  <<CmdRsp(op, ok, val)>> \in Seq(Events)
<1>1. CmdRsp(op, ok, val) \in Events
  BY DEF CmdRsp, Event, Events, EventOps
<1>. QED  BY <1>1

(* The record of what cannot be made good again.                               *)
HistoryType == killed \in BOOLEAN /\ unset \in BOOLEAN

(* A fault leaves its history well formed.                                     *)
LEMMA FaultType ==
  ASSUME GTypeOK, NEW kind, Fault(kind)
  PROVE  faults' \in Nat /\ sound' \in BOOLEAN /\ HistoryType'
<1>1. faults' \in Nat
  BY DEF Fault, GTypeOK, WorldTypeOK
<1>2. sound' \in BOOLEAN
  BY Zenon DEF Fault
<1>3. killed' \in BOOLEAN
  BY Zenon DEF Fault
<1>4. unset \in BOOLEAN /\ (unset \/ Head(toDongle).op \in Setup) \in BOOLEAN
  BY DEF GTypeOK, WorldTypeOK
<1>5. unset' \in {FALSE, unset, unset \/ Head(toDongle).op \in Setup}
  BY Zenon DEF Fault
<1>. QED  BY <1>1, <1>2, <1>3, <1>4, <1>5 DEF HistoryType

(* Answering keeps the serial input well formed.                               *)
LEMMA AnswerType ==
  ASSUME TypeOK, NEW events \in Seq(Events), Answer(events)
  PROVE  toHost' \in Seq(Events)
<1>1. \A s, t \in Seq(Events) : s \o t \in Seq(Events)
  OBVIOUS
<1>. QED  BY <1>1 DEF TypeOK, Answer

(* The dongle takes a command that the process has written.                    *)
LEMMA CommandType ==
  ASSUME TypeOK, NEW op, Command(op)
  PROVE  /\ Head(toDongle) \in Commands /\ Head(toDongle).op = op
         /\ toDongle' \in Seq(Commands)
BY DEF TypeOK, Command

(* The fields of a command are those of its opcode.                            *)
LEMMA CommandFields ==
  ASSUME NEW c \in Commands
  PROVE  /\ c.op = "PROV_PROVISION" =>
              c.dev \in Devices \cup {NoDevice} /\ c.addr \in U16Int
         /\ c.op = "DEVKEY_ADD" =>
              c.owner \in U16Int /\ c.dev \in Devices \cup {NoDevice}
         /\ c.op = "ADDR_PUBLICATION_ADD" => c.addr \in U16Int
         /\ c.op = "APPKEY_ADD" => c.index \in {0, 1}
         /\ c.op = "PACKET_SEND" => c.msg \in PacketMessages /\ c.elem \in U16Int
BY DEF Commands, PlainCommands, Packets

(* The world touches the process only through the serial port.                 *)
LEMMA HostFrameType ==
  ASSUME TypeOK, HostFrame, toHost' \in Seq(Events), toDongle' \in Seq(Commands)
  PROVE  TypeOK'
BY DEF TypeOK, HostFrame, handles, receiver, cli

-------------------------------------------------------------------------------
(* A reboot forgets the dongle's state and reports that it has started.        *)
LEMMA RebootType ==
  ASSUME GTypeOK, Reboot
  PROVE  /\ toHost' \in Seq(Events)
         /\ UNCHANGED <<faults, sound, killed>> /\ unset' = FALSE => WorldTypeOK'
         /\ (\E kind : Fault(kind)) => WorldTypeOK'
<1>. USE DEF GTypeOK
<1>1. <<Report("DEVICE_STARTED")>> \in Seq(Events)
  BY ReportsAreEvents DEF Reports
<1>2. toHost' \in Seq(Events)
  BY <1>1, AnswerType DEF Reboot
<1>3. link' \in [phase : LinkPhases, dev : Devices \cup {NoDevice}, addr : U16Int]
  BY HostAssumption DEF HostAssumption, Reboot, NoLink, LinkPhases, U16Int
<1>4. link'.phase = "none"
  BY DEF Reboot, NoLink
<1>5. ASSUME faults' \in Nat, sound' \in BOOLEAN, HistoryType'
      PROVE  WorldTypeOK'
  <2>0. scanning' \in BOOLEAN /\ subnet' \in BOOLEAN
    BY Zenon DEF Reboot
  <2>1. /\ appkeys' \subseteq {0, 1}
        /\ devkeys' \in Seq([owner : U16Int, dev : Devices \cup {NoDevice}])
        /\ addrs' \in Seq(U16Int) /\ txs' \in Nat
    BY DEF Reboot
  <2>2. UNCHANGED <<air, nodeAddr, member, config, presses>>
    BY DEF Reboot, nodes
  <2>. QED  BY <1>3, <1>4, <1>5, <2>0, <2>1, <2>2 DEF WorldTypeOK, HistoryType
<1>6. UNCHANGED <<faults, sound, killed>> /\ unset' = FALSE
        => faults' \in Nat /\ sound' \in BOOLEAN /\ HistoryType'
  BY DEF WorldTypeOK, HistoryType
<1>7. ASSUME NEW kind, Fault(kind)
      PROVE  faults' \in Nat /\ sound' \in BOOLEAN /\ HistoryType'
  BY <1>7, FaultType
<1>. QED  BY <1>2, <1>5, <1>6, <1>7

(* The steps of a provisioning link keep the types.                            *)
LEMMA LinkStepType ==
  ASSUME GTypeOK, NEW op, NEW from \in LinkPhases, NEW to \in LinkPhases,
         from # "none", NEW event \in Events,
         LinkStep(op, from, to, event)
  PROVE  /\ toHost' \in Seq(Events) /\ toDongle' \in Seq(Commands)
         /\ nodeAddr' \in [Devices -> U16Int] /\ member' \subseteq Devices
              /\ UNCHANGED config => WorldTypeOK'
<1>1. toDongle' \in Seq(Commands)
  BY CommandType DEF GTypeOK, LinkStep
<1>2. toHost' \in Seq(Events)
  <2>1. CASE Answer(<<event>>)
    <3>1. <<event>> \in Seq(Events)
      OBVIOUS
    <3>. QED  BY <2>1, <3>1, AnswerType DEF GTypeOK
  <2>2. CASE UNCHANGED toHost
    BY <2>2 DEF GTypeOK, TypeOK
  <2>. QED  BY <2>1, <2>2 DEF LinkStep
<1>3. /\ link' \in [phase : LinkPhases, dev : Devices \cup {NoDevice}, addr : U16Int]
      /\ link'.phase # "none" => link'.dev \in Devices
  BY SMTT(30) DEF LinkStep, GTypeOK, WorldTypeOK
<1>. QED
  BY <1>1, <1>2, <1>3 DEF LinkStep, GTypeOK, WorldTypeOK, install, luck

(* Each command that the dongle executes keeps the types.                      *)
LEMMA DongleCommandType == ASSUME GTypeOK, DongleCommand PROVE GTypeOK'
<1>. USE DEF GTypeOK
<1>. SUFFICES toHost' \in Seq(Events) /\ toDongle' \in Seq(Commands) /\ WorldTypeOK'
  BY HostFrameType DEF DongleCommand
<1>0. /\ \E op : Command(op)
      /\ toDongle' \in Seq(Commands)
  <2>1. \E op : Command(op)
    BY DEF DongleCommand, DongleRadioReset, DongleScan, DongleProvision, DongleOobUse,
       DongleEcdhSecret, DongleAuthData, DongleLocalUnicastSet, DongleSubnetAdd,
       DongleAppKeyAdd, DongleDevkeyAdd, DongleAddrPublicationAdd, DonglePacketSend,
       LinkStep
  <2>. QED  BY <2>1, CommandType
<1>. DEFINE cmd == Head(toDongle)
<1>a. cmd \in Commands
  BY <1>0, CommandType
<1>. HIDE DEF cmd
<1>1. CASE DongleRadioReset
  BY <1>0, <1>1, RebootType DEF DongleRadioReset
<1>2. CASE DongleScan
  BY <1>0, <1>2 DEF DongleScan, WorldTypeOK, TypeOK, install, nodes, luck
<1>3. CASE DongleProvision
  <2>1. cmd.op = "PROV_PROVISION" /\ cmd.dev \in Devices \cup {NoDevice}
        /\ cmd.addr \in U16Int
    BY <1>a, <1>3, CommandFields DEF DongleProvision, Command, cmd
  <2>2. /\ link' \in [phase : LinkPhases, dev : Devices \cup {NoDevice}, addr : U16Int]
        /\ link'.phase # "none" => link'.dev \in Devices
    BY <1>3, <2>1 DEF DongleProvision, cmd, WorldTypeOK, LinkPhases
  <2>3. toHost' \in Seq(Events)
    <3>. DEFINE free == link.phase = "none"
                here == cmd.dev \in Devices \ member
                events == CASE free /\ here  -> <<Report("CAPS_RECEIVED")>>
                            [] free /\ ~here -> <<Report("LINK_CLOSED")>>
                            [] OTHER         -> <<>>
    <3>1. events \in Seq(Events)
      BY ReportsAreEvents DEF Reports
    <3>2. Answer(events)
      BY <1>3 DEF DongleProvision, cmd
    <3>. HIDE DEF events
    <3>. QED  BY <3>1, <3>2, AnswerType
  <2>. QED
    BY <1>0, <1>3, <2>2, <2>3 DEF DongleProvision, WorldTypeOK, install, nodes, luck
<1>4. CASE DongleOobUse
  BY <1>0, <1>4, LinkStepType, ReportsAreEvents
  DEF DongleOobUse, LinkPhases, Reports, WorldTypeOK, nodes
<1>5. CASE DongleEcdhSecret
  BY <1>0, <1>5, LinkStepType, ReportsAreEvents
  DEF DongleEcdhSecret, LinkPhases, Reports, WorldTypeOK, nodes
<1>6. CASE DongleAuthData
  <2>1. Event("COMPLETE", TRUE, link.addr, link.dev) \in Events
    BY DEF WorldTypeOK, Event, Events, EventOps, Reports
  <2>2. nodeAddr' \in [Devices -> U16Int] /\ member' \subseteq Devices
    BY <1>6 DEF DongleAuthData, WorldTypeOK
  <2>. QED
    BY <1>0, <1>6, <2>1, <2>2, LinkStepType DEF DongleAuthData, LinkPhases
<1>7. CASE DongleLocalUnicastSet
  <2>1. <<CmdRsp("ADDR_LOCAL_UNICAST_SET", TRUE, 0)>> \in Seq(Events)
    BY ResponsesAreEvents, ZeroInRange DEF Responses
  <2>2. toHost' \in Seq(Events)
    BY <1>7, <2>1, AnswerType DEF DongleLocalUnicastSet
  <2>. QED
    BY <1>0, <1>7, <2>2
    DEF DongleLocalUnicastSet, WorldTypeOK, world, dongle, install, nodes, luck
<1>8. CASE DongleSubnetAdd
  <2>1. <<CmdRsp("SUBNET_ADD", ~subnet, SubnetHandle)>> \in Seq(Events)
    BY ResponsesAreEvents, GatewayAssumption DEF GatewayAssumption, Responses, WorldTypeOK
  <2>2. toHost' \in Seq(Events)
    BY <1>8, <2>1, AnswerType DEF DongleSubnetAdd
  <2>. QED
    BY <1>0, <1>8, <2>2 DEF DongleSubnetAdd, WorldTypeOK, nodes, luck
<1>9. CASE DongleAppKeyAdd
  <2>1. cmd.index \in {0, 1}
    BY <1>a, <1>9, CommandFields DEF DongleAppKeyAdd, Command, cmd
  <2>2. appkeys' \subseteq {0, 1}
    BY <1>9, <2>1 DEF DongleAppKeyAdd, cmd, WorldTypeOK
  <2>. QED
    BY <1>0, <1>9, <2>2 DEF DongleAppKeyAdd, WorldTypeOK, TypeOK, nodes, luck
<1>10. CASE DongleDevkeyAdd
  <2>1. cmd.owner \in U16Int /\ cmd.dev \in Devices \cup {NoDevice}
    BY <1>a, <1>10, CommandFields DEF DongleDevkeyAdd, Command, cmd
  <2>. DEFINE handle == DevkeyBase + Len(devkeys)
              known  == subnet /\ cmd.subnet = SubnetHandle /\ handle \in U16Int
              key    == [owner |-> cmd.owner, dev |-> cmd.dev]
              failed == <<CmdRsp("DEVKEY_ADD", FALSE, 0)>>
  <2>2. failed \in Seq(Events)
    BY ResponsesAreEvents, ZeroInRange DEF Responses
  <2>3. CASE /\ known /\ devkeys' = Append(devkeys, key) /\ UNCHANGED luck
             /\ Answer(<<CmdRsp("DEVKEY_ADD", TRUE, handle)>>)
    <3>1. <<CmdRsp("DEVKEY_ADD", TRUE, handle)>> \in Seq(Events)
      BY <2>3, ResponsesAreEvents DEF Responses
    <3>2. toHost' \in Seq(Events)
      BY <2>3, <3>1, AnswerType
    <3>3. devkeys' \in Seq([owner : U16Int, dev : Devices \cup {NoDevice}])
      BY <2>1, <2>3 DEF WorldTypeOK
    <3>. QED
      BY <1>0, <1>10, <2>3, <3>2, <3>3 DEF DongleDevkeyAdd, WorldTypeOK, install, nodes, luck
  <2>4. CASE Answer(failed) /\ UNCHANGED <<devkeys, luck>>
    <3>1. toHost' \in Seq(Events)
      BY <2>2, <2>4, AnswerType
    <3>. QED
      BY <1>0, <1>10, <2>4, <3>1 DEF DongleDevkeyAdd, WorldTypeOK, install, nodes, luck
  <2>5. CASE Answer(failed) /\ UNCHANGED devkeys /\ Fault("reject")
    <3>1. toHost' \in Seq(Events)
      BY <2>2, <2>5, AnswerType
    <3>. QED
      BY <1>0, <1>10, <2>5, <3>1
      DEF DongleDevkeyAdd, WorldTypeOK, install, nodes, Fault
  <2>. QED  BY <1>10, <2>3, <2>4, <2>5 DEF DongleDevkeyAdd, cmd
<1>11. CASE DongleAddrPublicationAdd
  <2>1. cmd.addr \in U16Int
    BY <1>a, <1>11, CommandFields DEF DongleAddrPublicationAdd, Command, cmd
  <2>. DEFINE room == Len(addrs) \in U16Int
              val  == IF room THEN Len(addrs) ELSE 0
  <2>2. val \in U16Int
    BY HostAssumption DEF HostAssumption, U16Int
  <2>. HIDE DEF val
  <2>3. \A ok \in BOOLEAN, v \in U16Int :
           <<CmdRsp("ADDR_PUBLICATION_ADD", ok, v)>> \in Seq(Events)
    BY ResponsesAreEvents DEF Responses
  <2>4. CASE /\ addrs' = IF room THEN Append(addrs, cmd.addr) ELSE addrs
             /\ Answer(<<CmdRsp("ADDR_PUBLICATION_ADD", room, val)>>)
             /\ UNCHANGED luck
    <3>1. toHost' \in Seq(Events)
      BY <2>2, <2>3, <2>4, AnswerType, room \in BOOLEAN
    <3>2. addrs' \in Seq(U16Int)
      BY <2>1, <2>4 DEF WorldTypeOK
    <3>. QED
      BY <1>0, <1>11, <2>4, <3>1, <3>2
      DEF DongleAddrPublicationAdd, WorldTypeOK, install, nodes, luck
  <2>5. CASE /\ Answer(<<CmdRsp("ADDR_PUBLICATION_ADD", FALSE, 0)>>)
             /\ UNCHANGED addrs /\ Fault("reject")
    <3>1. toHost' \in Seq(Events)
      BY <2>3, <2>5, AnswerType, ZeroInRange
    <3>. QED
      BY <1>0, <1>11, <2>5, <3>1
      DEF DongleAddrPublicationAdd, WorldTypeOK, install, nodes, Fault
  <2>. QED  BY <1>11, <2>4, <2>5 DEF DongleAddrPublicationAdd, cmd, val
<1>12. CASE DonglePacketSend
  <2>1. cmd.msg \in PacketMessages /\ cmd.elem \in U16Int
    BY <1>a, <1>12, CommandFields DEF DonglePacketSend, Command, cmd
  <2>2. Addressees(cmd) \subseteq Devices
    BY DEF Addressees, WorldTypeOK
  <2>3. /\ txs' \in Nat
        /\ air' \subseteq [dev : Devices, msg : PacketMessages, elem : U16Int]
    <3>1. {[dev |-> d, msg |-> cmd.msg, elem |-> cmd.elem] : d \in Addressees(cmd)}
             \subseteq [dev : Devices, msg : PacketMessages, elem : U16Int]
      BY <2>1, <2>2
    <3>2. CASE /\ txs' = txs + 1
               /\ air' = air \cup {[dev |-> d, msg |-> cmd.msg, elem |-> cmd.elem]
                                     : d \in Addressees(cmd)}
      BY <3>1, <3>2 DEF WorldTypeOK
    <3>3. CASE UNCHANGED <<txs, air>>
      BY <3>3 DEF WorldTypeOK
    <3>. QED  BY <1>12, <3>2, <3>3 DEF DonglePacketSend, cmd
  <2>. QED
    BY <1>0, <1>12, <2>3 DEF DonglePacketSend, WorldTypeOK, TypeOK, install, nodes, luck
<1>. QED
  BY <1>1, <1>2, <1>3, <1>4, <1>5, <1>6, <1>7, <1>8, <1>9, <1>10, <1>11, <1>12
  DEF DongleCommand

(* So does what the dongle reports on its own account.                         *)
LEMMA DongleReportType ==
  ASSUME GTypeOK, DongleTxComplete \/ Beacon \/ LinkClosed \/ DongleRestart
  PROVE  GTypeOK'
<1>. USE DEF GTypeOK
<1>1. CASE DongleTxComplete
  <2>1. <<Report("TX_COMPLETE")>> \in Seq(Events)
    BY ReportsAreEvents DEF Reports
  <2>2. toHost' \in Seq(Events)
    BY <1>1, <2>1, AnswerType DEF DongleTxComplete
  <2>3. TypeOK'
    BY <1>1, <2>2, HostFrameType DEF DongleTxComplete, TypeOK
  <2>4. txs' \in Nat
    BY <1>1 DEF DongleTxComplete, WorldTypeOK
  <2>. QED
    BY <1>1, <2>3, <2>4 DEF DongleTxComplete, WorldTypeOK, install, nodes, luck
<1>2. CASE Beacon
  <2>1. PICK d \in Devices : Answer(<<Event("UNPROVISIONED_RECEIVED", TRUE, 0, d)>>)
    BY <1>2 DEF Beacon
  <2>2. Event("UNPROVISIONED_RECEIVED", TRUE, 0, d) \in Events
    BY ZeroInRange DEF Event, Events, EventOps, Reports
  <2>3. <<Event("UNPROVISIONED_RECEIVED", TRUE, 0, d)>> \in Seq(Events)
    BY <2>2, SingletonType
  <2>4. toHost' \in Seq(Events)
    BY <2>1, <2>3, AnswerType
  <2>5. TypeOK'
    BY <1>2, <2>4, HostFrameType DEF Beacon, TypeOK
  <2>. QED
    BY <1>2, <2>5 DEF Beacon, WorldTypeOK, world, dongle, install, nodes, luck
<1>3. CASE LinkClosed
  <2>1. <<Report("LINK_CLOSED")>> \in Seq(Events)
    BY ReportsAreEvents DEF Reports
  <2>2. toHost' \in Seq(Events)
    BY <1>3, <2>1, AnswerType DEF LinkClosed
  <2>3. TypeOK'
    BY <1>3, <2>2, HostFrameType DEF LinkClosed, TypeOK
  <2>4. /\ link' \in [phase : LinkPhases, dev : Devices \cup {NoDevice}, addr : U16Int]
        /\ link'.phase = "none"
    BY <1>3, ZeroInRange DEF LinkClosed, NoLink, LinkPhases
  <2>5. faults' \in Nat /\ sound' \in BOOLEAN /\ HistoryType'
    <3>1. CASE UNCHANGED luck
      BY <3>1 DEF luck, WorldTypeOK, HistoryType
    <3>2. CASE \E kind : Fault(kind)
      BY <3>2, FaultType
    <3>. QED  BY <1>3, <3>1, <3>2 DEF LinkClosed
  <2>. QED
    BY <1>3, <2>3, <2>4, <2>5 DEF LinkClosed, WorldTypeOK, HistoryType, install, nodes
<1>4. CASE DongleRestart
  <2>1. toHost' \in Seq(Events) /\ WorldTypeOK'
    BY <1>4, RebootType DEF DongleRestart
  <2>. QED  BY <1>4, <2>1, HostFrameType DEF DongleRestart, TypeOK
<1>. QED  BY <1>1, <1>2, <1>3, <1>4

(* So does the message that a node takes.                                      *)
LEMMA TakeType ==
  ASSUME GTypeOK, NEW m \in air, m.dev \in member, Take(m)
  PROVE  config' \in [Devices -> SUBSET ConfigMessages] /\ member' \subseteq Devices
BY DEF GTypeOK, WorldTypeOK, Take, ConfigMessages

(* A message that arrives or is lost keeps the types.                          *)
LEMMA AirType == ASSUME GTypeOK, NodeAnswers \/ Loss PROVE GTypeOK'
<1>. USE DEF GTypeOK
<1>0. UNCHANGED toDongle /\ HostFrame
  BY DEF NodeAnswers, Loss
<1>1. CASE NodeAnswers
  <2>1. PICK m \in air :
          /\ air' = air \ {m}
          /\ IF m.dev \in member THEN Take(m) ELSE UNCHANGED <<config, member>>
          /\ Answer(IF m.dev \in member /\ Understood(m)
                    THEN <<Event(StatusOf(m.msg), TRUE, m.elem, NoDevice)>>
                    ELSE <<>>)
    BY <1>1 DEF NodeAnswers
  <2>2. m \in [dev : Devices, msg : PacketMessages, elem : U16Int]
    BY DEF WorldTypeOK
  <2>3. Event(StatusOf(m.msg), TRUE, m.elem, NoDevice) \in Events
    BY <2>2 DEF StatusOf, Event, Events, EventOps, Messages
  <2>. DEFINE events == IF m.dev \in member /\ Understood(m)
                        THEN <<Event(StatusOf(m.msg), TRUE, m.elem, NoDevice)>>
                        ELSE <<>>
  <2>4. events \in Seq(Events)
    BY <2>3, SingletonType
  <2>5. Answer(events)
    BY <2>1
  <2>. HIDE DEF events
  <2>6. toHost' \in Seq(Events)
    BY <2>4, <2>5, AnswerType
  <2>7. config' \in [Devices -> SUBSET ConfigMessages] /\ member' \subseteq Devices
    BY <2>1, TakeType DEF WorldTypeOK
  <2>8. TypeOK'
    BY <1>0, <2>6, HostFrameType DEF TypeOK
  <2>. QED
    BY <1>1, <2>1, <2>7, <2>8 DEF NodeAnswers, WorldTypeOK, dongle, install, luck
<1>2. CASE Loss
  <2>1. PICK m \in air :
          /\ air' = air \ {m}
          /\ \/ UNCHANGED <<config, member>>
             \/ m.dev \in member /\ Take(m)
    BY <1>2 DEF Loss
  <2>2. config' \in [Devices -> SUBSET ConfigMessages] /\ member' \subseteq Devices
    BY <2>1, TakeType DEF WorldTypeOK
  <2>3. faults' \in Nat /\ sound' \in BOOLEAN /\ HistoryType'
    BY <1>2, FaultType DEF Loss
  <2>4. TypeOK'
    BY <1>0, <1>2, HostFrameType DEF Loss, TypeOK
  <2>. QED
    BY <1>2, <2>1, <2>2, <2>3, <2>4 DEF Loss, WorldTypeOK, HistoryType, dongle, install
<1>. QED  BY <1>1, <1>2

(* So do failed writes and a process that is run again.                        *)
LEMMA ProcessFaultType == ASSUME GTypeOK, WriteFails \/ Crash PROVE GTypeOK'
<1>. USE DEF GTypeOK
<1>1. CASE WriteFails
  <2>1. toDongle' \in Seq(Commands) /\ toHost' \in Seq(Events)
    BY <1>1 DEF WriteFails, TypeOK
  <2>2. TypeOK'
    BY <1>1, <2>1, HostFrameType DEF WriteFails
  <2>3. faults' \in Nat /\ sound' \in BOOLEAN /\ HistoryType'
    BY <1>1, FaultType DEF WriteFails
  <2>. QED
    BY <1>1, <2>2, <2>3 DEF WriteFails, WorldTypeOK, HistoryType, dongle, install, nodes
<1>2. CASE Crash
  <2>1. faults' \in Nat /\ sound' \in BOOLEAN /\ HistoryType'
    BY <1>2, FaultType DEF Crash
  <2>2. WorldTypeOK'
    BY <1>2, <2>1 DEF Crash, WorldTypeOK, HistoryType, dongle, install, nodes
  <2>3. Cmd("DEVICE_RADIO_RESET") \in Commands
    BY DEF Cmd, Commands, PlainCommands
  <2>4. toDongle' \in Seq(Commands) /\ toHost' \in Seq(Events)
    BY <1>2, <2>3 DEF Crash, TypeOK
  <2>5. PacketSend("ONOFF_SET", 0, 0, 0) \in Packets
    BY ZeroInRange DEF PacketSend, Packets, PacketMessages
  <2>6. NoJob \in [rung : States, ev : Events]
    BY ReportsAreEvents DEF NoJob, Reports, States, STATE_NEW, PS_MODEL_PUBLICATION_SET
  <2>7. FirstAddr \in U16Int
    BY HostAssumption DEF HostAssumption, U16Int
  <2>8. STATE_NEW \in States
    BY DEF STATE_NEW, States, PS_MODEL_PUBLICATION_SET
  <2>9. TypeOK'
    BY <1>2, <2>4, <2>5, <2>6, <2>7, <2>8, ZeroInRange DEF Crash, TypeOK
  <2>. QED  BY <2>2, <2>9
<1>. QED  BY <1>1, <1>2

(* The process, its users and its environment keep the types, whatever fails.  *)
THEOREM GatewayTypeCorrect == GSpec => []GTypeOK
<1>1. GInit => GTypeOK
  <2>. SUFFICES ASSUME GInit PROVE GTypeOK
    OBVIOUS
  <2>1. TypeOK
    BY InitType DEF GInit
  <2>2. link \in [phase : LinkPhases, dev : Devices \cup {NoDevice}, addr : U16Int]
        /\ link.phase = "none"
    BY ZeroInRange DEF GInit, NoLink, LinkPhases
  <2>3. scanning \in BOOLEAN /\ subnet \in BOOLEAN /\ sound \in BOOLEAN
        /\ HistoryType
    BY Zenon DEF GInit, HistoryType
  <2>4. /\ nodeAddr \in [Devices -> U16Int]
        /\ config \in [Devices -> SUBSET ConfigMessages]
    BY ZeroInRange DEF GInit
  <2>5. /\ devkeys \in Seq([owner : U16Int, dev : Devices \cup {NoDevice}])
        /\ addrs \in Seq(U16Int)
    BY DEF GInit
  <2>6. /\ appkeys \subseteq {0, 1} /\ txs \in Nat /\ member \subseteq Devices
        /\ air \subseteq [dev : Devices, msg : PacketMessages, elem : U16Int]
        /\ presses \in Nat /\ faults \in Nat
    BY DEF GInit
  <2>. QED  BY <2>1, <2>2, <2>3, <2>4, <2>5, <2>6 DEF GTypeOK, WorldTypeOK, HistoryType
<1>2. GTypeOK /\ [GNext]_gVars => GTypeOK'
  <2>. SUFFICES ASSUME GTypeOK, [GNext]_gVars PROVE GTypeOK'
    OBVIOUS
  <2>1. CASE HostStep
    <3>1. TypeOK'
      BY <2>1, ReceiverType, CliType DEF HostStep, GTypeOK
    <3>. QED
      BY <2>1, <3>1
      DEF HostStep, GTypeOK, WorldTypeOK, world, dongle, install, nodes, luck
  <2>2. CASE User
    <3>1. TypeOK'
      BY <2>2, CliType DEF User, GTypeOK
    <3>2. sound' \in BOOLEAN
      BY <2>2, Zenon DEF User
    <3>3. presses' \in Nat
      BY <2>2 DEF User, GTypeOK, WorldTypeOK
    <3>. QED
      BY <2>2, <3>1, <3>2, <3>3 DEF User, GTypeOK, WorldTypeOK, dongle, install, nodes
  <2>3. CASE UNCHANGED gVars
    BY <2>3 DEF gVars, GTypeOK, TypeOK, WorldTypeOK, hostVars, handles, receiver, cli,
       world, dongle, install, nodes, luck
  <2>. QED
    BY <2>1, <2>2, <2>3, DongleCommandType, DongleReportType, AirType, ProcessFaultType
    DEF GNext, DongleStep
<1>. QED  BY <1>1, <1>2, PTL DEF GSpec
-------------------------------------------------------------------------------
(* The world leaves the session of the process alone, and a process that is    *)
(* run again waits for nothing.                                                *)
LEMMA WorldPending ==
  ASSUME GTypeOK, PendingWasSent, [GNext]_gVars, ~HostStep, ~User
  PROVE  UNCHANGED done /\ PendingWasSent'
<1>0. Sent
  BY DEF GTypeOK, Sent
<1>1. CASE HostFrame
  BY <1>0, <1>1, PendingKept DEF HostFrame, receiver, Pending
<1>2. CASE Crash
  <2>1. \A k \in Rungs : ~Pending(k)'
    BY <1>2 DEF Crash, Pending, Rungs, STATE_NEW, PROVISION, PS_MODEL_PUBLICATION_SET
  <2>. QED  BY <1>0, <1>2, <2>1, PendingKept DEF Crash
<1>3. CASE UNCHANGED gVars
  BY <1>0, <1>3, PendingKept DEF gVars, hostVars, receiver, Pending
<1>. QED
  BY <1>1, <1>2, <1>3
  DEF GNext, DongleStep, DongleCommand, DongleTxComplete, LinkClosed, Beacon,
      NodeAnswers, Loss, DongleRestart, WriteFails

(* In the whole system too, what the receiver waits for is the answer to a     *)
(* command it has written, although the dongle may never get it.               *)
THEOREM SystemWaitsForWhatItSent == GSpec => []PendingWasSent
<1>1. GInit => PendingWasSent
  BY DEF GInit, Init, PendingWasSent, Pending, Rungs, STATE_NEW, PROVISION, OOBUSE,
     ECDH, AUTH, DEVKEY_ADDRPUBADD, PS_COMPOSDATA, PS_APPKEY_ADD, PS_MODEL_APP_BIND,
     PS_MODEL_PUBLICATION_SET
<1>2. GTypeOK /\ PendingWasSent /\ [GNext]_gVars => PendingWasSent'
  <2>. SUFFICES ASSUME GTypeOK, PendingWasSent, [GNext]_gVars PROVE PendingWasSent'
    OBVIOUS
  <2>1. Sent
    BY DEF GTypeOK, Sent
  <2>2. CASE HostStep \/ User
    BY <2>1, <2>2, ReceiverPending, OthersPending DEF HostStep, User
  <2>. QED  BY <2>2, WorldPending
<1>. QED  BY <1>1, <1>2, GatewayTypeCorrect, PTL DEF GSpec

(* No fault, not even a process that starts again, makes the receiver take a   *)
(* rung more often than the rung below it.                                     *)
THEOREM SystemClimbsTheLadder == GSpec => LadderSpec
<1>1. GInit => L!Init
  BY DEF GInit, Init, L!Init, Rungs, PROVISION
<1>2. GTypeOK /\ PendingWasSent /\ [GNext]_gVars => [L!Next]_done
  <2>. SUFFICES ASSUME GTypeOK, PendingWasSent, [GNext]_gVars PROVE [L!Next]_done
    OBVIOUS
  <2>1. CASE HostStep \/ User
    <3>1. Sent /\ (ReceiverNext \/ PressKey \/ CliContinue)
      BY <2>1 DEF HostStep, User, Sent, GTypeOK
    <3>. QED  BY <3>1, ProcessCounts, BodyTakes
  <2>. QED  BY <2>1, WorldPending
<1>. QED
  BY <1>1, <1>2, GatewayTypeCorrect, SystemWaitsForWhatItSent, PTL
  DEF GSpec, LadderSpec, L!Spec
-------------------------------------------------------------------------------
(* The network never uses a unicast address twice, unless the process is       *)
(* killed.  The counter must not wrap around: the program would start again    *)
(* at 0.                                                                       *)

(* The sessions so far fit the counter.                                        *)
Unwrapped == FirstAddr + done[PROVISION] < U16

(* A provisioning that is under way at the dongle.                             *)
Open == link.phase \in {"invited", "oob", "secret"}

(* The commands in q that ask for a device to be provisioned; they ask with    *)
(* rising addresses, up to top, and above the address a.                       *)
Asks(q) == {i \in DOMAIN q : q[i].op = "PROV_PROVISION"}
Rising(q, top) ==
  /\ \A i \in Asks(q) : q[i].addr <= top
  /\ \A i, j \in Asks(q) : i < j => q[i].addr < q[j].addr
Above(q, a) == \A i \in Asks(q) : a < q[i].addr

(* Addresses travel from the counter over the serial port and the open link to *)
(* the nodes, and nothing overtakes: what is nearer the counter is higher.     *)
Conveyed ==
  /\ dev_addr = FirstAddr + done[PROVISION]
  /\ Rising(toDongle, dev_addr)
  /\ \A d \in Devices : nodeAddr[d] <= dev_addr /\ Above(toDongle, nodeAddr[d])
  /\ Open => /\ link.addr <= dev_addr /\ Above(toDongle, link.addr)
             /\ \A d \in Devices : nodeAddr[d] < link.addr
  /\ \A m, n \in member : nodeAddr[m] = nodeAddr[n] => m = n

AddressInv == ~killed /\ Unwrapped => Conveyed

(* Only a device that is no node is being provisioned, whatever was lost.      *)
ForStrangers == Open => link.dev \notin member

-------------------------------------------------------------------------------
(* What is behind the first command keeps its order, and is above the address  *)
(* that the first command asks for.                                            *)
LEMMA TailAsks ==
  ASSUME NEW q \in Seq(Commands), q # <<>>, NEW top \in U16Int, Rising(q, top)
  PROVE  /\ Rising(Tail(q), top)
         /\ \A a \in U16Int : Above(q, a) => Above(Tail(q), a)
         /\ Head(q).op = "PROV_PROVISION" =>
              Head(q).addr <= top /\ Above(Tail(q), Head(q).addr)
<1>. DEFINE t == Tail(q)
<1>1. \A i \in Asks(t) : i \in Nat /\ i + 1 \in Asks(q) /\ i + 1 > 1 /\ t[i] = q[i + 1]
  BY DEF Asks
<1>2. Head(q).op = "PROV_PROVISION" => 1 \in Asks(q) /\ Head(q) = q[1]
  BY DEF Asks
<1>. HIDE DEF Asks, t
<1>3. Rising(t, top)
  <2>1. \A i \in Asks(t) : t[i].addr <= top
    BY <1>1 DEF Rising
  <2>2. ASSUME NEW i \in Asks(t), NEW j \in Asks(t), i < j
        PROVE  t[i].addr < t[j].addr
    <3>1. i \in Nat /\ i + 1 \in Asks(q) /\ t[i] = q[i + 1]
      BY <1>1
    <3>2. j \in Nat /\ j + 1 \in Asks(q) /\ t[j] = q[j + 1]
      BY <1>1
    <3>3. i + 1 < j + 1
      BY <2>2, <3>1, <3>2
    <3>. QED  BY <3>1, <3>2, <3>3 DEF Rising
  <2>. QED  BY <2>1, <2>2 DEF Rising
<1>4. \A a \in U16Int : Above(q, a) => Above(t, a)
  BY <1>1 DEF Above
<1>5. Head(q).op = "PROV_PROVISION" => Head(q).addr <= top /\ Above(t, Head(q).addr)
  BY <1>1, <1>2 DEF Rising, Above
<1>. QED  BY <1>3, <1>4, <1>5 DEF t

(* Commands that ask for no device change nothing.                             *)
LEMMA AppendOthers ==
  ASSUME NEW q \in Seq(Commands), NEW cmds \in Seq(Commands), Asks(cmds) = {}
  PROVE  /\ \A top \in U16Int : Rising(q, top) => Rising(q \o cmds, top)
         /\ \A a \in U16Int : Above(q, a) => Above(q \o cmds, a)
<1>. DEFINE r == q \o cmds
<1>1. \A i \in Asks(r) : i \in Asks(q) /\ r[i] = q[i]
  <2>. SUFFICES ASSUME NEW i \in Asks(r) PROVE i \in Asks(q) /\ r[i] = q[i]
    OBVIOUS
  <2>1. i \in 1 .. Len(q) + Len(cmds) /\ r[i].op = "PROV_PROVISION"
    BY DEF Asks
  <2>2. CASE i <= Len(q)
    BY <2>1, <2>2 DEF Asks
  <2>3. CASE i > Len(q)
    <3>1. i - Len(q) \in DOMAIN cmds /\ cmds[i - Len(q)] = r[i]
      BY <2>1, <2>3
    <3>. QED  BY <2>1, <3>1 DEF Asks
  <2>. QED  BY <2>1, <2>2, <2>3
<1>. HIDE DEF r, Asks
<1>2. \A top \in U16Int : Rising(q, top) => Rising(r, top)
  BY <1>1 DEF Rising
<1>3. \A a \in U16Int : Above(q, a) => Above(r, a)
  BY <1>1 DEF Above
<1>. QED  BY <1>2, <1>3 DEF r

(* Asking for one more device with a higher address keeps the order.           *)
LEMMA AppendAsk ==
  ASSUME NEW q \in Seq(Commands), NEW top \in U16Int, Rising(q, top),
         NEW dev, NEW addr \in U16Int, top < addr
  PROVE  LET r == q \o <<Provision(dev, addr)>> IN
         /\ Rising(r, addr)
         /\ \A a \in U16Int : a <= top /\ Above(q, a) => Above(r, a)
<1>. DEFINE r == q \o <<Provision(dev, addr)>>
<1>1. /\ Len(r) = Len(q) + 1
      /\ r[Len(q) + 1] = Provision(dev, addr)
      /\ \A i \in 1 .. Len(q) : r[i] = q[i]
  OBVIOUS
<1>2. \A i \in Asks(r) : \/ i \in Asks(q) /\ i <= Len(q) /\ r[i] = q[i]
                         \/ i = Len(q) + 1 /\ r[i].addr = addr
  BY <1>1 DEF Asks, Provision
<1>3. \A i \in Asks(q) : i \in Nat /\ q[i].addr \in U16Int
  BY CommandFields DEF Asks
<1>. HIDE DEF r, Asks
<1>4. Rising(r, addr)
  BY <1>2, <1>3 DEF Rising, U16Int
<1>5. \A a \in U16Int : a <= top /\ Above(q, a) => Above(r, a)
  BY <1>2 DEF Above, U16Int
<1>. QED  BY <1>4, <1>5 DEF r

-------------------------------------------------------------------------------
(* A step of the process that asks for no device and leaves the counter.       *)
Quietly == /\ \E cmds \in Seq(Commands) : Write(cmds) /\ Asks(cmds) = {}
           /\ dev_addr' = dev_addr /\ done'[PROVISION] = done[PROVISION]

(* Lists of commands that ask for no device.                                   *)
LEMMA NoAsks ==
  /\ <<>> \in Seq(Commands) /\ Asks(<<>>) = {}
  /\ \A c \in Commands : c.op # "PROV_PROVISION" =>
       <<c>> \in Seq(Commands) /\ Asks(<<c>>) = {}
  /\ \A c, d \in Commands : c.op # "PROV_PROVISION" /\ d.op # "PROV_PROVISION" =>
       <<c, d>> \in Seq(Commands) /\ Asks(<<c, d>>) = {}
BY DEF Asks

(* A step that writes nothing.                                                 *)
LEMMA NothingWritten ==
  ASSUME TypeOK, UNCHANGED <<toDongle, dev_addr, done>>
  PROVE  Quietly
<1>1. Write(<<>>)
  BY DEF TypeOK, Write
<1>. QED  BY <1>1, NoAsks DEF Quietly

(* A step that writes one command that asks for nothing.                       *)
LEMMA OneWritten ==
  ASSUME NEW c \in Commands, c.op # "PROV_PROVISION", Write(<<c>>),
         UNCHANGED <<dev_addr, done>>
  PROVE  Quietly
BY NoAsks DEF Quietly

(* A step that writes two such commands.                                       *)
LEMMA TwoWritten ==
  ASSUME NEW c \in Commands, NEW d \in Commands, Write(<<c, d>>),
         c.op # "PROV_PROVISION", d.op # "PROV_PROVISION",
         UNCHANGED <<dev_addr, done>>
  PROVE  Quietly
<1>1. <<c, d>> \in Seq(Commands) /\ Asks(<<c, d>>) = {}
  BY NoAsks
<1>2. \E cmds \in Seq(Commands) : Write(cmds) /\ Asks(cmds) = {}
  BY <1>1
<1>. QED  BY <1>2 DEF Quietly

(* The commands without parameters.                                            *)
LEMMA PlainWritten ==
  ASSUME NEW op \in PlainCommands, Write(<<Cmd(op)>>), UNCHANGED <<dev_addr, done>>
  PROVE  Quietly
<1>1. Cmd(op) \in Commands /\ Cmd(op).op # "PROV_PROVISION"
  BY DEF Cmd, Commands, PlainCommands
<1>. QED  BY <1>1, OneWritten

(* A handler of the receiver thread asks for a device only in its body.        *)
LEMMA QuietReceiver == ASSUME TypeOK, ReceiverNext, ~Body PROVE Quietly
<1>1. CASE \/ ProvUnprovisionedReceived \/ ProvCapsReceived \/ ProvEcdhRequest
           \/ ProvAuthRequest \/ CompositionDataStatus \/ TxComplete
           \/ AppkeyStatus \/ ModelAppStatus \/ ProvCompleteCheck \/ ProvLinkClosed
           \/ PublicationStatus \/ SetState \/ HandleResponse \/ StoreHandle
           \/ PrintOnly
  BY <1>1, NothingWritten
  DEF ProvUnprovisionedReceived, ProvCapsReceived, ProvEcdhRequest, ProvAuthRequest,
      CompositionDataStatus, TxComplete, AppkeyStatus, ModelAppStatus,
      ProvCompleteCheck, ProvLinkClosed, PublicationStatus, SetState,
      HandleResponse, StoreHandle, PrintOnly, Handle, Begin, Idle
<1>2. CASE ProvComplete
  BY <1>2, PlainWritten DEF ProvComplete, PlainCommands
<1>3. CASE SubnetResponse
  <2>1. Head(toHost).val \in U16Int /\ subnet_handle' \in U16Int
    BY <1>3, ReceiveType DEF SubnetResponse, TypeOK, Events
  <2>2. \A i \in 0 .. 1 : /\ AppKeyAdd(i, subnet_handle') \in Commands
                          /\ AppKeyAdd(i, subnet_handle').op # "PROV_PROVISION"
    BY <2>1 DEF AppKeyAdd, Commands
  <2>3. CASE Head(toHost).ok
    <3>1. Write(<<AppKeyAdd(0, subnet_handle'), AppKeyAdd(1, subnet_handle')>>)
      BY <1>3, <2>3 DEF SubnetResponse
    <3>2. UNCHANGED <<dev_addr, done>>
      BY <1>3 DEF SubnetResponse
    <3>. QED  BY <2>2, <3>1, <3>2, TwoWritten
  <2>4. CASE ~Head(toHost).ok
    <3>1. Write(<<>>)
      BY <1>3, <2>4 DEF SubnetResponse
    <3>. QED  BY <1>3, <3>1, NoAsks DEF SubnetResponse, Quietly
  <2>. QED  BY <2>3, <2>4
<1>4. CASE LocalUnicastResponse
  <2>1. CASE Write(<<Cmd("SUBNET_ADD")>>)
    BY <1>4, <2>1, PlainWritten DEF LocalUnicastResponse, PlainCommands
  <2>2. CASE Write(<<>>)
    BY <1>4, <2>2, NoAsks DEF LocalUnicastResponse, Quietly
  <2>. QED  BY <1>4, <2>1, <2>2 DEF LocalUnicastResponse
<1>5. CASE DeviceStarted
  BY <1>5, PlainWritten DEF DeviceStarted, PlainCommands
<1>. QED  BY <1>1, <1>2, <1>3, <1>4, <1>5 DEF ReceiverNext

(* The main thread never asks for a device.                                    *)
LEMMA QuietCli == ASSUME TypeOK, PressKey \/ CliContinue PROVE Quietly
<1>. USE DEF CliFrame
<1>1. CASE PressScanStart
  BY <1>1, PlainWritten DEF PressScanStart, PlainCommands
<1>2. CASE PressScanStop
  BY <1>2, PlainWritten DEF PressScanStop, PlainCommands
<1>3. CASE PressOnOff \/ PressComposition \/ PressNodeReset \/ ResetState
           \/ FillDestination
  BY <1>3, NothingWritten
  DEF PressOnOff, PressComposition, PressNodeReset, PressPacket, ResetState,
      FillDestination
<1>4. CASE WritePacket
  <2>1. packet \in Commands /\ packet.op # "PROV_PROVISION"
    BY DEF TypeOK, Commands, Packets
  <2>. QED  BY <1>4, <2>1, OneWritten DEF WritePacket
<1>. QED  BY <1>1, <1>2, <1>3, <1>4 DEF PressKey, CliContinue

(* Nor does a body other than the first rung's.                                *)
LEMMA QuietBody == ASSUME TypeOK, Body, job.rung # PROVISION PROVE Quietly
<1>. DEFINE k  == job.rung
            ev == job.ev
<1>1. k \in Rungs /\ k # PROVISION /\ ev \in Events
  BY DEF Body, TypeOK
<1>2. Write(RungCommands(k, ev)) /\ RungCommands(k, ev) \in Seq(Commands)
  BY <1>1, RungCommandsType DEF Body
<1>3. dev_addr' = dev_addr /\ done'[PROVISION] = done[PROVISION]
  BY <1>1 DEF Body, TypeOK, Rungs
<1>4. Asks(RungCommands(k, ev)) = {}
  <2>. HIDE DEF k, ev
  <2>1. \A c : Asks(<<c>>) = {} \/ c.op = "PROV_PROVISION"
    BY DEF Asks
  <2>2. \A c, d : \/ Asks(<<c, d>>) = {}
                  \/ c.op = "PROV_PROVISION" \/ d.op = "PROV_PROVISION"
    BY DEF Asks
  <2>. QED
    BY <1>1, <2>1, <2>2
    DEF RungCommands, Cmd, DevkeyAdd, AddrPublicationAdd, ConfigPacket, ModelPacket,
        PacketSend
<1>. QED  BY <1>2, <1>3, <1>4 DEF Quietly
-------------------------------------------------------------------------------
(* What the addresses depend on in the world.                                  *)
LEMMA Ranges ==
  ASSUME GTypeOK
  PROVE  /\ dev_addr \in U16Int /\ link.addr \in U16Int
         /\ \A d \in Devices : nodeAddr[d] \in U16Int
         /\ toDongle \in Seq(Commands)
BY DEF GTypeOK, TypeOK, WorldTypeOK

(* A step that asks for no device and leaves the nodes and the link.           *)
LEMMA QuietKeeps ==
  ASSUME GTypeOK, Conveyed, Quietly, UNCHANGED <<link, nodeAddr, member>>
  PROVE  Conveyed'
<1>1. PICK cmds \in Seq(Commands) : toDongle' = toDongle \o cmds /\ Asks(cmds) = {}
  BY DEF Quietly, Write
<1>2. \A top \in U16Int : Rising(toDongle, top) => Rising(toDongle', top)
  BY <1>1, AppendOthers, Ranges
<1>3. \A a \in U16Int : Above(toDongle, a) => Above(toDongle', a)
  BY <1>1, AppendOthers, Ranges
<1>4. UNCHANGED dev_addr /\ done'[PROVISION] = done[PROVISION]
  BY DEF Quietly
<1>. QED  BY <1>2, <1>3, <1>4, Ranges DEF Conveyed, Open

(* The first rung asks for a device with the address above all the others.     *)
LEMMA AskKeeps ==
  ASSUME GTypeOK, Conveyed, Body, job.rung = PROVISION, Unwrapped',
         UNCHANGED <<link, nodeAddr, member>>
  PROVE  Conveyed'
<1>1. done'[PROVISION] = done[PROVISION] + 1 /\ done[PROVISION] \in Nat
  BY DEF Body, GTypeOK, TypeOK, Rungs
<1>2. dev_addr + 1 < U16 /\ dev_addr + 1 \in U16Int
  <2>1. dev_addr = FirstAddr + done[PROVISION] /\ dev_addr \in U16Int
    BY Ranges DEF Conveyed
  <2>2. FirstAddr \in Nat /\ U16 \in Nat
    BY HostAssumption DEF HostAssumption
  <2>. QED  BY <1>1, <2>1, <2>2 DEF Unwrapped, U16Int
<1>3. NextAddr = dev_addr + 1
  BY <1>2, HostAssumption DEF HostAssumption, NextAddr, U16Int
<1>4. dev_addr' = dev_addr + 1
  BY <1>3 DEF Body
<1>5. toDongle' = toDongle \o <<Provision(job.ev.dev, dev_addr + 1)>>
  BY <1>3
  DEF Body, Write, RungCommands, PROVISION, OOBUSE, ECDH, AUTH, DEVKEY_ADDRPUBADD,
      PS_COMPOSDATA, PS_APPKEY_ADD, PS_MODEL_APP_BIND
<1>6. /\ Rising(toDongle', dev_addr + 1)
      /\ \A a \in U16Int : a <= dev_addr /\ Above(toDongle, a) => Above(toDongle', a)
  <2>1. dev_addr < dev_addr + 1 /\ Rising(toDongle, dev_addr)
    BY Ranges DEF Conveyed, U16Int
  <2>. DEFINE q == toDongle
              r == q \o <<Provision(job.ev.dev, dev_addr + 1)>>
  <2>2. q \in Seq(Commands) /\ Rising(q, dev_addr) /\ dev_addr \in U16Int
    BY <2>1, Ranges
  <2>. HIDE DEF q
  <2>3. /\ Rising(r, dev_addr + 1)
        /\ \A a \in U16Int : a <= dev_addr /\ Above(q, a) => Above(r, a)
    BY <1>2, <2>1, <2>2, AppendAsk
  <2>. QED  BY <1>5, <2>3 DEF q
<1>7. dev_addr' = FirstAddr + done'[PROVISION]
  BY <1>1, <1>4, HostAssumption DEF HostAssumption, Conveyed
<1>8. \A d \in Devices : nodeAddr'[d] <= dev_addr' /\ Above(toDongle', nodeAddr'[d])
  BY <1>4, <1>6, Ranges DEF Conveyed, U16Int
<1>9. Open' => /\ link'.addr <= dev_addr' /\ Above(toDongle', link'.addr)
               /\ \A d \in Devices : nodeAddr'[d] < link'.addr
  BY <1>4, <1>6, Ranges DEF Conveyed, Open, U16Int
<1>. QED  BY <1>4, <1>6, <1>7, <1>8, <1>9 DEF Conveyed

(* The dongle takes a command that opens no link and makes no node, or reports *)
(* something; nodes only leave; the link goes on or closes.                    *)
Passive == /\ \/ UNCHANGED toDongle
              \/ toDongle # <<>> /\ toDongle' = Tail(toDongle)
           /\ UNCHANGED <<dev_addr, done, nodeAddr>>
           /\ member' \subseteq member
           /\ Open' => Open /\ link'.dev = link.dev /\ link'.addr = link.addr

(* Such a step keeps the order of the addresses.                               *)
LEMMA PassiveKeeps == ASSUME GTypeOK, Conveyed, Passive PROVE Conveyed'
<1>1. /\ Rising(toDongle', dev_addr)
      /\ \A a \in U16Int : Above(toDongle, a) => Above(toDongle', a)
  <2>1. CASE UNCHANGED toDongle
    BY <2>1 DEF Conveyed
  <2>2. CASE toDongle # <<>> /\ toDongle' = Tail(toDongle)
    BY <2>2, TailAsks, Ranges DEF Conveyed
  <2>. QED  BY <2>1, <2>2 DEF Passive
<1>2. UNCHANGED <<dev_addr, done, nodeAddr>> /\ member' \subseteq member
  BY DEF Passive
<1>3. \A d \in Devices : nodeAddr'[d] <= dev_addr' /\ Above(toDongle', nodeAddr'[d])
  BY <1>1, <1>2, Ranges DEF Conveyed
<1>4. Open' => /\ link'.addr <= dev_addr' /\ Above(toDongle', link'.addr)
               /\ \A d \in Devices : nodeAddr'[d] < link'.addr
  BY <1>1, <1>2, Ranges DEF Conveyed, Passive
<1>. QED  BY <1>1, <1>2, <1>3, <1>4 DEF Conveyed

(* A link is opened with the address that the command asks for, which is above *)
(* every node's and below those of the commands behind it.                     *)
LEMMA ProvisionKeeps ==
  ASSUME GTypeOK, Conveyed, DongleProvision, HostFrame
  PROVE  Conveyed'
<1>. DEFINE cmd == Head(toDongle)
<1>1. /\ toDongle # <<>> /\ cmd.op = "PROV_PROVISION" /\ toDongle' = Tail(toDongle)
      /\ UNCHANGED <<dev_addr, done, nodeAddr, member>>
  BY DEF DongleProvision, Command, HostFrame, nodes
<1>2. CASE UNCHANGED link
  BY <1>1, <1>2, PassiveKeeps DEF Passive, Open
<1>3. CASE /\ cmd.dev \in Devices \ member
           /\ link' = [phase |-> "invited", dev |-> cmd.dev, addr |-> cmd.addr]
  <2>1. /\ Rising(Tail(toDongle), dev_addr)
        /\ \A a \in U16Int : Above(toDongle, a) => Above(Tail(toDongle), a)
        /\ cmd.addr <= dev_addr /\ Above(Tail(toDongle), cmd.addr)
    BY <1>1, TailAsks, Ranges DEF Conveyed
  <2>2. \A d \in Devices : nodeAddr[d] < cmd.addr
    <3>1. 1 \in Asks(toDongle) /\ toDongle[1] = cmd
      BY <1>1, Ranges DEF Asks
    <3>. QED  BY <3>1 DEF Conveyed, Above
  <2>3. \A d \in Devices :
           nodeAddr'[d] <= dev_addr' /\ Above(toDongle', nodeAddr'[d])
    BY <1>1, <2>1, Ranges DEF Conveyed
  <2>4. /\ link'.addr <= dev_addr'
        /\ Above(toDongle', link'.addr)
        /\ \A d \in Devices : nodeAddr'[d] < link'.addr
    BY <1>1, <1>3, <2>1, <2>2
  <2>. QED  BY <1>1, <2>1, <2>3, <2>4 DEF Conveyed
<1>. QED  BY <1>2, <1>3 DEF DongleProvision

(* The device that becomes a node gets an address above every other node's.    *)
LEMMA AuthDataKeeps ==
  ASSUME GTypeOK, Conveyed, DongleAuthData, HostFrame
  PROVE  Conveyed'
<1>1. /\ toDongle # <<>> /\ toDongle' = Tail(toDongle) /\ UNCHANGED <<dev_addr, done>>
  BY DEF DongleAuthData, LinkStep, Command, HostFrame
<1>2. CASE link.phase # "secret"
  BY <1>1, <1>2, PassiveKeeps DEF DongleAuthData, LinkStep, Passive, Open
<1>3. CASE link.phase = "secret"
  <2>1. /\ nodeAddr' = [nodeAddr EXCEPT ![link.dev] = link.addr]
        /\ member' = member \cup {link.dev}
        /\ link' = [link EXCEPT !.phase = "complete"]
    BY <1>3 DEF DongleAuthData, LinkStep
  <2>2. /\ Open /\ ~Open'
        /\ nodeAddr \in [Devices -> U16Int] /\ member \subseteq Devices
        /\ link.dev \in Devices
    BY <1>3, <2>1 DEF Open, GTypeOK, WorldTypeOK
  <2>3. /\ Rising(toDongle', dev_addr)
        /\ \A a \in U16Int : Above(toDongle, a) => Above(toDongle', a)
    BY <1>1, TailAsks, Ranges DEF Conveyed
  <2>4. \A d \in Devices : nodeAddr'[d] = IF d = link.dev THEN link.addr ELSE nodeAddr[d]
    BY <2>1, <2>2
  <2>5. \A d \in Devices :
           nodeAddr'[d] <= dev_addr' /\ Above(toDongle', nodeAddr'[d])
    BY <1>1, <2>2, <2>3, <2>4, Ranges DEF Conveyed
  <2>6. \A d \in Devices : nodeAddr[d] < link.addr
    BY <2>2 DEF Conveyed
  <2>7. \A m, n \in member' : nodeAddr'[m] = nodeAddr'[n] => m = n
    BY <2>1, <2>2, <2>4, <2>6, Ranges DEF Conveyed, U16Int
  <2>. QED  BY <1>1, <2>2, <2>3, <2>5, <2>7 DEF Conveyed
<1>. QED  BY <1>2, <1>3

(* All the other commands leave the addresses alone.                           *)
LEMMA CommandPassive ==
  ASSUME GTypeOK, DongleCommand, ~DongleProvision, ~DongleAuthData
  PROVE  Passive
<1>. USE DEF Command, HostFrame, Passive, Open, nodes
<1>1. CASE DongleRadioReset
  BY <1>1 DEF DongleRadioReset, DongleCommand, Reboot, NoLink
<1>2. CASE DongleOobUse \/ DongleEcdhSecret
  BY <1>2 DEF DongleOobUse, DongleEcdhSecret, DongleCommand, LinkStep, GTypeOK, WorldTypeOK
<1>3. CASE DongleLocalUnicastSet
  BY <1>3 DEF DongleLocalUnicastSet, DongleCommand, world, dongle
<1>4. CASE DongleScan \/ DongleSubnetAdd \/ DongleAppKeyAdd \/ DongleDevkeyAdd
           \/ DongleAddrPublicationAdd \/ DonglePacketSend
  BY <1>4 DEF DongleScan, DongleSubnetAdd, DongleAppKeyAdd, DongleDevkeyAdd,
     DongleAddrPublicationAdd, DonglePacketSend, DongleCommand
<1>. QED  BY <1>1, <1>2, <1>3, <1>4 DEF DongleCommand

(* So do the dongle's reports and the nodes; a node may leave.                 *)
LEMMA OthersPassive ==
  ASSUME GTypeOK,
         \/ DongleTxComplete \/ LinkClosed \/ Beacon \/ NodeAnswers
         \/ Loss \/ DongleRestart \/ WriteFails
  PROVE  Passive
<1>. USE DEF HostFrame, Passive, Open, nodes
<1>1. CASE DongleTxComplete \/ LinkClosed
  BY <1>1 DEF DongleTxComplete, LinkClosed, NoLink
<1>2. CASE Beacon
  BY <1>2 DEF Beacon, world, dongle
<1>3. CASE NodeAnswers \/ Loss
  BY <1>3 DEF NodeAnswers, Loss, Take, dongle
<1>4. CASE DongleRestart
  BY <1>4 DEF DongleRestart, Reboot, NoLink
<1>5. CASE WriteFails
  BY <1>5 DEF WriteFails, dongle
<1>. QED  BY <1>1, <1>2, <1>3, <1>4, <1>5

(* A step of the process or a key, with the counter below the wrap-around.     *)
LEMMA ProcessKeeps ==
  ASSUME GTypeOK, Conveyed, HostStep \/ User, Unwrapped'
  PROVE  Conveyed'
<1>1. UNCHANGED <<link, nodeAddr, member>>
  BY DEF HostStep, User, world, dongle, nodes
<1>2. TypeOK /\ (ReceiverNext \/ PressKey \/ CliContinue)
  BY DEF GTypeOK, HostStep, User
<1>3. CASE Body /\ job.rung = PROVISION
  BY <1>1, <1>3, AskKeeps
<1>4. CASE Body /\ job.rung # PROVISION
  BY <1>1, <1>2, <1>4, QuietBody, QuietKeeps
<1>5. CASE ~Body
  BY <1>1, <1>2, <1>5, QuietReceiver, QuietCli, QuietKeeps
<1>. QED  BY <1>3, <1>4, <1>5

(* The number of sessions never goes back.                                     *)
LEMMA SessionsCount ==
  ASSUME GTypeOK, [GNext]_gVars
  PROVE  Unwrapped' => Unwrapped
<1>. USE DEF GTypeOK
<1>1. done[PROVISION] \in Nat
  <2>1. PROVISION \in Rungs /\ done \in [Rungs -> Nat]
    BY DEF TypeOK, Rungs, PROVISION, PS_MODEL_PUBLICATION_SET
  <2>. QED  BY <2>1
<1>2. SUFFICES done'[PROVISION] = done[PROVISION]
               \/ done'[PROVISION] = done[PROVISION] + 1
  BY <1>1, HostAssumption DEF HostAssumption, Unwrapped
<1>3. CASE HostStep \/ User
  <2>1. CASE Body
    BY <2>1 DEF Body, TypeOK, Rungs
  <2>2. CASE ~Body
    BY <1>3, <2>2, QuietReceiver, QuietCli DEF HostStep, User, Quietly
  <2>. QED  BY <2>1, <2>2
<1>4. CASE UNCHANGED done
  BY <1>4
<1>5. ASSUME ~(HostStep \/ User) PROVE UNCHANGED done
  BY <1>5 DEF GNext, DongleStep, DongleCommand, DongleTxComplete, LinkClosed, Beacon,
     NodeAnswers, Loss, DongleRestart, WriteFails, Crash, HostFrame, gVars, hostVars
<1>. QED  BY <1>3, <1>4, <1>5

(* Only one fault kills the process.                                           *)
LEMMA LivesOn ==
  ASSUME GTypeOK, NEW kind, Fault(kind), kind # "crash"
  PROVE  UNCHANGED killed
<1>1. killed \in BOOLEAN
  BY DEF GTypeOK, WorldTypeOK
<1>. QED  BY <1>1, Zenon DEF Fault

(* No other step touches the record of it.                                     *)
LEMMA KilledStays ==
  ASSUME GTypeOK, [GNext]_gVars, ~Crash
  PROVE  UNCHANGED killed
<1>1. \A kind \in FaultKinds \ {"crash"} : Fault(kind) => UNCHANGED killed
  BY LivesOn
<1>. USE DEF luck
<1>2. CASE HostStep \/ User
  BY <1>2 DEF HostStep, User, world
<1>3. CASE DongleCommand
  <2>. USE <1>1 DEF FaultKinds
  <2>1. CASE DongleDevkeyAdd \/ DongleAddrPublicationAdd
    BY <2>1 DEF DongleDevkeyAdd, DongleAddrPublicationAdd
  <2>2. CASE DongleOobUse \/ DongleEcdhSecret \/ DongleAuthData
    BY <2>2 DEF DongleOobUse, DongleEcdhSecret, DongleAuthData, LinkStep
  <2>3. CASE DongleRadioReset \/ DongleScan \/ DongleProvision
             \/ DongleLocalUnicastSet \/ DongleSubnetAdd \/ DongleAppKeyAdd
             \/ DonglePacketSend
    BY <2>3 DEF DongleRadioReset, DongleScan, DongleProvision, DongleLocalUnicastSet,
       DongleSubnetAdd, DongleAppKeyAdd, DonglePacketSend, world
  <2>. QED  BY <1>3, <2>1, <2>2, <2>3 DEF DongleCommand
<1>4. CASE DongleTxComplete \/ Beacon \/ NodeAnswers
  BY <1>4 DEF DongleTxComplete, Beacon, NodeAnswers, world
<1>5. CASE LinkClosed \/ Loss \/ DongleRestart \/ WriteFails
  BY <1>1, <1>5 DEF LinkClosed, Loss, DongleRestart, WriteFails, FaultKinds
<1>6. CASE UNCHANGED gVars
  BY <1>6 DEF gVars, world
<1>. QED  BY <1>2, <1>3, <1>4, <1>5, <1>6 DEF GNext, DongleStep

(* Unless the process lost its counter, every step keeps the order of the      *)
(* addresses.                                                                  *)
LEMMA StepKeeps ==
  ASSUME GTypeOK, AddressInv, [GNext]_gVars
  PROVE  AddressInv'
<1>. SUFFICES ASSUME ~killed', Unwrapped' PROVE Conveyed'
  BY DEF AddressInv
<1>0. ~Crash
  BY Zenon DEF Crash, Fault
<1>1. ~killed /\ Unwrapped /\ Conveyed
  BY <1>0, KilledStays, SessionsCount DEF AddressInv
<1>2. CASE HostStep \/ User
  BY <1>1, <1>2, ProcessKeeps
<1>3. CASE DongleCommand
  BY <1>1, <1>3, ProvisionKeeps, AuthDataKeeps, CommandPassive, PassiveKeeps
  DEF DongleCommand
<1>4. CASE \/ DongleTxComplete \/ LinkClosed \/ Beacon \/ NodeAnswers \/ Loss
           \/ DongleRestart \/ WriteFails
  BY <1>1, <1>4, OthersPassive, PassiveKeeps
<1>5. CASE UNCHANGED gVars
  BY <1>1, <1>5, PassiveKeeps
  DEF gVars, hostVars, world, dongle, nodes, Passive, Open
<1>. QED  BY <1>0, <1>2, <1>3, <1>4, <1>5 DEF GNext, DongleStep

(* A link is opened for a stranger, who becomes a node as it completes.        *)
LEMMA StrangersKeep ==
  ASSUME GTypeOK, ForStrangers, [GNext]_gVars
  PROVE  ForStrangers'
<1>. USE DEF ForStrangers
<1>1. CASE UNCHANGED <<link, member>>
  BY <1>1 DEF Open
<1>2. CASE Passive
  BY <1>2 DEF Passive
<1>3. CASE DongleProvision
  <2>1. CASE UNCHANGED link
    BY <1>1, <1>3, <2>1 DEF DongleProvision, nodes
  <2>2. CASE link'.dev \notin member
    BY <1>3, <2>2 DEF DongleProvision, nodes
  <2>. QED  BY <1>3, <2>1, <2>2 DEF DongleProvision
<1>4. CASE DongleAuthData
  BY <1>1, <1>4 DEF DongleAuthData, LinkStep, Open, GTypeOK, WorldTypeOK
<1>5. CASE HostStep \/ User \/ WriteFails \/ Crash \/ UNCHANGED gVars
  BY <1>1, <1>5 DEF HostStep, User, WriteFails, Crash, gVars, world, dongle, nodes
<1>. QED
  BY <1>2, <1>3, <1>4, <1>5, CommandPassive, OthersPassive DEF GNext, DongleStep

(* The order of the addresses holds from the start on.                         *)
LEMMA AddressesConveyed == GSpec => [](AddressInv /\ ForStrangers)
<1>1. GInit => AddressInv /\ ForStrangers
  <2>. SUFFICES ASSUME GInit PROVE Conveyed /\ ForStrangers
    BY DEF AddressInv
  <2>1. Asks(toDongle) = {}
    BY DEF GInit, Init, Asks, Cmd
  <2>2. dev_addr = FirstAddr + done[PROVISION] /\ dev_addr >= 0
    <3>1. PROVISION \in Rungs /\ FirstAddr \in Nat
      BY HostAssumption DEF HostAssumption, Rungs, PROVISION, PS_MODEL_PUBLICATION_SET
    <3>2. dev_addr = FirstAddr /\ done[PROVISION] = 0
      BY <3>1 DEF GInit, Init
    <3>. QED  BY <3>1, <3>2
  <2>3. ~Open /\ member = {} /\ \A d \in Devices : nodeAddr[d] = 0
    BY DEF GInit, NoLink, Open
  <2>. QED  BY <2>1, <2>2, <2>3 DEF Conveyed, Rising, Above, ForStrangers
<1>2. GTypeOK /\ AddressInv /\ ForStrangers /\ [GNext]_gVars
        => (AddressInv /\ ForStrangers)'
  BY StepKeeps, StrangersKeep
<1>. QED  BY <1>1, <1>2, GatewayTypeCorrect, PTL DEF GSpec

-------------------------------------------------------------------------------
(* No two nodes share an address, and no device is being given a node's, as    *)
(* long as the process runs and the counter has not wrapped around: whatever   *)
(* links break, messages or commands are lost, keys are refused or reboots     *)
(* happen, in any interleaving of the two threads and the dongle.              *)
THEOREM AddressesUnique == GSpec => [](~killed /\ Unwrapped => UniqueAddresses)
<1>1. GTypeOK /\ AddressInv => (~killed /\ Unwrapped => UniqueAddresses)
  <2>. SUFFICES ASSUME GTypeOK, Conveyed PROVE UniqueAddresses
    BY DEF AddressInv
  <2>1. member \subseteq Devices
    BY DEF GTypeOK, WorldTypeOK
  <2>. QED  BY <2>1, Ranges DEF Conveyed, Open, UniqueAddresses, U16Int
<1>. QED  BY <1>1, GatewayTypeCorrect, AddressesConveyed, PTL

(* A step that does not kill the process and that makes no node leaves the set *)
(* of nodes, or takes a node out of it.                                        *)
LEMMA MembersLeave ==
  ASSUME GTypeOK, [GNext]_gVars, ~Crash, UNCHANGED nodeAddr,
         member' = member \/ \E d \in member : member' = member \ {d}
  PROVE  [M!Next]_<<nodeAddr, member, killed>>
<1>1. UNCHANGED killed /\ member \subseteq Devices
  BY KilledStays DEF GTypeOK, WorldTypeOK
<1>. QED  BY <1>1 DEF M!Next, M!Leave

(* A device that completes its provisioning joins with a fresh address.        *)
LEMMA SecretJoins ==
  ASSUME GTypeOK, AddressInv, ForStrangers, Unwrapped, DongleAuthData,
         link.phase = "secret"
  PROVE  M!Next
<1>. DEFINE d == link.dev
<1>1. /\ nodeAddr' = [nodeAddr EXCEPT ![d] = link.addr]
      /\ member' = member \cup {d} /\ killed' = killed
  BY DEF DongleAuthData, LinkStep, luck
<1>2. d \in Devices /\ d \notin member /\ nodeAddr \in [Devices -> U16Int]
  BY DEF GTypeOK, WorldTypeOK, ForStrangers, Open
<1>3. nodeAddr'[d] = link.addr
  BY <1>1, <1>2
<1>4. killed \/ M!Fresh(link.addr)
  <2>. SUFFICES ASSUME ~killed PROVE M!Fresh(link.addr)
    OBVIOUS
  <2>1. \A e \in Devices : nodeAddr[e] < link.addr
    BY DEF AddressInv, Conveyed, Open
  <2>. QED  BY <2>1, Ranges, HostAssumption DEF HostAssumption, M!Fresh, U16Int
<1>. HIDE DEF d
<1>5. M!Join(d)
  BY <1>1, <1>2, <1>3, <1>4 DEF M!Join
<1>. QED  BY <1>2, <1>5 DEF M!Next

(* The gateway keeps its promise to the network: as long as the counter has    *)
(* not wrapped around, a device that becomes a node gets an address above      *)
(* every address ever given, and it leaves only by itself.                     *)
THEOREM KeepsMembership == GSpec /\ []Unwrapped => MembershipSpec
<1>1. GInit => M!Init
  BY DEF GInit, M!Init
<1>2. GTypeOK /\ AddressInv /\ ForStrangers /\ Unwrapped /\ [GNext]_gVars
        => [M!Next]_<<nodeAddr, member, killed>>
  <2>. SUFFICES ASSUME GTypeOK, AddressInv, ForStrangers, Unwrapped, [GNext]_gVars
                PROVE  [M!Next]_<<nodeAddr, member, killed>>
    OBVIOUS
  <2>1. CASE Crash
    <3>1. killed' = TRUE
      BY <2>1, Zenon DEF Crash, Fault
    <3>. QED  BY <2>1, <3>1 DEF Crash, nodes, M!Next, M!Forget
  <2>2. ASSUME ~Crash, UNCHANGED <<nodeAddr, member>>
        PROVE  [M!Next]_<<nodeAddr, member, killed>>
    BY <2>2, MembersLeave
  <2>3. CASE DongleAuthData
    <3>1. CASE link.phase # "secret"
      BY <2>1, <2>2, <2>3, <3>1 DEF DongleAuthData, LinkStep
    <3>. QED  BY <2>3, <3>1, SecretJoins
  <2>4. CASE ~Crash /\ (NodeAnswers \/ Loss)
    <3>1. UNCHANGED nodeAddr
      BY <2>4 DEF NodeAnswers, Loss
    <3>2. member' = member \/ \E d \in member : member' = member \ {d}
      BY <2>4 DEF NodeAnswers, Loss, Take
    <3>. QED  BY <2>4, <3>1, <3>2, MembersLeave
  <2>5. ASSUME DongleCommand, ~DongleAuthData PROVE UNCHANGED <<nodeAddr, member>>
    BY <2>5 DEF DongleCommand, DongleRadioReset, DongleScan, DongleProvision, DongleOobUse,
       DongleEcdhSecret, DongleLocalUnicastSet, DongleSubnetAdd, DongleAppKeyAdd,
       DongleDevkeyAdd, DongleAddrPublicationAdd, DonglePacketSend, LinkStep, Reboot,
       world, nodes
  <2>6. ASSUME HostStep \/ User \/ DongleTxComplete \/ LinkClosed \/ Beacon
               \/ DongleRestart \/ WriteFails \/ UNCHANGED gVars
        PROVE  UNCHANGED <<nodeAddr, member>>
    BY <2>6 DEF HostStep, User, DongleTxComplete, LinkClosed, Beacon, DongleRestart,
       WriteFails, Reboot, gVars, world, nodes
  <2>. QED  BY <2>1, <2>2, <2>3, <2>4, <2>5, <2>6 DEF GNext, DongleStep
<1>. QED
  BY <1>1, <1>2, GatewayTypeCorrect, AddressesConveyed, PTL
  DEF GSpec, MembershipSpec, M!Spec
===============================================================================
