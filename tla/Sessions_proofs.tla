---------------------------- MODULE Sessions_proofs ----------------------------
(* Proofs that the sessions of the gateway stay in order, for every set of     *)
(* devices, every handle the firmware may start from and every bound, when the *)
(* user presses a key only while nothing is going on.                          *)
EXTENDS Gateway_proofs, Functions

USE DEF STATE_NEW, PROVISION, OOBUSE, ECDH, AUTH, DEVKEY_ADDRPUBADD,
        PS_COMPOSDATA, PS_APPKEY_ADD, PS_MODEL_APP_BIND, PS_MODEL_PUBLICATION_SET

-------------------------------------------------------------------------------
(* What is on its way in q: something with the opcode op; none of the opcodes  *)
(* `early' behind one of the opcodes `late'.                                   *)
Has(q, op) == \E x \in Range(q) : x.op = op
Ordered(q, early, late) ==
  \A i, j \in DOMAIN q : q[i].op \in late /\ q[j].op \in early => j <= i

(* Taking the first element off a queue.                                       *)
LEMMA TailRange ==
  ASSUME NEW S, NEW q \in Seq(S), q # <<>>
  PROVE  Head(q) \in S /\ Range(q) = {Head(q)} \cup Range(Tail(q))
<1>. DEFINE t == Tail(q)
<1>1. /\ 1 \in DOMAIN q /\ Head(q) = q[1] /\ q[1] \in S
      /\ \A i \in DOMAIN t : i + 1 \in DOMAIN q /\ t[i] = q[i + 1]
      /\ \A i \in DOMAIN q : i = 1 \/ (i - 1 \in DOMAIN t /\ q[i] = t[i - 1])
  OBVIOUS
<1>. HIDE DEF t
<1>2. ASSUME NEW x PROVE x \in Range(q) <=> x = Head(q) \/ x \in Range(t)
  <2>1. CASE x \in Range(q)
    <3>1. PICK i \in DOMAIN q : x = q[i]
      BY <2>1 DEF Range
    <3>. QED  BY <1>1, <3>1 DEF Range
  <2>2. CASE x = Head(q) \/ x \in Range(t)
    BY <1>1, <2>2 DEF Range
  <2>. QED  BY <2>1, <2>2
<1>3. Head(q) \in S
  BY <1>1
<1>. QED  BY <1>2, <1>3 DEF t

(* What was on its way is the first element or still is.                      *)
LEMMA TailHas ==
  ASSUME NEW S, NEW q \in Seq(S), q # <<>>
  PROVE  \A op : Has(q, op) <=> Head(q).op = op \/ Has(Tail(q), op)
BY TailRange DEF Has

(* A queue stays ordered as it is taken from, and nothing of the early kind   *)
(* is left behind one of the late kind.                                       *)
LEMMA TailOrdered ==
  ASSUME NEW S, NEW q \in Seq(S), q # <<>>, NEW early, NEW late,
         Ordered(q, early, late)
  PROVE  /\ Ordered(Tail(q), early, late)
         /\ Head(q).op \in late => \A op \in early : ~Has(Tail(q), op)
<1>. DEFINE t == Tail(q)
<1>1. /\ 1 \in DOMAIN q /\ Head(q) = q[1]
      /\ \A i \in DOMAIN t : i \in Nat /\ i + 1 \in DOMAIN q /\ t[i] = q[i + 1] /\ i + 1 > 1
  OBVIOUS
<1>. HIDE DEF t
<1>2. Ordered(t, early, late)
  <2>1. ASSUME NEW i \in DOMAIN t, NEW j \in DOMAIN t,
               t[i].op \in late, t[j].op \in early
        PROVE  j <= i
    <3>1. /\ i + 1 \in DOMAIN q /\ t[i] = q[i + 1]
          /\ j + 1 \in DOMAIN q /\ t[j] = q[j + 1]
      BY <1>1
    <3>2. j + 1 <= i + 1
      BY <2>1, <3>1 DEF Ordered
    <3>. QED  BY <1>1, <3>2
  <2>. QED  BY <2>1 DEF Ordered
<1>3. ASSUME Head(q).op \in late, NEW op \in early, Has(t, op)
      PROVE  FALSE
  <2>1. PICK j \in DOMAIN t : t[j].op \in early
    BY <1>3 DEF Has, Range
  <2>2. j + 1 <= 1
    BY <1>1, <1>3, <2>1 DEF Ordered
  <2>. QED  BY <1>1, <2>1, <2>2
<1>. QED  BY <1>2, <1>3 DEF t

(* Adding elements behind the last one.                                        *)
LEMMA JoinedRange ==
  ASSUME NEW S, NEW q \in Seq(S), NEW s \in Seq(S)
  PROVE  Range(q \o s) = Range(q) \cup Range(s)
<1>. DEFINE t == q \o s
<1>1. /\ \A i \in DOMAIN q : i \in DOMAIN t /\ t[i] = q[i]
      /\ \A i \in DOMAIN s : i + Len(q) \in DOMAIN t /\ t[i + Len(q)] = s[i]
      /\ \A i \in DOMAIN t : \/ i \in DOMAIN q /\ t[i] = q[i]
                             \/ i - Len(q) \in DOMAIN s /\ t[i] = s[i - Len(q)]
  OBVIOUS
<1>. HIDE DEF t
<1>2. ASSUME NEW x PROVE x \in Range(t) <=> x \in Range(q) \/ x \in Range(s)
  <2>1. CASE x \in Range(t)
    <3>1. PICK i \in DOMAIN t : x = t[i]
      BY <2>1 DEF Range
    <3>. QED  BY <1>1, <3>1 DEF Range
  <2>2. CASE x \in Range(q) \/ x \in Range(s)
    BY <1>1, <2>2 DEF Range
  <2>. QED  BY <2>1, <2>2
<1>. QED  BY <1>2 DEF t

(* The queues that a single step adds.                                        *)
LEMMA ShortRange ==
  /\ Range(<<>>) = {}
  /\ \A a : Range(<<a>>) = {a}
  /\ \A a, b : Range(<<a, b>>) = {a, b}
BY DEF Range

(* What is on its way after a write was on its way or was written.            *)
LEMMA JoinedHas ==
  ASSUME NEW S, NEW q \in Seq(S), NEW s \in Seq(S)
  PROVE  \A op : Has(q \o s, op) <=> Has(q, op) \/ Has(s, op)
BY JoinedRange DEF Has

(* What a single step adds has these opcodes.                                 *)
LEMMA ShortHas ==
  /\ \A op : ~Has(<<>>, op)
  /\ \A a, op : Has(<<a>>, op) <=> a.op = op
  /\ \A a, b, op : Has(<<a, b>>, op) <=> a.op = op \/ b.op = op
BY ShortRange DEF Has

(* A queue stays ordered if nothing of the early kind is added behind one of  *)
(* the late kind.                                                             *)
LEMMA JoinedOrdered ==
  ASSUME NEW S, NEW q \in Seq(S), NEW s \in Seq(S), NEW early, NEW late,
         Ordered(q, early, late), Ordered(s, early, late),
         (\A op \in late : ~Has(q, op)) \/ (\A op \in early : ~Has(s, op))
  PROVE  Ordered(q \o s, early, late)
<1>. DEFINE t == q \o s
            n == Len(q)
<1>1. /\ n \in Nat
      /\ \A i \in DOMAIN t : i \in Nat
      /\ \A i \in DOMAIN t : \/ i \in DOMAIN q /\ t[i] = q[i] /\ i <= n
                             \/ i - n \in DOMAIN s /\ t[i] = s[i - n] /\ i > n
  OBVIOUS
<1>. HIDE DEF t, n
<1>2. ASSUME NEW i \in DOMAIN t, NEW j \in DOMAIN t,
             t[i].op \in late, t[j].op \in early
      PROVE  j <= i
  <2>1. CASE i \in DOMAIN q /\ t[i] = q[i] /\ i <= n
    <3>1. CASE j \in DOMAIN q /\ t[j] = q[j]
      BY <1>2, <2>1, <3>1 DEF Ordered
    <3>2. CASE j - n \in DOMAIN s /\ t[j] = s[j - n]
      BY <1>2, <2>1, <3>2 DEF Has, Range
    <3>. QED  BY <1>1, <3>1, <3>2
  <2>2. CASE i - n \in DOMAIN s /\ t[i] = s[i - n] /\ i > n
    <3>1. CASE j \in DOMAIN q /\ j <= n
      BY <1>1, <2>2, <3>1
    <3>2. CASE j - n \in DOMAIN s /\ t[j] = s[j - n]
      <4>1. j - n <= i - n
        BY <1>2, <2>2, <3>2 DEF Ordered
      <4>. QED  BY <1>1, <4>1
    <3>. QED  BY <1>1, <3>1, <3>2
  <2>. QED  BY <1>1, <2>1, <2>2
<1>. QED  BY <1>2 DEF Ordered, t

(* What a single step adds is ordered, or has the early one first.            *)
LEMMA ShortOrdered ==
  ASSUME NEW early, NEW late
  PROVE  /\ Ordered(<<>>, early, late)
         /\ \A a : Ordered(<<a>>, early, late)
         /\ \A a, b : a.op \notin late \/ b.op \notin early
                        => Ordered(<<a, b>>, early, late)
BY DEF Ordered

-------------------------------------------------------------------------------
(* A user who presses a key only while nothing is going on, a program that     *)
(* resets its state before the dongle can react to '1', and no reboot in the   *)
(* middle: what the five invariants of this module are about.                  *)
Careful == Patient /\ Prompt /\ Faults \cap {"restart", "crash"} = {}

LinkEvents   == {"CAPS_RECEIVED", "ECDH_REQUEST", "AUTH_REQUEST", "COMPLETE"}
LinkCommands == {"PROV_PROVISION", "PROV_OOB_USE", "PROV_ECDH_SECRET",
                 "PROV_AUTH_DATA"}
AfterLink    == {"DEVKEY_ADD", "ADDR_PUBLICATION_ADD", "PACKET_SEND"}

(* The rung the session is on, and whether the receiver waits there for an     *)
(* event; a session that the user started and no fatal fault has hit since.    *)
Reached == IF rpc = "set" THEN job.rung ELSE state
Waiting == rpc \in {"idle", "set"}
Live    == sound /\ cpc # "new"

NoLinkEvent   == \A op \in LinkEvents : ~Has(toHost, op)
NoLinkCommand == \A op \in LinkCommands : ~Has(toDongle, op)
Closing       == Has(toHost, "LINK_CLOSED")

(* While a key is being handled nothing else happens.                          *)
KeyAlone ==
  cpc # "getchar" =>
    /\ rpc = "idle" /\ toHost = <<>>
    /\ link.phase = "none" /\ txs = 0 /\ air = {} /\ ~scanning
    /\ \/ toDongle = <<>>
       \/ cpc = "new" /\ toDongle = <<Cmd("DFU_JUMP_TO_BOOTLOADER")>>

(* Before the first reset reaches the dongle nothing has happened yet.         *)
Booting ==
  ~Started =>
    /\ toDongle = <<Cmd("DEVICE_RADIO_RESET")>> /\ toHost = <<>>
    /\ state = STATE_NEW /\ rpc = "idle" /\ cpc = "getchar"
    /\ link = NoLink /\ txs = 0 /\ air = {} /\ member = {} /\ appkeys = {}
    /\ ~scanning /\ ~sound

(* Nobody changes the state behind the back of a handler.                      *)
StateKept ==
  /\ rpc \in {"body", "set"} => state = job.rung - 1
  /\ rpc = "store" => state = DEVKEY_ADDRPUBADD
  /\ rpc = "check" => state = AUTH

Process == KeyAlone /\ Booting /\ StateKept

(* At most one event of the provisioning handshake is on its way, none behind  *)
(* the end of the link; no command of a session behind the next PROVISION.     *)
HostOrder ==
  /\ Ordered(toHost, LinkEvents, LinkEvents \cup {"LINK_CLOSED"})
  /\ Ordered(toHost, {"LINK_CLOSED"}, {"LINK_CLOSED"})
DongleOrder == Ordered(toDongle, LinkCommands \cup AfterLink, {"PROV_PROVISION"})

(* An event of the handshake is awaited.                                       *)
Awaits(event, k) == Has(toHost, event) => Reached = k /\ Waiting /\ NoLinkCommand
EventsInTurn ==
  /\ Awaits("CAPS_RECEIVED", PROVISION) /\ Awaits("ECDH_REQUEST", OOBUSE)
  /\ Awaits("AUTH_REQUEST", ECDH) /\ Awaits("COMPLETE", AUTH)

ClosedInTurn ==
  Closing =>
    /\ link.phase = "none" /\ ~Has(toDongle, "PROV_PROVISION")
    /\ Reached \in PROVISION .. DEVKEY_ADDRPUBADD
    /\ ~(rpc = "body" /\ state = DEVKEY_ADDRPUBADD)

ProvisionInTurn ==
  Has(toDongle, "PROV_PROVISION") =>
    Reached = PROVISION /\ Waiting /\ link.phase = "none" /\ NoLinkEvent

(* While the link is in a phase, the event that reports it is on its way or in *)
(* the hands of the receiver, or the next command was written; in a live       *)
(* session that command is still on its way.                                   *)
LinkAt(phase, k, event, next) ==
  link.phase = phase =>
    /\ \A op \in AfterLink : ~Has(toDongle, op)
    /\ \/ /\ Reached = k /\ NoLinkCommand
          /\ (Waiting /\ Has(toHost, event)) \/ rpc = "body"
       \/ /\ Reached = k + 1 /\ Waiting /\ NoLinkEvent
          /\ \A op \in LinkCommands : Has(toDongle, op) => op = next
          /\ Ordered(toDongle, LinkCommands, LinkCommands)
          /\ Live => Has(toDongle, next)
LinkInTurn ==
  /\ LinkAt("invited", PROVISION, "CAPS_RECEIVED", "PROV_OOB_USE")
  /\ LinkAt("oob", OOBUSE, "ECDH_REQUEST", "PROV_ECDH_SECRET")
  /\ LinkAt("secret", ECDH, "AUTH_REQUEST", "PROV_AUTH_DATA")

CompleteInTurn ==
  link.phase = "complete" =>
    /\ NoLinkCommand
    /\ \/ /\ Reached = AUTH
          /\ (Waiting /\ Has(toHost, "COMPLETE")) \/ rpc \in {"check", "body"}
       \/ Reached = DEVKEY_ADDRPUBADD /\ rpc # "body" /\ NoLinkEvent

(* No link, and no end of one to be noticed.                                   *)
NoLinkInTurn ==
  link.phase = "none" /\ ~Closing =>
    /\ NoLinkEvent
    /\ \/ Reached = STATE_NEW /\ ~Has(toDongle, "PROV_PROVISION")
       \/ /\ Reached = PROVISION /\ Waiting
          /\ Live => Has(toDongle, "PROV_PROVISION")
       \/ Reached = DEVKEY_ADDRPUBADD /\ rpc = "body" /\ NoLinkCommand
       \/ Reached >= PS_COMPOSDATA /\ NoLinkCommand

(* The handshake is over once COMPLETE was taken.                              *)
LateInTurn ==
  Reached = DEVKEY_ADDRPUBADD \/ rpc = "check" \/ (rpc = "body" /\ state = AUTH)
    => NoLinkCommand

LinkInv == /\ HostOrder /\ DongleOrder /\ EventsInTurn /\ ClosedInTurn
           /\ ProvisionInTurn /\ LinkInTurn /\ CompleteInTurn /\ NoLinkInTurn
           /\ LateInTurn

-------------------------------------------------------------------------------
(* What taking an event, reporting one, taking a command and writing some do   *)
(* to what is on its way.                                                      *)
LEMMA EventTaken ==
  ASSUME toHost \in Seq(Events), toHost # <<>>, toHost' = Tail(toHost)
  PROVE  /\ Head(toHost) \in Events
         /\ Range(toHost) = {Head(toHost)} \cup Range(toHost')
         /\ \A op : Has(toHost, op) <=> Head(toHost).op = op \/ Has(toHost', op)
         /\ HostOrder =>
              /\ HostOrder'
              /\ Head(toHost).op \in LinkEvents \cup {"LINK_CLOSED"} =>
                   \A op \in LinkEvents : ~Has(toHost', op)
              /\ Head(toHost).op = "LINK_CLOSED" => ~Has(toHost', "LINK_CLOSED")
<1>1. ASSUME NEW early, NEW late, Ordered(toHost, early, late)
      PROVE  /\ Ordered(toHost', early, late)
             /\ Head(toHost).op \in late => \A op \in early : ~Has(toHost', op)
  BY <1>1, TailOrdered
<1>2. HostOrder => HostOrder'
  BY <1>1 DEF HostOrder
<1>3. HostOrder /\ Head(toHost).op \in LinkEvents \cup {"LINK_CLOSED"} =>
        \A op \in LinkEvents : ~Has(toHost', op)
  BY <1>1 DEF HostOrder
<1>4. HostOrder /\ Head(toHost).op = "LINK_CLOSED" => ~Has(toHost', "LINK_CLOSED")
  BY <1>1 DEF HostOrder
<1>5. Head(toHost) \in Events /\ Range(toHost) = {Head(toHost)} \cup Range(toHost')
  BY TailRange
<1>6. \A op : Has(toHost, op) <=> Head(toHost).op = op \/ Has(toHost', op)
  BY TailHas
<1>. QED  BY <1>2, <1>3, <1>4, <1>5, <1>6

(* An event is reported: it comes last.                                       *)
LEMMA EventsReported ==
  ASSUME toHost \in Seq(Events), NEW e \in Events, Answer(<<e>>)
  PROVE  /\ Range(toHost') = Range(toHost) \cup {e}
         /\ \A op : Has(toHost', op) <=> Has(toHost, op) \/ e.op = op
         /\ HostOrder /\ ~Closing => HostOrder' \/ e.op \in LinkEvents
         /\ HostOrder /\ e.op \notin LinkEvents \cup {"LINK_CLOSED"} => HostOrder'
         /\ HostOrder /\ ~Closing /\ NoLinkEvent => HostOrder'
<1>. DEFINE s == <<e>>
<1>0. s \in Seq(Events) /\ toHost' = toHost \o s
  BY DEF Answer
<1>1. Range(s) = {e} /\ \A op : Has(s, op) <=> e.op = op
  BY ShortRange, ShortHas
<1>2. \A early, late : Ordered(s, early, late)
  BY ShortOrdered
<1>. HIDE DEF s
<1>3. Range(toHost') = Range(toHost) \cup {e}
  BY <1>0, <1>1, JoinedRange
<1>4. \A op : Has(toHost', op) <=> Has(toHost, op) \/ e.op = op
  BY <1>0, <1>1, JoinedHas
<1>5. ASSUME NEW early, NEW late, Ordered(toHost, early, late),
             (\A op \in late : ~Has(toHost, op)) \/ e.op \notin early
      PROVE  Ordered(toHost', early, late)
  <2>1. (\A op \in late : ~Has(toHost, op)) \/ (\A op \in early : ~Has(s, op))
    BY <1>1, <1>5
  <2>. QED  BY <1>0, <1>2, <1>5, <2>1, JoinedOrdered
<1>6. "LINK_CLOSED" \notin LinkEvents
  BY DEF LinkEvents
<1>. DEFINE a == HostOrder /\ ~Closing => HostOrder' \/ e.op \in LinkEvents
            b == HostOrder /\ e.op \notin LinkEvents \cup {"LINK_CLOSED"} => HostOrder'
            c == HostOrder /\ ~Closing /\ NoLinkEvent => HostOrder'
<1>7. a
  BY <1>5 DEF HostOrder, Closing
<1>8. b
  BY <1>5 DEF HostOrder
<1>9. c
  BY <1>5 DEF HostOrder, Closing, NoLinkEvent
<1>. QED  BY <1>3, <1>4, <1>7, <1>8, <1>9

(* A command is taken by the dongle, or lost: it was the first.               *)
LEMMA CommandTaken ==
  ASSUME toDongle \in Seq(Commands), toDongle # <<>>, toDongle' = Tail(toDongle)
  PROVE  /\ Head(toDongle) \in Commands
         /\ Range(toDongle) = {Head(toDongle)} \cup Range(toDongle')
         /\ \A op : Has(toDongle, op) <=> Head(toDongle).op = op \/ Has(toDongle', op)
         /\ DongleOrder =>
              /\ DongleOrder'
              /\ Head(toDongle).op = "PROV_PROVISION" =>
                   \A op \in LinkCommands \cup AfterLink : ~Has(toDongle', op)
         /\ Ordered(toDongle, LinkCommands, LinkCommands) =>
              /\ Ordered(toDongle', LinkCommands, LinkCommands)
              /\ Head(toDongle).op \in LinkCommands => NoLinkCommand'
<1>1. ASSUME NEW early, NEW late, Ordered(toDongle, early, late)
      PROVE  /\ Ordered(toDongle', early, late)
             /\ Head(toDongle).op \in late => \A op \in early : ~Has(toDongle', op)
  BY <1>1, TailOrdered
<1>2. DongleOrder =>
        /\ DongleOrder'
        /\ Head(toDongle).op = "PROV_PROVISION" =>
             \A op \in LinkCommands \cup AfterLink : ~Has(toDongle', op)
  BY <1>1 DEF DongleOrder
<1>3. Ordered(toDongle, LinkCommands, LinkCommands) =>
        /\ Ordered(toDongle', LinkCommands, LinkCommands)
        /\ Head(toDongle).op \in LinkCommands => NoLinkCommand'
  BY <1>1 DEF NoLinkCommand
<1>4. Head(toDongle) \in Commands
      /\ Range(toDongle) = {Head(toDongle)} \cup Range(toDongle')
  BY TailRange
<1>5. \A op : Has(toDongle, op) <=> Head(toDongle).op = op \/ Has(toDongle', op)
  BY TailHas
<1>. QED  BY <1>2, <1>3, <1>4, <1>5

(* Commands are written: they come last.                                      *)
LEMMA CommandsWritten ==
  ASSUME toDongle \in Seq(Commands), NEW s \in Seq(Commands), Write(s)
  PROVE  /\ Range(toDongle') = Range(toDongle) \cup Range(s)
         /\ \A op : Has(toDongle', op) <=> Has(toDongle, op) \/ Has(s, op)
         /\ \A early, late :
              /\ Ordered(toDongle, early, late) /\ Ordered(s, early, late)
              /\ (\A op \in late : ~Has(toDongle, op)) \/ (\A op \in early : ~Has(s, op))
              => Ordered(toDongle', early, late)
<1>1. toDongle' = toDongle \o s
  BY DEF Write
<1>2. Range(toDongle') = Range(toDongle) \cup Range(s)
  BY <1>1, JoinedRange
<1>3. \A op : Has(toDongle', op) <=> Has(toDongle, op) \/ Has(s, op)
  BY <1>1, JoinedHas
<1>4. ASSUME NEW early, NEW late,
             Ordered(toDongle, early, late), Ordered(s, early, late),
             (\A op \in late : ~Has(toDongle, op)) \/ (\A op \in early : ~Has(s, op))
      PROVE  Ordered(toDongle', early, late)
  BY <1>1, <1>4, JoinedOrdered
<1>. QED  BY <1>2, <1>3, <1>4

-------------------------------------------------------------------------------
(* A step that leaves the handshake alone: the session stays on its rung, and  *)
(* no event, command or end of the handshake is taken or added, but commands   *)
(* may be lost if the session is not live any more.                            *)
LinkFrame ==
  /\ HostOrder' /\ DongleOrder'
  /\ \A op \in LinkEvents \cup {"LINK_CLOSED"} : Has(toHost', op) <=> Has(toHost, op)
  /\ \A op \in LinkCommands : Has(toDongle', op) => Has(toDongle, op)
  /\ Ordered(toDongle, LinkCommands, LinkCommands)
       => Ordered(toDongle', LinkCommands, LinkCommands)
  /\ link.phase \in {"invited", "oob", "secret"} =>
       \A op \in AfterLink : Has(toDongle', op) => Has(toDongle, op)
  /\ Live' => Live /\ \A op \in LinkCommands : Has(toDongle, op) => Has(toDongle', op)
  /\ UNCHANGED <<link, Reached>>
  /\ Reached <= DEVKEY_ADDRPUBADD =>
       (rpc' = "body" <=> rpc = "body") /\ (rpc' = "check" <=> rpc = "check")
  /\ Reached <= AUTH => (Waiting' <=> Waiting)
  /\ rpc \in {"body", "check"} => UNCHANGED state
  /\ rpc' \in {"body", "check"} => UNCHANGED state

(* Such a step keeps the handshake in order.                                  *)
LEMMA FrameKeepsLink ==
  ASSUME TypeOK, LinkInv, LinkFrame, StateKept, StateKept' PROVE LinkInv'
<1>. USE DEF LinkFrame, LinkInv
<1>1. /\ NoLinkEvent' <=> NoLinkEvent
      /\ Closing' <=> Closing
      /\ NoLinkCommand => NoLinkCommand'
  BY DEF NoLinkEvent, Closing, NoLinkCommand
<1>0. Reached \in Int
  BY DEF TypeOK, Reached, States, Rungs
<1>2. EventsInTurn'
  BY <1>1 DEF EventsInTurn, Awaits, LinkEvents
<1>3. ClosedInTurn'
  BY <1>0, <1>1 DEF ClosedInTurn, LinkCommands
<1>4. ProvisionInTurn'
  BY <1>1 DEF ProvisionInTurn, LinkCommands
<1>5. LinkInTurn'
  BY <1>1 DEF LinkInTurn, LinkAt, LinkCommands, LinkEvents
<1>6. CompleteInTurn'
  BY <1>1 DEF CompleteInTurn, LinkEvents
<1>7. NoLinkInTurn'
  BY <1>0, <1>1 DEF NoLinkInTurn, LinkCommands
<1>8. LateInTurn'
  BY <1>0, <1>1 DEF LateInTurn, StateKept, Reached
<1>. QED  BY <1>2, <1>3, <1>4, <1>5, <1>6, <1>7, <1>8

(* Writing commands that belong to no session.                                 *)
LEMMA OthersWritten ==
  ASSUME toDongle \in Seq(Commands), NEW s \in Seq(Commands), Write(s),
         \A op \in LinkCommands \cup AfterLink : ~Has(s, op)
  PROVE  /\ \A op \in LinkCommands \cup AfterLink : Has(toDongle', op) <=> Has(toDongle, op)
         /\ DongleOrder => DongleOrder'
         /\ Ordered(toDongle, LinkCommands, LinkCommands)
              => Ordered(toDongle', LinkCommands, LinkCommands)
<1>1. \A op \in LinkCommands \cup AfterLink : Has(toDongle', op) <=> Has(toDongle, op)
  BY CommandsWritten
<1>2. \A late : Ordered(s, LinkCommands \cup AfterLink, late)
                  /\ Ordered(s, LinkCommands, late)
  BY DEF Ordered, Has, Range
<1>3. DongleOrder => DongleOrder'
  BY <1>2, CommandsWritten DEF DongleOrder
<1>4. Ordered(toDongle, LinkCommands, LinkCommands)
        => Ordered(toDongle', LinkCommands, LinkCommands)
  BY <1>2, CommandsWritten
<1>. QED  BY <1>1, <1>3, <1>4

(* Nothing written.                                                            *)
LEMMA NothingToDongle ==
  ASSUME UNCHANGED toDongle
  PROVE  /\ \A op : Has(toDongle', op) <=> Has(toDongle, op)
         /\ DongleOrder => DongleOrder'
         /\ \A early, late : Ordered(toDongle, early, late) => Ordered(toDongle', early, late)
BY DEF DongleOrder

(* What the receiver writes for each rung.                                     *)
LEMMA RungWrites ==
  ASSUME NEW k \in Rungs, NEW ev
  PROVE  \/ k = PROVISION /\ RungCommands(k, ev) = <<Provision(ev.dev, NextAddr)>>
         \/ k = OOBUSE /\ RungCommands(k, ev) = <<Cmd("PROV_OOB_USE")>>
         \/ k = ECDH /\ RungCommands(k, ev) = <<Cmd("PROV_ECDH_SECRET")>>
         \/ k = AUTH /\ RungCommands(k, ev) = <<Cmd("PROV_AUTH_DATA")>>
         \/ k = DEVKEY_ADDRPUBADD
            /\ RungCommands(k, ev) = <<DevkeyAdd(dev_addr, subnet_handle, ev.dev),
                                       AddrPublicationAdd(dev_addr)>>
         \/ k = PS_COMPOSDATA /\ RungCommands(k, ev) = <<ConfigPacket("COMPOSITION_DATA_GET")>>
         \/ k = PS_APPKEY_ADD /\ RungCommands(k, ev) = <<ConfigPacket("APPKEY_ADD")>>
         \/ k = PS_MODEL_APP_BIND /\ RungCommands(k, ev) = <<ModelPacket("MODEL_APP_BIND")>>
         \/ k = PS_MODEL_PUBLICATION_SET
            /\ RungCommands(k, ev) = <<ModelPacket("MODEL_PUBLICATION_SET")>>
BY DEF RungCommands, Rungs

(* Taking an event that is none of the handshake's.                            *)
LEMMA OtherTaken ==
  ASSUME TypeOK, NEW ops, Receive(ops), HostOrder,
         \A op \in ops : op \notin LinkEvents \cup {"LINK_CLOSED"}
  PROVE  /\ HostOrder'
         /\ \A op \in LinkEvents \cup {"LINK_CLOSED"} : Has(toHost', op) <=> Has(toHost, op)
BY EventTaken DEF TypeOK, Receive

(* An event that the handshake, or the end of the link, does not take part in  *)
(* changes nothing for it: what its handler does is on another rung.           *)
Other(ops) ==
  /\ Receive(ops) /\ \A op \in ops : op \notin LinkEvents \cup {"LINK_CLOSED"}
  /\ UNCHANGED <<link, sound, cli>>
  /\ UNCHANGED state
  /\ \E s \in Seq(Commands) :
       Write(s) /\ \A op \in LinkCommands \cup AfterLink : ~Has(s, op)
  /\ \/ UNCHANGED receiver
     \/ state = DEVKEY_ADDRPUBADD /\ rpc' = "store"
     \/ state >= PS_COMPOSDATA /\ rpc' = "body"

(* Such a step is none of the handshake's, whatever it does.                  *)
LEMMA OtherKeepsLink ==
  ASSUME TypeOK, LinkInv, StateKept, StateKept', NEW ops, Other(ops) PROVE LinkInv'
<1>1. /\ HostOrder'
      /\ \A op \in LinkEvents \cup {"LINK_CLOSED"} : Has(toHost', op) <=> Has(toHost, op)
  BY OtherTaken DEF Other, LinkInv
<1>2. /\ \A op \in LinkCommands \cup AfterLink : Has(toDongle', op) <=> Has(toDongle, op)
      /\ DongleOrder'
      /\ Ordered(toDongle, LinkCommands, LinkCommands)
           => Ordered(toDongle', LinkCommands, LinkCommands)
  BY OthersWritten DEF Other, LinkInv, TypeOK
<1>3. /\ UNCHANGED <<link, Reached>>
      /\ Reached <= DEVKEY_ADDRPUBADD =>
           (rpc' = "body" <=> rpc = "body") /\ (rpc' = "check" <=> rpc = "check")
      /\ Reached <= AUTH => (Waiting' <=> Waiting)
      /\ rpc \in {"body", "check"} => UNCHANGED state
      /\ rpc' \in {"body", "check"} => UNCHANGED state
      /\ Live' <=> Live
  BY DEF Other, Receive, Reached, Waiting, Live, cli, receiver, TypeOK, States
<1>4. LinkFrame
  BY <1>1, <1>2, <1>3 DEF LinkFrame
<1>. QED  BY <1>4, FrameKeepsLink

(* A beacon starts a session only when none is going on.                       *)
LEMMA BeaconKeepsLink ==
  ASSUME TypeOK, LinkInv, StateKept, ProvUnprovisionedReceived, UNCHANGED <<link, sound>>,
         StateKept'
  PROVE  LinkInv'
<1>1. CASE Idle
  <2>1. Other({"UNPROVISIONED_RECEIVED"})
    <3>1. Write(<<>>) /\ <<>> \in Seq(Commands)
      BY <1>1 DEF Idle, Write, TypeOK
    <3>. QED
      BY <1>1, <3>1, ShortHas
      DEF Other, ProvUnprovisionedReceived, Handle, Idle, LinkEvents, cli
  <2>. QED  BY <2>1, OtherKeepsLink
<1>2. CASE state = PROVISION - 1 /\ Begin(PROVISION, Head(toHost))
  <2>1. /\ HostOrder'
        /\ \A op \in LinkEvents \cup {"LINK_CLOSED"} : Has(toHost', op) <=> Has(toHost, op)
    BY OtherTaken DEF ProvUnprovisionedReceived, Handle, LinkInv, LinkEvents
  <2>2. /\ \A op : Has(toDongle', op) <=> Has(toDongle, op)
        /\ DongleOrder'
    BY <1>2, NothingToDongle DEF Begin, LinkInv
  <2>3. /\ rpc = "idle" /\ rpc' = "body" /\ state = STATE_NEW /\ UNCHANGED state
        /\ UNCHANGED link /\ Reached = STATE_NEW /\ Reached' = STATE_NEW
    BY <1>2 DEF Begin, ProvUnprovisionedReceived, Handle, Receive, Reached
  <2>4. link.phase \notin {"invited", "oob", "secret", "complete"} /\ ~Closing
        /\ NoLinkEvent /\ ~Has(toDongle, "PROV_PROVISION")
    BY <2>3 DEF LinkInv, EventsInTurn, Awaits, ClosedInTurn, ProvisionInTurn, LinkInTurn,
       LinkAt, CompleteInTurn, NoLinkEvent, LinkEvents
  <2>5. NoLinkEvent' /\ ~Closing' /\ ~Has(toDongle', "PROV_PROVISION")
    BY <2>1, <2>2, <2>4 DEF NoLinkEvent, Closing
  <2>. QED
    BY <2>1, <2>2, <2>3, <2>4, <2>5
    DEF LinkInv, EventsInTurn, Awaits, ClosedInTurn, ProvisionInTurn, LinkInTurn,
        LinkAt, CompleteInTurn, NoLinkInTurn, LateInTurn, NoLinkEvent, LinkEvents
<1>. QED  BY <1>1, <1>2 DEF ProvUnprovisionedReceived, Handle

(* An event of the handshake comes in the state that awaits it, and its        *)
(* handler takes over from it.                                                 *)
LEMMA HandshakeKeepsLink ==
  ASSUME TypeOK, LinkInv, StateKept, StateKept', UNCHANGED <<link, sound>>,
         ProvCapsReceived \/ ProvEcdhRequest \/ ProvAuthRequest
  PROVE  LinkInv'
<1>1. PICK op, k : /\ \/ op = "CAPS_RECEIVED" /\ k = OOBUSE
                      \/ op = "ECDH_REQUEST" /\ k = ECDH
                      \/ op = "AUTH_REQUEST" /\ k = AUTH
                   /\ Handle(op, k)
  BY DEF ProvCapsReceived, ProvEcdhRequest, ProvAuthRequest
<1>2. /\ Has(toHost, op) /\ op \in LinkEvents /\ NoLinkEvent'
      /\ HostOrder' /\ (Closing' <=> Closing)
  <2>1. Head(toHost).op = op
    BY <1>1 DEF Handle, Receive
  <2>2. op \in LinkEvents /\ op # "LINK_CLOSED"
    BY <1>1 DEF LinkEvents
  <2>. QED
    BY <1>1, <2>1, <2>2, EventTaken
    DEF TypeOK, LinkInv, Handle, Receive, Closing, NoLinkEvent
<1>3. /\ Reached = k - 1 /\ Waiting /\ NoLinkCommand
  BY <1>1, <1>2 DEF LinkInv, EventsInTurn, Awaits
<1>4. /\ rpc = "idle" /\ state = k - 1 /\ rpc' = "body" /\ UNCHANGED <<state, toDongle>>
      /\ Reached' = k - 1
  BY <1>1, <1>3 DEF Handle, Receive, Begin, Idle, Reached
<1>5. /\ \A o : Has(toDongle', o) <=> Has(toDongle, o)
      /\ DongleOrder'
  BY <1>4, NothingToDongle DEF LinkInv
<1>6. NoLinkCommand' /\ ~Has(toDongle, "PROV_PROVISION")
  BY <1>3, <1>5 DEF NoLinkCommand, LinkCommands
<1>. QED
  BY <1>1, <1>2, <1>3, <1>4, <1>5, <1>6
  DEF LinkInv, EventsInTurn, Awaits, ClosedInTurn, ProvisionInTurn, LinkInTurn,
      LinkAt, CompleteInTurn, NoLinkInTurn, LateInTurn, NoLinkEvent, LinkEvents

(* COMPLETE comes in state AUTH, so its handler goes on to its body.           *)
LEMMA CompleteKeepsLink ==
  ASSUME TypeOK, LinkInv, StateKept, StateKept', UNCHANGED <<link, sound>>,
         ProvComplete \/ ProvCompleteCheck
  PROVE  LinkInv'
<1>1. CASE ProvComplete
  <2>1. /\ Has(toHost, "COMPLETE") /\ NoLinkEvent'
        /\ HostOrder' /\ (Closing' <=> Closing)
    BY <1>1, EventTaken
    DEF TypeOK, LinkInv, ProvComplete, Receive, Closing, NoLinkEvent, LinkEvents
  <2>2. Reached = AUTH /\ Waiting /\ NoLinkCommand /\ state = AUTH /\ rpc = "idle"
        /\ rpc' = "check" /\ UNCHANGED state /\ Reached' = AUTH
    BY <1>1, <2>1 DEF LinkInv, EventsInTurn, Awaits, ProvComplete, Receive, Reached
  <2>3. /\ \A op \in LinkCommands \cup AfterLink : Has(toDongle', op) <=> Has(toDongle, op)
        /\ DongleOrder'
    <3>1. <<Cmd("PROV_SCAN_STOP")>> \in Seq(Commands)
      BY DEF Cmd, Commands, PlainCommands
    <3>2. \A op \in LinkCommands \cup AfterLink : ~Has(<<Cmd("PROV_SCAN_STOP")>>, op)
      BY ShortHas DEF Cmd, LinkCommands, AfterLink
    <3>. QED
      BY <1>1, <3>1, <3>2, OthersWritten DEF ProvComplete, LinkInv, TypeOK
  <2>4. NoLinkCommand' /\ ~Has(toDongle, "PROV_PROVISION")
    BY <2>2, <2>3 DEF NoLinkCommand, LinkCommands
  <2>. QED
    BY <2>1, <2>2, <2>3, <2>4
    DEF LinkInv, EventsInTurn, Awaits, ClosedInTurn, ProvisionInTurn, LinkInTurn,
        LinkAt, CompleteInTurn, NoLinkInTurn, LateInTurn, NoLinkEvent, LinkEvents,
        NoLinkCommand, LinkCommands
<1>2. CASE ProvCompleteCheck
  <2>1. /\ rpc = "check" /\ state = AUTH /\ rpc' = "body"
        /\ UNCHANGED <<state, toHost, toDongle, job, cpc>> /\ Reached = AUTH /\ Reached' = AUTH
    BY <1>2 DEF ProvCompleteCheck, StateKept, Reached, cli
  <2>2. /\ NoLinkEvent' <=> NoLinkEvent
        /\ NoLinkCommand' <=> NoLinkCommand
        /\ Closing' <=> Closing
        /\ HostOrder' /\ DongleOrder'
    BY <2>1 DEF NoLinkEvent, NoLinkCommand, Closing, LinkInv, HostOrder, DongleOrder
  <2>. QED
    BY <2>1, <2>2
    DEF LinkInv, EventsInTurn, Awaits, ClosedInTurn, ProvisionInTurn, LinkInTurn,
        LinkAt, CompleteInTurn, NoLinkInTurn, LateInTurn, NoLinkEvent, LinkEvents,
        Waiting
<1>. QED  BY <1>1, <1>2

(* The end of the link ends the session, or lets it go on to the composition.  *)
LEMMA ClosedKeepsLink ==
  ASSUME TypeOK, LinkInv, StateKept, StateKept', UNCHANGED <<link, sound>>,
         ProvLinkClosed
  PROVE  LinkInv'
<1>1. Closing /\ NoLinkEvent' /\ ~Closing' /\ HostOrder'
  BY EventTaken
  DEF TypeOK, LinkInv, ProvLinkClosed, Receive, Closing, NoLinkEvent
<1>2. /\ rpc = "idle" /\ UNCHANGED toDongle /\ Reached = state
      /\ \/ state = DEVKEY_ADDRPUBADD /\ rpc' = "body" /\ UNCHANGED state
            /\ Reached' = DEVKEY_ADDRPUBADD
         \/ state # DEVKEY_ADDRPUBADD /\ rpc' = "idle" /\ state' = STATE_NEW
            /\ Reached' = STATE_NEW
  BY DEF ProvLinkClosed, Begin, Receive, Reached, receiver
<1>3. /\ NoLinkCommand' <=> NoLinkCommand
      /\ DongleOrder'
  BY <1>2 DEF NoLinkCommand, LinkInv, DongleOrder
<1>. QED
  BY <1>1, <1>2, <1>3
  DEF LinkInv, EventsInTurn, Awaits, ClosedInTurn, ProvisionInTurn, LinkInTurn,
      LinkAt, CompleteInTurn, NoLinkInTurn, LateInTurn, NoLinkEvent, LinkEvents,
      Waiting

(* So does the last status of the configuration.                               *)
LEMMA PublicationKeepsLink ==
  ASSUME TypeOK, LinkInv, StateKept, StateKept', UNCHANGED <<link, sound>>,
         PublicationStatus
  PROVE  LinkInv'
<1>1. /\ HostOrder'
      /\ \A op \in LinkEvents \cup {"LINK_CLOSED"} : Has(toHost', op) <=> Has(toHost, op)
  BY OtherTaken DEF PublicationStatus, LinkInv, LinkEvents
<1>2. /\ rpc = "idle" /\ rpc' = "idle" /\ UNCHANGED <<toDongle, cli>>
      /\ Reached = state /\ Reached' = state'
  BY DEF PublicationStatus, Receive, Reached, receiver
<1>3. /\ \A op : Has(toDongle', op) <=> Has(toDongle, op)
      /\ DongleOrder'
      /\ \A early, late : Ordered(toDongle, early, late) => Ordered(toDongle', early, late)
  BY <1>2, NothingToDongle DEF LinkInv
<1>4. CASE UNCHANGED state
  <2>1. LinkFrame
    BY <1>1, <1>2, <1>3, <1>4 DEF LinkFrame, Waiting, Live, cli
  <2>. QED  BY <2>1, FrameKeepsLink
<1>5. CASE state = PS_MODEL_PUBLICATION_SET /\ state' = STATE_NEW
  <2>1. /\ NoLinkEvent' <=> NoLinkEvent
        /\ NoLinkCommand' <=> NoLinkCommand
        /\ Closing' <=> Closing
    BY <1>1, <1>3 DEF NoLinkEvent, NoLinkCommand, Closing
  <2>2. /\ ~Closing /\ NoLinkEvent /\ ~Has(toDongle, "PROV_PROVISION")
        /\ link.phase \notin {"invited", "oob", "secret", "complete"}
    BY <1>2, <1>5
    DEF LinkInv, ClosedInTurn, ProvisionInTurn, LinkInTurn, LinkAt, CompleteInTurn,
        EventsInTurn, Awaits, NoLinkEvent, LinkEvents
  <2>. QED
    BY <1>1, <1>2, <1>3, <1>5, <2>1, <2>2
    DEF LinkInv, EventsInTurn, Awaits, ClosedInTurn, ProvisionInTurn, LinkInTurn,
        LinkAt, CompleteInTurn, NoLinkInTurn, LateInTurn, NoLinkEvent, LinkEvents,
        NoLinkCommand, LinkCommands
<1>. QED  BY <1>4, <1>5 DEF PublicationStatus

(* The opcodes that a rung writes.                                             *)
LEMMA RungOpcodes ==
  ASSUME NEW k \in Rungs, NEW ev
  PROVE  \A op : Has(RungCommands(k, ev), op) <=>
           \/ k = PROVISION /\ op = "PROV_PROVISION"
           \/ k = OOBUSE /\ op = "PROV_OOB_USE"
           \/ k = ECDH /\ op = "PROV_ECDH_SECRET"
           \/ k = AUTH /\ op = "PROV_AUTH_DATA"
           \/ k = DEVKEY_ADDRPUBADD /\ op \in {"DEVKEY_ADD", "ADDR_PUBLICATION_ADD"}
           \/ k >= PS_COMPOSDATA /\ op = "PACKET_SEND"
<1>1. /\ \A dev, addr : Provision(dev, addr).op = "PROV_PROVISION"
      /\ \A op : Cmd(op).op = op
      /\ \A owner, net, dev : DevkeyAdd(owner, net, dev).op = "DEVKEY_ADD"
      /\ \A addr : AddrPublicationAdd(addr).op = "ADDR_PUBLICATION_ADD"
      /\ \A msg : ConfigPacket(msg).op = "PACKET_SEND" /\ ModelPacket(msg).op = "PACKET_SEND"
  BY DEF Provision, Cmd, DevkeyAdd, AddrPublicationAdd, ConfigPacket, ModelPacket,
     PacketSend
<1>2. \A a, op : Has(<<a>>, op) <=> a.op = op
  BY ShortHas
<1>3. CASE k = DEVKEY_ADDRPUBADD
  <2>1. PICK a, b : /\ RungCommands(k, ev) = <<a, b>>
                    /\ a.op = "DEVKEY_ADD" /\ b.op = "ADDR_PUBLICATION_ADD"
    BY <1>1, <1>3 DEF RungCommands
  <2>2. \A op : Has(<<a, b>>, op) <=> a.op = op \/ b.op = op
    BY ShortHas
  <2>. HIDE DEF Has
  <2>3. \A op : Has(RungCommands(k, ev), op) <=> op \in {"DEVKEY_ADD", "ADDR_PUBLICATION_ADD"}
    BY <2>1, <2>2
  <2>. QED  BY <1>3, <2>3
<1>4. CASE k # DEVKEY_ADDRPUBADD
  <2>1. PICK a : /\ RungCommands(k, ev) = <<a>>
                 /\ \/ k = PROVISION /\ a.op = "PROV_PROVISION"
                    \/ k = OOBUSE /\ a.op = "PROV_OOB_USE"
                    \/ k = ECDH /\ a.op = "PROV_ECDH_SECRET"
                    \/ k = AUTH /\ a.op = "PROV_AUTH_DATA"
                    \/ k >= PS_COMPOSDATA /\ a.op = "PACKET_SEND"
    BY <1>1, <1>4 DEF RungCommands, Rungs
  <2>. QED  BY <1>2, <1>4, <2>1
<1>. QED  BY <1>3, <1>4

(* A rung writes one command, except for the two that add the handles.         *)
LEMMA RungOrdered ==
  ASSUME NEW k \in Rungs, NEW ev
  PROVE  /\ Ordered(RungCommands(k, ev), LinkCommands \cup AfterLink, {"PROV_PROVISION"})
         /\ Ordered(RungCommands(k, ev), LinkCommands, LinkCommands)
<1>1. CASE k = DEVKEY_ADDRPUBADD
  <2>1. RungCommands(k, ev) = <<DevkeyAdd(dev_addr, subnet_handle, ev.dev),
                                AddrPublicationAdd(dev_addr)>>
    BY <1>1, RungWrites
  <2>2. AddrPublicationAdd(dev_addr).op = "ADDR_PUBLICATION_ADD"
        /\ DevkeyAdd(dev_addr, subnet_handle, ev.dev).op = "DEVKEY_ADD"
    BY DEF AddrPublicationAdd, DevkeyAdd
  <2>3. "DEVKEY_ADD" # "PROV_PROVISION" /\ "ADDR_PUBLICATION_ADD" \notin LinkCommands
    BY DEF LinkCommands
  <2>. QED  BY <2>1, <2>2, <2>3, ShortOrdered
<1>2. CASE k # DEVKEY_ADDRPUBADD
  <2>1. PICK a : RungCommands(k, ev) = <<a>>
    BY <1>2, RungWrites
  <2>. QED  BY <2>1, ShortOrdered
<1>. QED  BY <1>1, <1>2

(* The body of a handler writes the command of its rung.                       *)
LEMMA BodyKeepsLink ==
  ASSUME GTypeOK, LinkInv, StateKept, StateKept', UNCHANGED <<link, sound>>, Body
  PROVE  LinkInv'
<1>. DEFINE k == job.rung
            s == RungCommands(k, job.ev)
<1>1. /\ k \in Rungs /\ s \in Seq(Commands) /\ Write(s) /\ job.ev \in Events
      /\ rpc = "body" /\ rpc' = "set" /\ state = k - 1 /\ UNCHANGED <<state, toHost, cli>>
      /\ Reached = k - 1 /\ Reached' = k
  <2>1. k \in Rungs /\ job.ev \in Events
    BY DEF GTypeOK, TypeOK, Body
  <2>2. s \in Seq(Commands)
    BY <2>1, RungCommandsType DEF GTypeOK
  <2>. QED  BY <2>1, <2>2 DEF Body, StateKept, Reached
<1>2. /\ \A op : Has(toDongle', op) <=> Has(toDongle, op) \/ Has(s, op)
      /\ (\A op \in {"PROV_PROVISION"} : ~Has(toDongle, op)) => DongleOrder'
      /\ NoLinkCommand => Ordered(toDongle', LinkCommands, LinkCommands)
  <2>1. \A early, late : Ordered(toDongle, early, late) /\ Ordered(s, early, late)
              /\ ((\A op \in late : ~Has(toDongle, op)) \/ (\A op \in early : ~Has(s, op)))
              => Ordered(toDongle', early, late)
    BY <1>1, CommandsWritten DEF GTypeOK, TypeOK
  <2>2. Ordered(s, LinkCommands \cup AfterLink, {"PROV_PROVISION"})
        /\ Ordered(s, LinkCommands, LinkCommands)
    BY <1>1, RungOrdered
  <2>3. NoLinkCommand => Ordered(toDongle, LinkCommands, LinkCommands)
    BY DEF NoLinkCommand, Ordered, Has, Range
  <2>4. \A op : Has(toDongle', op) <=> Has(toDongle, op) \/ Has(s, op)
    BY <1>1, CommandsWritten DEF GTypeOK, TypeOK
  <2>5. (\A op \in {"PROV_PROVISION"} : ~Has(toDongle, op)) => DongleOrder'
    BY <2>1, <2>2 DEF DongleOrder, LinkInv
  <2>6. NoLinkCommand => Ordered(toDongle', LinkCommands, LinkCommands)
    BY <2>1, <2>2, <2>3 DEF NoLinkCommand
  <2>. QED  BY <2>4, <2>5, <2>6
<1>3. \A op : Has(s, op) <=>
           \/ k = PROVISION /\ op = "PROV_PROVISION"
           \/ k = OOBUSE /\ op = "PROV_OOB_USE"
           \/ k = ECDH /\ op = "PROV_ECDH_SECRET"
           \/ k = AUTH /\ op = "PROV_AUTH_DATA"
           \/ k = DEVKEY_ADDRPUBADD /\ op \in {"DEVKEY_ADD", "ADDR_PUBLICATION_ADD"}
           \/ k >= PS_COMPOSDATA /\ op = "PACKET_SEND"
  BY <1>1, RungOpcodes
<1>. HIDE DEF s
<1>4. /\ NoLinkEvent' <=> NoLinkEvent
      /\ Closing' <=> Closing
      /\ HostOrder'
  BY <1>1 DEF NoLinkEvent, Closing, LinkInv, HostOrder
<1>5. NoLinkEvent /\ ~Has(toDongle, "PROV_PROVISION") /\ DongleOrder'
  <2>1. NoLinkEvent /\ ~Has(toDongle, "PROV_PROVISION")
    BY <1>1
    DEF LinkInv, EventsInTurn, Awaits, ProvisionInTurn, NoLinkEvent, LinkEvents, Waiting
  <2>. QED  BY <1>2, <2>1
<1>6. \A op \in LinkEvents : ~Has(toHost', op)
  BY <1>4, <1>5 DEF NoLinkEvent
<1>7. CASE k = PROVISION
  <2>1. link.phase = "none" /\ ~Closing
    BY <1>1, <1>7
    DEF LinkInv, ClosedInTurn, LinkInTurn, LinkAt, CompleteInTurn, GTypeOK, WorldTypeOK,
        LinkPhases
  <2>. QED
    BY <1>1, <1>2, <1>3, <1>4, <1>5, <1>6, <1>7, <2>1
    DEF LinkInv, EventsInTurn, Awaits, ClosedInTurn, ProvisionInTurn, LinkInTurn,
        LinkAt, CompleteInTurn, NoLinkInTurn, LateInTurn, LinkEvents, Waiting
<1>8. CASE k \in OOBUSE .. AUTH
  BY <1>1, <1>2, <1>3, <1>4, <1>5, <1>6, <1>8
  DEF LinkInv, EventsInTurn, Awaits, ClosedInTurn, ProvisionInTurn, LinkInTurn,
      LinkAt, CompleteInTurn, NoLinkInTurn, LateInTurn, LinkEvents, Waiting,
      NoLinkCommand, LinkCommands, AfterLink
<1>9. CASE k = DEVKEY_ADDRPUBADD
  BY <1>1, <1>2, <1>3, <1>4, <1>5, <1>6, <1>9
  DEF LinkInv, EventsInTurn, Awaits, ClosedInTurn, ProvisionInTurn, LinkInTurn,
      LinkAt, CompleteInTurn, NoLinkInTurn, LateInTurn, LinkEvents, Waiting,
      NoLinkCommand, LinkCommands, AfterLink
<1>10. CASE k >= PS_COMPOSDATA
  BY <1>1, <1>2, <1>3, <1>4, <1>5, <1>6, <1>10
  DEF LinkInv, EventsInTurn, Awaits, ClosedInTurn, ProvisionInTurn, LinkInTurn,
      LinkAt, CompleteInTurn, NoLinkInTurn, LateInTurn, LinkEvents, Waiting,
      NoLinkCommand, LinkCommands, AfterLink
<1>. QED  BY <1>1, <1>7, <1>8, <1>9, <1>10 DEF Rungs

(* The handlers of the configuration phase and of the responses are elsewhere. *)
LEMMA OthersAreOther ==
  ASSUME GTypeOK, UNCHANGED <<link, sound>>,
         \/ CompositionDataStatus \/ TxComplete \/ AppkeyStatus \/ ModelAppStatus
         \/ HandleResponse \/ SubnetResponse \/ LocalUnicastResponse
         \/ DeviceStarted \/ PrintOnly
  PROVE  \E ops : Other(ops)
<1>. USE DEF GTypeOK
<1>. DEFINE written == \E s \in Seq(Commands) :
                  Write(s) /\ \A op \in LinkCommands \cup AfterLink : ~Has(s, op)
<1>0. UNCHANGED toDongle \/ Write(<<>>) => written
  <2>1. UNCHANGED toDongle => Write(<<>>)
    BY DEF Write, TypeOK
  <2>2. <<>> \in Seq(Commands) /\ \A op : ~Has(<<>>, op)
    BY ShortHas
  <2>. QED  BY <2>1, <2>2
<1>. HIDE DEF written
<1>1. ASSUME NEW op, NEW k, Handle(op, k), k \in PS_APPKEY_ADD .. PS_MODEL_PUBLICATION_SET,
             op \notin LinkEvents \cup {"LINK_CLOSED"}
      PROVE  \E ops : Other(ops)
  <2>1. Receive({op}) /\ UNCHANGED <<state, toDongle, cli>>
        /\ (UNCHANGED receiver \/ (state >= PS_COMPOSDATA /\ rpc' = "body"))
    BY <1>1 DEF Handle, Begin, Idle
  <2>2. \A o \in {op} : o \notin LinkEvents \cup {"LINK_CLOSED"}
    BY <1>1
  <2>3. Other({op})
    BY <1>0, <2>1, <2>2 DEF Other, written
  <2>. QED  BY <2>3
<1>2. CASE CompositionDataStatus \/ TxComplete \/ AppkeyStatus \/ ModelAppStatus
  <2>1. PICK op \in {"COMPOSITION_DATA_STATUS", "TX_COMPLETE", "APPKEY_STATUS", "MODEL_APP_STATUS"},
             k \in PS_APPKEY_ADD .. PS_MODEL_PUBLICATION_SET : Handle(op, k)
    BY <1>2 DEF CompositionDataStatus, TxComplete, AppkeyStatus, ModelAppStatus
  <2>2. op \notin LinkEvents \cup {"LINK_CLOSED"}
    BY DEF LinkEvents
  <2>. QED  BY <1>1, <2>1, <2>2
<1>3. CASE HandleResponse
  <2>1. Other({"DEVKEY_ADD", "ADDR_PUBLICATION_ADD"})
    BY <1>0, <1>3 DEF Other, HandleResponse, AwaitsHandles, Idle, LinkEvents, cli, written
  <2>. QED  BY <2>1
<1>4. CASE SubnetResponse
  <2>1. Receive({"SUBNET_ADD"}) /\ UNCHANGED <<state, receiver, cli>>
    BY <1>4 DEF SubnetResponse
  <2>2. PICK net \in U16Int : Write(IF Head(toHost).ok
                               THEN <<AppKeyAdd(0, net), AppKeyAdd(1, net)>> ELSE <<>>)
    BY <1>4, ReceiveType DEF SubnetResponse, TypeOK, Events
  <2>3. AppKeyAdd(0, net) \in Commands /\ AppKeyAdd(1, net) \in Commands
        /\ AppKeyAdd(0, net).op = "APPKEY_ADD" /\ AppKeyAdd(1, net).op = "APPKEY_ADD"
    BY DEF AppKeyAdd, Commands
  <2>4. written
    <3>. DEFINE a == AppKeyAdd(0, net)
                b == AppKeyAdd(1, net)
    <3>. HIDE DEF a, b
    <3>1. CASE Write(<<>>)
      BY <1>0, <3>1
    <3>2. CASE Write(<<a, b>>)
      <4>1. \A op \in LinkCommands \cup AfterLink : ~Has(<<a, b>>, op)
        BY <2>3, ShortHas DEF a, b, LinkCommands, AfterLink
      <4>2. <<a, b>> \in Seq(Commands)
        BY <2>3 DEF a, b
      <4>. QED  BY <3>2, <4>1, <4>2 DEF written
    <3>. QED  BY <2>2, <3>1, <3>2 DEF a, b
  <2>5. Other({"SUBNET_ADD"})
    BY <2>1, <2>4 DEF Other, LinkEvents, written
  <2>. QED  BY <2>5
<1>5. CASE LocalUnicastResponse \/ DeviceStarted
  <2>1. PICK got \in {"ADDR_LOCAL_UNICAST_SET", "DEVICE_STARTED"} :
          Receive({got}) /\ UNCHANGED <<state, receiver, cli>>
    BY <1>5 DEF LocalUnicastResponse, DeviceStarted
  <2>2. PICK c \in Commands : /\ c.op \in {"SUBNET_ADD", "ADDR_LOCAL_UNICAST_SET"}
                              /\ Write(<<c>>) \/ Write(<<>>)
    <3>1. Cmd("SUBNET_ADD") \in Commands /\ Cmd("ADDR_LOCAL_UNICAST_SET") \in Commands
          /\ \A op : Cmd(op).op = op
      BY DEF Cmd, Commands, PlainCommands
    <3>. QED  BY <1>5, <3>1 DEF LocalUnicastResponse, DeviceStarted
  <2>3. written
    <3>1. CASE Write(<<>>)
      BY <1>0, <3>1
    <3>2. CASE Write(<<c>>)
      <4>1. \A o \in LinkCommands \cup AfterLink : ~Has(<<c>>, o)
        BY <2>2, ShortHas DEF LinkCommands, AfterLink
      <4>2. <<c>> \in Seq(Commands)
        OBVIOUS
      <4>. QED  BY <3>2, <4>1, <4>2 DEF written
    <3>. QED  BY <2>2, <3>1, <3>2
  <2>4. Other({got})
    BY <2>1, <2>3 DEF Other, LinkEvents, written
  <2>. QED  BY <2>4
<1>6. CASE PrintOnly
  <2>1. Other({"OTHER_RESPONSE", "OTHER_MESSAGE", "OTHER_REPORT"})
    BY <1>0, <1>6 DEF Other, PrintOnly, Idle, LinkEvents, cli, written
  <2>. QED  BY <2>1
<1>. QED  BY <1>2, <1>3, <1>4, <1>5, <1>6

(* Nor does the end of a handler take part in the handshake.                   *)
LEMMA EndKeepsLink ==
  ASSUME TypeOK, LinkInv, StateKept, StateKept', UNCHANGED <<link, sound>>,
         SetState \/ StoreHandle
  PROVE  LinkInv'
<1>1. /\ UNCHANGED <<toHost, toDongle, Reached, cpc>> /\ rpc \in {"set", "store"} /\ rpc' = "idle"
      /\ Reached <= AUTH => rpc = "set"
  BY DEF SetState, StoreHandle, Reached, StateKept, cli
<1>2. LinkFrame
  BY <1>1 DEF LinkFrame, Waiting, Live, LinkInv, HostOrder, DongleOrder
<1>. QED  BY <1>2, FrameKeepsLink

(* Every step of the receiver keeps the handshake in order.                   *)
LEMMA ReceiverKeepsLink ==
  ASSUME GTypeOK, LinkInv, StateKept, StateKept', UNCHANGED <<link, sound>>,
         ReceiverNext
  PROVE  LinkInv'
BY BeaconKeepsLink, HandshakeKeepsLink, CompleteKeepsLink, ClosedKeepsLink,
   PublicationKeepsLink, BodyKeepsLink, OthersAreOther, OtherKeepsLink, EndKeepsLink
DEF ReceiverNext, GTypeOK

-------------------------------------------------------------------------------
(* The rest of the world reports something that is none of the handshake's, or *)
(* nothing at all.                                                             *)
ReportsOther ==
  \/ UNCHANGED toHost
  \/ \E e \in Events : Answer(<<e>>) /\ e.op \notin LinkEvents \cup {"LINK_CLOSED"}

(* Such a report is none of the handshake's.                                  *)
LEMMA OtherReported ==
  ASSUME toHost \in Seq(Events), HostOrder, ReportsOther
  PROVE  /\ HostOrder'
         /\ \A op \in LinkEvents \cup {"LINK_CLOSED"} : Has(toHost', op) <=> Has(toHost, op)
<1>1. CASE UNCHANGED toHost
  BY <1>1 DEF HostOrder
<1>2. ASSUME NEW e \in Events, Answer(<<e>>), e.op \notin LinkEvents \cup {"LINK_CLOSED"}
      PROVE  /\ HostOrder'
             /\ \A op \in LinkEvents \cup {"LINK_CLOSED"} : Has(toHost', op) <=> Has(toHost, op)
  BY <1>2, EventsReported
<1>. QED  BY <1>1, <1>2 DEF ReportsOther

(* A command that is none of the handshake's is taken, or one is lost.         *)
TakesOther ==
  \/ UNCHANGED toDongle
  \/ /\ toDongle # <<>> /\ toDongle' = Tail(toDongle)
     /\ Head(toDongle).op \in LinkCommands => ~sound'

(* Such a step keeps the handshake in order.                                  *)
LEMMA OutsideKeepsLink ==
  ASSUME GTypeOK, LinkInv, StateKept, HostFrame, UNCHANGED link, sound' => sound,
         ReportsOther, TakesOther
  PROVE  LinkInv'
<1>. USE DEF GTypeOK, TypeOK
<1>1. /\ HostOrder'
      /\ \A op \in LinkEvents \cup {"LINK_CLOSED"} : Has(toHost', op) <=> Has(toHost, op)
  BY OtherReported DEF LinkInv
<1>2. /\ \A op : Has(toDongle', op) => Has(toDongle, op)
      /\ sound' => \A op \in LinkCommands : Has(toDongle, op) => Has(toDongle', op)
      /\ DongleOrder'
      /\ Ordered(toDongle, LinkCommands, LinkCommands)
           => Ordered(toDongle', LinkCommands, LinkCommands)
  <2>1. CASE UNCHANGED toDongle
    BY <2>1, NothingToDongle DEF LinkInv
  <2>2. CASE /\ toDongle # <<>> /\ toDongle' = Tail(toDongle)
             /\ Head(toDongle).op \in LinkCommands => ~sound'
    BY <2>2, CommandTaken DEF LinkInv
  <2>. QED  BY <2>1, <2>2 DEF TakesOther
<1>3. /\ UNCHANGED <<state, rpc, job, cpc, Reached>> /\ StateKept' /\ (Live' => Live /\ sound')
      /\ Waiting' <=> Waiting
  BY DEF HostFrame, Reached, Waiting, Live, StateKept, receiver, cli
<1>4. LinkFrame
  BY <1>1, <1>2, <1>3 DEF LinkFrame
<1>. QED  BY <1>3, <1>4, FrameKeepsLink

(* The dongle starts a provisioning, or refuses it.                            *)
LEMMA ProvisionKeepsLink ==
  ASSUME GTypeOK, LinkInv, StateKept, DongleProvision, HostFrame
  PROVE  LinkInv'
<1>. USE DEF GTypeOK, TypeOK
<1>1. /\ Head(toDongle).op = "PROV_PROVISION" /\ Has(toDongle, "PROV_PROVISION")
      /\ DongleOrder' /\ \A op \in LinkCommands \cup AfterLink : ~Has(toDongle', op)
  BY CommandTaken DEF DongleProvision, Command, LinkInv
<1>2. Reached = PROVISION /\ Waiting /\ link.phase = "none" /\ NoLinkEvent /\ ~Closing
  BY <1>1 DEF LinkInv, ProvisionInTurn, ClosedInTurn
<1>3. /\ UNCHANGED <<state, rpc, job>> /\ Reached' = PROVISION /\ Waiting'
  BY <1>2 DEF HostFrame, Reached, Waiting, receiver
<1>4. NoLinkCommand' /\ ~Has(toDongle', "PROV_PROVISION") /\ \A op \in AfterLink : ~Has(toDongle', op)
  BY <1>1 DEF NoLinkCommand, LinkCommands
<1>5. CASE link'.phase = "invited" /\ Answer(<<Report("CAPS_RECEIVED")>>)
  <2>1. Report("CAPS_RECEIVED") \in Events /\ Report("CAPS_RECEIVED").op = "CAPS_RECEIVED"
    BY ReportsAreEvents DEF Reports, Report, Event
  <2>2. HostOrder' /\ \A op : Has(toHost', op) <=> Has(toHost, op) \/ op = "CAPS_RECEIVED"
    BY <1>2, <1>5, <2>1, EventsReported DEF LinkInv
  <2>3. ~Closing'
    BY <1>2, <2>2 DEF Closing
  <2>4. \A op \in LinkEvents : Has(toHost', op) <=> op = "CAPS_RECEIVED"
    BY <1>2, <2>2 DEF NoLinkEvent, LinkEvents
  <2>. QED
    BY <1>1, <1>3, <1>4, <1>5, <2>2, <2>3, <2>4
    DEF LinkInv, EventsInTurn, Awaits, ClosedInTurn, ProvisionInTurn, LinkInTurn,
        LinkAt, CompleteInTurn, NoLinkInTurn, LateInTurn, LinkEvents, StateKept, Reached, Waiting
<1>6. CASE UNCHANGED link /\ Answer(<<Report("LINK_CLOSED")>>)
  <2>1. Report("LINK_CLOSED") \in Events /\ Report("LINK_CLOSED").op = "LINK_CLOSED"
    BY ReportsAreEvents DEF Reports, Report, Event
  <2>2. HostOrder' /\ \A op : Has(toHost', op) <=> Has(toHost, op) \/ op = "LINK_CLOSED"
    BY <1>2, <1>6, <2>1, EventsReported DEF LinkInv
  <2>3. Closing' /\ NoLinkEvent'
    BY <1>2, <2>2 DEF Closing, NoLinkEvent, LinkEvents
  <2>. QED
    BY <1>1, <1>2, <1>3, <1>4, <1>6, <2>2, <2>3
    DEF LinkInv, EventsInTurn, Awaits, ClosedInTurn, ProvisionInTurn, LinkInTurn,
        LinkAt, CompleteInTurn, NoLinkInTurn, LateInTurn, LinkEvents, NoLinkEvent,
        StateKept, Reached, Waiting
<1>. QED  BY <1>2, <1>5, <1>6 DEF DongleProvision

(* The dongle takes the next command of the handshake in the phase it is meant *)
(* for, or in none, where it refuses it.                                       *)
LEMMA LinkStepKeepsLink ==
  ASSUME GTypeOK, LinkInv, StateKept, HostFrame, NEW e \in Events,
         NEW op, NEW from, NEW to, NEW k, LinkStep(op, from, to, e),
         \/ op = "PROV_OOB_USE" /\ from = "invited" /\ to = "oob"
              /\ k = OOBUSE /\ e.op = "ECDH_REQUEST"
         \/ op = "PROV_ECDH_SECRET" /\ from = "oob" /\ to = "secret"
              /\ k = ECDH /\ e.op = "AUTH_REQUEST"
         \/ op = "PROV_AUTH_DATA" /\ from = "secret" /\ to = "complete"
              /\ k = AUTH /\ e.op = "COMPLETE"
  PROVE  LinkInv'
<1>. USE DEF GTypeOK, TypeOK
<1>1. /\ Head(toDongle).op = op /\ op \in LinkCommands /\ op # "PROV_PROVISION"
      /\ \A o : Has(toDongle, o) <=> o = op \/ Has(toDongle', o)
      /\ DongleOrder'
      /\ Ordered(toDongle, LinkCommands, LinkCommands)
           => Ordered(toDongle', LinkCommands, LinkCommands) /\ NoLinkCommand'
  BY CommandTaken DEF LinkStep, Command, LinkInv, LinkCommands
<1>2. UNCHANGED <<state, rpc, job, Reached>> /\ (Waiting' <=> Waiting) /\ (Live' => Live)
  BY DEF HostFrame, Reached, Waiting, Live, receiver, cli, LinkStep, luck
<1>3. ~NoLinkCommand
  BY <1>1 DEF NoLinkCommand
<1>4. CASE link.phase = from /\ link' = [link EXCEPT !.phase = to] /\ Answer(<<e>>)
  <2>1. link'.phase = to
    BY <1>4 DEF WorldTypeOK
  <2>2. /\ Reached = k /\ Waiting /\ NoLinkEvent /\ ~Closing
        /\ Ordered(toDongle, LinkCommands, LinkCommands)
        /\ \A o \in AfterLink : ~Has(toDongle, o)
    BY <1>3, <1>4 DEF LinkInv, LinkInTurn, LinkAt, ClosedInTurn
  <2>3. /\ HostOrder' /\ \A o : Has(toHost', o) <=> Has(toHost, o) \/ o = e.op
    BY <1>4, <2>2, EventsReported DEF LinkInv
  <2>4. ~Closing' /\ \A o \in LinkEvents : Has(toHost', o) <=> o = e.op
    BY <2>2, <2>3 DEF Closing, NoLinkEvent, LinkEvents
  <2>5. NoLinkCommand' /\ ~Has(toDongle', "PROV_PROVISION") /\ \A o \in AfterLink : ~Has(toDongle', o)
    BY <1>1, <2>2 DEF NoLinkCommand, LinkCommands
  <2>. QED
    BY <1>1, <1>2, <2>1, <2>2, <2>3, <2>4, <2>5
    DEF LinkInv, EventsInTurn, Awaits, ClosedInTurn, ProvisionInTurn, LinkInTurn,
        LinkAt, CompleteInTurn, NoLinkInTurn, LateInTurn, LinkEvents, StateKept, Reached, Waiting
<1>5. CASE link.phase # from /\ UNCHANGED <<link, toHost>>
  <2>1. link.phase = "none"
    BY <1>1, <1>3, <1>5
    DEF LinkInv, LinkInTurn, LinkAt, CompleteInTurn, WorldTypeOK, LinkPhases
  <2>2. /\ NoLinkEvent' <=> NoLinkEvent
        /\ Closing' <=> Closing
        /\ HostOrder'
        /\ NoLinkCommand => NoLinkCommand'
    BY <1>1, <1>5 DEF NoLinkEvent, Closing, LinkInv, HostOrder, NoLinkCommand
  <2>. QED
    BY <1>1, <1>2, <1>5, <2>1, <2>2
    DEF LinkInv, EventsInTurn, Awaits, ClosedInTurn, ProvisionInTurn, LinkInTurn,
        LinkAt, CompleteInTurn, NoLinkInTurn, LateInTurn, LinkEvents
<1>. QED  BY <1>4, <1>5 DEF LinkStep

(* No fault makes a session sound again.                                       *)
LEMMA FaultStays ==
  UNCHANGED luck \/ (\E kind : Fault(kind)) => (sound' => sound)
<1>1. UNCHANGED luck => (sound' => sound)
  BY DEF luck
<1>2. ASSUME NEW kind, Fault(kind) PROVE sound' => sound
  BY <1>2, Zenon DEF Fault
<1>. QED  BY <1>1, <1>2

(* The link closes or breaks, and the dongle says so.                          *)
LEMMA LinkClosedKeepsLink ==
  ASSUME GTypeOK, LinkInv, StateKept, LinkClosed
  PROVE  LinkInv'
<1>. USE DEF GTypeOK, TypeOK
<1>1. /\ link.phase \in {"invited", "oob", "secret", "complete"}
      /\ link'.phase = "none" /\ Answer(<<Report("LINK_CLOSED")>>)
      /\ HostFrame /\ UNCHANGED toDongle /\ (sound' => sound)
  <2>1. UNCHANGED luck \/ (\E kind : Fault(kind)) => (sound' => sound)
    BY FaultStays
  <2>. QED  BY <2>1 DEF LinkClosed, NoLink
<1>2. UNCHANGED <<state, rpc, job, Reached>> /\ (Waiting' <=> Waiting) /\ (Live' => Live)
  BY <1>1 DEF HostFrame, Reached, Waiting, Live, receiver, cli
<1>3. /\ ~Has(toDongle, "PROV_PROVISION") /\ ~Closing
      /\ Reached \in PROVISION .. DEVKEY_ADDRPUBADD
      /\ ~(rpc = "body" /\ state = DEVKEY_ADDRPUBADD)
  <2>1. ~Has(toDongle, "PROV_PROVISION") /\ ~Closing
    BY <1>1 DEF LinkInv, ProvisionInTurn, ClosedInTurn
  <2>2. CASE link.phase = "complete"
    BY <2>1, <2>2 DEF LinkInv, CompleteInTurn, Reached, Waiting
  <2>3. CASE link.phase \in {"invited", "oob", "secret"}
    BY <2>1, <2>3 DEF LinkInv, LinkInTurn, LinkAt, Reached, Waiting
  <2>. QED  BY <1>1, <2>1, <2>2, <2>3
<1>4. Report("LINK_CLOSED") \in Events /\ Report("LINK_CLOSED").op = "LINK_CLOSED"
  BY ReportsAreEvents DEF Reports, Report, Event
<1>5. HostOrder' /\ \A op : Has(toHost', op) <=> Has(toHost, op) \/ op = "LINK_CLOSED"
  <2>1. "LINK_CLOSED" \notin LinkEvents
    BY DEF LinkEvents
  <2>. QED  BY <1>1, <1>3, <1>4, <2>1, EventsReported DEF LinkInv
<1>6. /\ Closing' /\ (NoLinkEvent' <=> NoLinkEvent) /\ (NoLinkCommand' <=> NoLinkCommand)
      /\ DongleOrder'
  BY <1>1, <1>5 DEF Closing, NoLinkEvent, LinkEvents, NoLinkCommand, LinkInv, DongleOrder
<1>. QED
  BY <1>1, <1>2, <1>3, <1>5, <1>6
  DEF LinkInv, EventsInTurn, Awaits, ClosedInTurn, ProvisionInTurn, LinkInTurn,
      LinkAt, CompleteInTurn, NoLinkInTurn, LateInTurn, LinkEvents

(* With nothing on its way and no link, a session is over or has not begun,    *)
(* and the user's commands and the reset of the state start from nothing.      *)
LEMMA NothingOnItsWay ==
  /\ toHost = <<>> => HostOrder /\ \A op : ~Has(toHost, op)
  /\ toDongle = <<>> => DongleOrder /\ \A op : ~Has(toDongle, op)
  /\ \A c : toDongle = <<c>> => DongleOrder /\ \A op : Has(toDongle, op) <=> op = c.op
<1>1. toHost = <<>> => HostOrder /\ \A op : ~Has(toHost, op)
  BY ShortHas, ShortOrdered DEF HostOrder
<1>2. toDongle = <<>> => DongleOrder /\ \A op : ~Has(toDongle, op)
  BY ShortHas, ShortOrdered DEF DongleOrder
<1>3. ASSUME NEW c, toDongle = <<c>>
      PROVE  DongleOrder /\ \A op : Has(toDongle, op) <=> op = c.op
  <2>1. DongleOrder
    BY <1>3, ShortOrdered DEF DongleOrder
  <2>2. \A op : Has(<<c>>, op) <=> c.op = op
    BY ShortHas
  <2>. QED  BY <1>3, <2>1, <2>2
<1>. QED  BY <1>1, <1>2, <1>3

AtRest ==
  /\ rpc = "idle" /\ toHost = <<>> /\ link.phase = "none" /\ DongleOrder
  /\ \A op \in LinkCommands : ~Has(toDongle, op)
  /\ state = STATE_NEW \/ state >= PS_COMPOSDATA \/ (state = PROVISION /\ ~Live)

(* When nothing is going on the handshake is in order.                        *)
LEMMA IdleLink == AtRest => LinkInv
<1>1. /\ AtRest => HostOrder /\ NoLinkEvent /\ NoLinkCommand /\ ~Closing
      /\ AtRest => ~Has(toDongle, "PROV_PROVISION") /\ \A op : ~Has(toHost, op)
  BY NothingOnItsWay DEF AtRest, NoLinkEvent, NoLinkCommand, Closing, LinkCommands
<1>. QED
  BY <1>1
  DEF AtRest, LinkInv, EventsInTurn, Awaits, ClosedInTurn, ProvisionInTurn, LinkInTurn,
      LinkAt, CompleteInTurn, NoLinkInTurn, LateInTurn, Reached, Waiting

(* What the main thread writes.                                                *)
LEMMA MainWrites ==
  ASSUME TypeOK, PressKey \/ CliContinue
  PROVE  /\ UNCHANGED <<handles, element_address, dev_addr, receiver, toHost, done>>
         /\ UNCHANGED state \/ (cpc = "new" /\ state' = STATE_NEW /\ cpc' = "getchar")
         /\ \/ UNCHANGED toDongle
            \/ \E c \in Commands :
                 /\ Write(<<c>>)
                 /\ \/ c.op = "DFU_JUMP_TO_BOOTLOADER" /\ cpc = "getchar" /\ cpc' = "new"
                    \/ c.op = "PROV_SCAN_STOP" /\ cpc = "getchar" /\ cpc' = "getchar"
                    \/ c = packet /\ c.op = "PACKET_SEND" /\ cpc = "write" /\ cpc' = "getchar"
<1>1. \A op \in PlainCommands : Cmd(op) \in Commands /\ Cmd(op).op = op
  BY DEF Cmd, Commands
<1>2. packet \in Commands /\ packet.op = "PACKET_SEND"
  BY DEF TypeOK, Commands, Packets
<1>. QED
  BY <1>1, <1>2
  DEF PressKey, CliContinue, PressScanStart, PressScanStop, PressOnOff,
      PressComposition, PressNodeReset, PressPacket, ResetState, FillDestination,
      WritePacket, CliFrame, Press, PlainCommands, cli

-------------------------------------------------------------------------------
(* The control of the two threads.                                             *)
LEMMA StartedHas ==
  /\ Started <=> ~Has(toDongle, "DEVICE_RADIO_RESET")
  /\ Started' <=> ~Has(toDongle', "DEVICE_RADIO_RESET")
BY DEF Started, Has, Range

(* A command that is no reset.                                                 *)
LEMMA OneCommandStarts ==
  ASSUME TypeOK, Started, NEW c \in Commands, Write(<<c>>), c.op # "DEVICE_RADIO_RESET"
  PROVE  Started'
<1>1. <<c>> \in Seq(Commands) /\ ~Has(<<c>>, "DEVICE_RADIO_RESET")
  BY ShortHas
<1>. QED  BY <1>1, CommandsWritten, StartedHas DEF TypeOK

(* The receiver changes the state only at the end of a handler.                *)
LEMMA ReceiverStateKept ==
  ASSUME TypeOK, StateKept, LinkInv, ReceiverNext PROVE StateKept'
<1>. USE DEF TypeOK, StateKept
<1>1. ASSUME NEW op, NEW k \in Int, Handle(op, k) PROVE StateKept'
  BY <1>1 DEF Handle, Begin, Idle, Receive, receiver
<1>2. CASE \/ ProvUnprovisionedReceived \/ ProvCapsReceived \/ ProvEcdhRequest
           \/ ProvAuthRequest \/ CompositionDataStatus \/ TxComplete \/ AppkeyStatus
           \/ ModelAppStatus
  BY <1>1, <1>2
  DEF ProvUnprovisionedReceived, ProvCapsReceived, ProvEcdhRequest, ProvAuthRequest,
      CompositionDataStatus, TxComplete, AppkeyStatus, ModelAppStatus
<1>3. CASE ProvCompleteCheck \/ Body \/ SetState \/ StoreHandle
  BY <1>3 DEF ProvCompleteCheck, Body, SetState, StoreHandle
<1>4. CASE ProvComplete
  <2>1. Has(toHost, "COMPLETE")
    BY <1>4, EventTaken DEF ProvComplete, Receive
  <2>2. state = AUTH
    BY <1>4, <2>1 DEF LinkInv, EventsInTurn, Awaits, Reached, ProvComplete, Receive
  <2>. QED  BY <1>4, <2>2 DEF ProvComplete
<1>5. CASE ProvLinkClosed
  BY <1>5 DEF ProvLinkClosed, Begin, Receive, receiver
<1>6. CASE PublicationStatus \/ SubnetResponse \/ LocalUnicastResponse \/ DeviceStarted
  BY <1>6 DEF PublicationStatus, SubnetResponse, LocalUnicastResponse, DeviceStarted,
     Receive, receiver
<1>7. CASE HandleResponse \/ PrintOnly
  BY <1>7 DEF HandleResponse, PrintOnly, AwaitsHandles, Idle, Receive, receiver
<1>. QED  BY <1>2, <1>3, <1>4, <1>5, <1>6, <1>7 DEF ReceiverNext

(* The receiver does nothing while a key is being handled, keeps the state     *)
(* under its handlers, and writes no reset.                                    *)
LEMMA ReceiverProcess ==
  ASSUME GTypeOK, Process, LinkInv, Started, ReceiverNext
  PROVE  Process'
<1>. USE DEF GTypeOK
<1>1. cpc = "getchar" /\ cpc' = "getchar"
  <2>1. rpc # "idle" \/ toHost # <<>>
    BY DEF ReceiverNext, ProvUnprovisionedReceived, ProvCapsReceived, ProvEcdhRequest,
       ProvAuthRequest, ProvComplete, ProvCompleteCheck, ProvLinkClosed,
       CompositionDataStatus, TxComplete, AppkeyStatus, ModelAppStatus, PublicationStatus,
       Body, SetState, HandleResponse, StoreHandle, SubnetResponse, LocalUnicastResponse,
       DeviceStarted, PrintOnly, Handle, Receive
  <2>2. UNCHANGED cpc
    BY DEF ReceiverNext, ProvUnprovisionedReceived, ProvCapsReceived, ProvEcdhRequest,
       ProvAuthRequest, ProvComplete, ProvCompleteCheck, ProvLinkClosed,
       CompositionDataStatus, TxComplete, AppkeyStatus, ModelAppStatus, PublicationStatus,
       Body, SetState, HandleResponse, StoreHandle, SubnetResponse, LocalUnicastResponse,
       DeviceStarted, PrintOnly, Handle, cli
  <2>. QED  BY <2>1, <2>2 DEF Process, KeyAlone
<1>2. StateKept'
  BY ReceiverStateKept DEF Process
<1>3. Started'
  <2>1. CASE UNCHANGED toDongle
    BY <2>1 DEF Started
  <2>2. CASE Body
    <3>. DEFINE s == RungCommands(job.rung, job.ev)
    <3>1. job.rung \in Rungs /\ s \in Seq(Commands) /\ Write(s)
      BY <2>2, RungCommandsType DEF Body, TypeOK
    <3>2. ~Has(s, "DEVICE_RADIO_RESET")
      BY <3>1, RungOpcodes
    <3>. HIDE DEF s
    <3>. QED  BY <3>1, <3>2, CommandsWritten, StartedHas DEF TypeOK
  <2>3. ASSUME NEW s \in Seq(Commands), Write(s), ~Has(s, "DEVICE_RADIO_RESET")
        PROVE  Started'
    BY <2>3, CommandsWritten, StartedHas DEF TypeOK
  <2>4. CASE ProvComplete \/ LocalUnicastResponse \/ DeviceStarted
    <3>1. /\ \A op : Cmd(op).op = op
          /\ \A op \in PlainCommands : Cmd(op) \in Commands
      BY DEF Cmd, Commands
    <3>2. PICK op \in PlainCommands \ {"DEVICE_RADIO_RESET"} :
             Write(<<Cmd(op)>>) \/ Write(<<>>)
      BY <2>4 DEF ProvComplete, LocalUnicastResponse, DeviceStarted, PlainCommands
    <3>3. <<>> \in Seq(Commands) /\ ~Has(<<>>, "DEVICE_RADIO_RESET")
      BY ShortHas
    <3>. QED  BY <2>3, <3>1, <3>2, <3>3, OneCommandStarts
  <2>5. CASE SubnetResponse
    <3>1. PICK net \in U16Int : Write(IF Head(toHost).ok
                               THEN <<AppKeyAdd(0, net), AppKeyAdd(1, net)>> ELSE <<>>)
      BY <2>5, ReceiveType DEF SubnetResponse, TypeOK, Events
    <3>. DEFINE a == AppKeyAdd(0, net)
                b == AppKeyAdd(1, net)
    <3>2. a \in Commands /\ b \in Commands /\ a.op = "APPKEY_ADD" /\ b.op = "APPKEY_ADD"
      BY DEF AppKeyAdd, Commands
    <3>3. Write(<<a, b>>) \/ Write(<<>>)
      BY <3>1
    <3>. HIDE DEF a, b
    <3>4. <<a, b>> \in Seq(Commands) /\ ~Has(<<a, b>>, "DEVICE_RADIO_RESET")
      BY <3>2, ShortHas
    <3>5. <<>> \in Seq(Commands) /\ ~Has(<<>>, "DEVICE_RADIO_RESET")
      BY ShortHas
    <3>. QED  BY <2>3, <3>3, <3>4, <3>5
  <2>. QED
    BY <2>1, <2>2, <2>4, <2>5
    DEF ReceiverNext, ProvUnprovisionedReceived, ProvCapsReceived, ProvEcdhRequest,
       ProvAuthRequest, ProvComplete, ProvCompleteCheck, ProvLinkClosed,
       CompositionDataStatus, TxComplete, AppkeyStatus, ModelAppStatus, PublicationStatus,
       SetState, HandleResponse, StoreHandle, PrintOnly, Handle, Begin, Idle
<1>. QED  BY <1>1, <1>2, <1>3 DEF Process, KeyAlone, Booting

(* The main thread handles one key at a time.                                  *)
LEMMA MainProcess ==
  ASSUME GTypeOK, Process, Started, PressKey \/ CliContinue,
         PressKey => Quiet, UNCHANGED <<link, txs, air, scanning>>
  PROVE  Process'
<1>. USE DEF GTypeOK
<1>1. rpc = "idle" /\ toHost = <<>> /\ link.phase = "none" /\ txs = 0 /\ air = {} /\ ~scanning
      /\ (cpc # "new" => toDongle = <<>>)
  BY DEF Process, KeyAlone, Quiet, NoLink, PressKey, CliContinue, PressScanStart, PressScanStop, PressOnOff,
      PressComposition, PressNodeReset, PressPacket, ResetState, FillDestination,
      WritePacket, Press
<1>2. UNCHANGED <<receiver, toHost>>
  BY MainWrites
<1>3. StateKept' /\ rpc' = "idle" /\ toHost' = <<>>
  BY <1>1, <1>2 DEF StateKept, receiver
<1>4. Started'
  <2>1. CASE UNCHANGED toDongle
    BY <2>1 DEF Started
  <2>2. ASSUME NEW c \in Commands, Write(<<c>>), c.op # "DEVICE_RADIO_RESET"
        PROVE  Started'
    BY <2>2, OneCommandStarts
  <2>. QED  BY <2>1, <2>2, MainWrites
<1>5. cpc' # "getchar" =>
        \/ toDongle' = <<>>
        \/ cpc' = "new" /\ toDongle' = <<Cmd("DFU_JUMP_TO_BOOTLOADER")>>
  <2>1. toDongle = <<>> /\ Write(<<Cmd("DFU_JUMP_TO_BOOTLOADER")>>)
          => toDongle' = <<Cmd("DFU_JUMP_TO_BOOTLOADER")>>
    BY DEF Write
  <2>2. CASE PressScanStart
    BY <1>1, <2>1, <2>2 DEF PressScanStart, Press
  <2>3. CASE PressScanStop \/ ResetState \/ WritePacket
    BY <2>3 DEF PressScanStop, ResetState, WritePacket, Press, cli
  <2>4. CASE PressOnOff \/ PressComposition \/ PressNodeReset \/ FillDestination
    <3>1. UNCHANGED toDongle /\ cpc # "new"
      BY <2>4
      DEF PressOnOff, PressComposition, PressNodeReset, PressPacket, FillDestination, Press
    <3>. QED  BY <1>1, <3>1
  <2>. QED  BY <2>2, <2>3, <2>4 DEF PressKey, CliContinue
<1>. QED  BY <1>1, <1>3, <1>4, <1>5 DEF Process, KeyAlone, Booting

-------------------------------------------------------------------------------
(* The steps of the dongle and of the nodes, but for a reset.                  *)
Outside == \/ DongleCommand /\ ~DongleRadioReset
           \/ DongleTxComplete \/ LinkClosed \/ Beacon \/ NodeAnswers \/ Loss \/ WriteFails

(* What enables them, commands apart.                                          *)
LEMMA OutsideNeeds ==
  /\ DongleTxComplete => txs # 0
  /\ LinkClosed => link.phase # "none"
  /\ Beacon => scanning
  /\ NodeAnswers \/ Loss => air # {}
  /\ WriteFails => toDongle # <<>> /\ Head(toDongle).op # "DEVICE_RADIO_RESET"
<1>1. DongleTxComplete => txs # 0
  BY DEF DongleTxComplete
<1>2. LinkClosed => link.phase # "none"
  BY DEF LinkClosed
<1>3. Beacon => scanning
  BY DEF Beacon
<1>4. NodeAnswers \/ Loss => air # {}
  BY DEF NodeAnswers, Loss
<1>5. WriteFails => toDongle # <<>> /\ Head(toDongle).op # "DEVICE_RADIO_RESET"
  BY DEF WriteFails
<1>. QED  BY <1>1, <1>2, <1>3, <1>4, <1>5

(* They touch the process only through the serial port, take at most one       *)
(* command, and happen only once the program has started.                      *)
LEMMA OutsideFrame ==
  ASSUME GTypeOK, Process, Outside
  PROVE  /\ HostFrame /\ Started /\ Started'
         /\ UNCHANGED toDongle \/ (toDongle # <<>> /\ toDongle' = Tail(toDongle))
<1>1. /\ HostFrame
      /\ UNCHANGED toDongle \/ (toDongle # <<>> /\ toDongle' = Tail(toDongle))
  BY DEF Outside, DongleCommand, DongleScan, DongleProvision, DongleOobUse,
     DongleEcdhSecret, DongleAuthData, DongleLocalUnicastSet, DongleSubnetAdd,
     DongleAppKeyAdd, DongleDevkeyAdd, DongleAddrPublicationAdd, DonglePacketSend,
     LinkStep, Command, DongleTxComplete, LinkClosed, Beacon, NodeAnswers, Loss, WriteFails
<1>2. Started
  <2>1. SUFFICES ASSUME ~Started PROVE FALSE
    OBVIOUS
  <2>2. /\ toDongle # <<>> /\ Head(toDongle).op = "DEVICE_RADIO_RESET"
        /\ link.phase = "none" /\ txs = 0 /\ air = {} /\ ~scanning
    BY <2>1 DEF Process, Booting, Cmd, NoLink
  <2>3. CASE DongleCommand /\ ~DongleRadioReset
    BY <2>2, <2>3
    DEF DongleCommand, DongleScan, DongleProvision, DongleOobUse,
       DongleEcdhSecret, DongleAuthData, DongleLocalUnicastSet, DongleSubnetAdd,
       DongleAppKeyAdd, DongleDevkeyAdd, DongleAddrPublicationAdd, DonglePacketSend,
       LinkStep, Command
  <2>. QED
    BY <2>2, <2>3, OutsideNeeds DEF Outside
<1>3. Started'
  <2>1. ASSUME toDongle # <<>>, toDongle' = Tail(toDongle) PROVE Started'
    BY <1>2, <2>1, CommandTaken, StartedHas DEF GTypeOK, TypeOK
  <2>2. UNCHANGED toDongle => Started'
    BY <1>2 DEF Started
  <2>. QED  BY <1>1, <2>1, <2>2
<1>. QED  BY <1>1, <1>2, <1>3

(* While a key is handled only its own command can get lost.                   *)
LEMMA OutsideProcess ==
  ASSUME GTypeOK, Careful, Process, Outside PROVE Process'
<1>1. HostFrame /\ Started'
  BY OutsideFrame
<1>2. StateKept'
  BY <1>1 DEF Process, StateKept, HostFrame, receiver
<1>3. ASSUME cpc' # "getchar" PROVE KeyAlone'
  <2>1. cpc' = cpc /\ rpc' = rpc /\ cpc # "getchar"
    BY <1>1, <1>3 DEF HostFrame, receiver, cli
  <2>2. /\ rpc = "idle" /\ toHost = <<>> /\ link.phase = "none" /\ txs = 0 /\ air = {} /\ ~scanning
        /\ cpc = "new" \/ toDongle = <<>>
        /\ toDongle = <<>> \/ toDongle = <<Cmd("DFU_JUMP_TO_BOOTLOADER")>>
    BY <2>1 DEF Process, KeyAlone
  <2>3. ~DongleCommand
    <3>1. DongleCommand => toDongle # <<>>
      BY DEF DongleCommand, DongleRadioReset, DongleScan, DongleProvision, DongleOobUse,
         DongleEcdhSecret, DongleAuthData, DongleLocalUnicastSet, DongleSubnetAdd,
         DongleAppKeyAdd, DongleDevkeyAdd, DongleAddrPublicationAdd, DonglePacketSend,
         LinkStep, Command
    <3>. QED  BY <2>2, <3>1 DEF DongleCommand, Careful
  <2>4. WriteFails
    BY <2>2, <2>3, OutsideNeeds DEF Outside
  <2>5. toDongle' = <<>>
    <3>1. toDongle # <<>> /\ toDongle' = Tail(toDongle)
      BY <2>4 DEF WriteFails
    <3>2. \A c : Tail(<<c>>) = <<>>
      OBVIOUS
    <3>. QED  BY <2>2, <3>1, <3>2
  <2>6. UNCHANGED <<toHost, link, txs, air, scanning>>
    BY <2>4 DEF WriteFails, dongle
  <2>. QED  BY <2>1, <2>2, <2>5, <2>6 DEF KeyAlone
<1>. QED  BY <1>1, <1>2, <1>3 DEF Process, KeyAlone, Booting

(* The first reset finds nothing to break off.                                 *)
LEMMA ResetProcess ==
  ASSUME Process, DongleRadioReset, HostFrame
  PROVE  /\ Process' /\ UNCHANGED link /\ toDongle' = <<>>
         /\ toDongle # <<>> /\ Head(toDongle).op = "DEVICE_RADIO_RESET"
<1>1. toDongle # <<>> /\ Head(toDongle).op = "DEVICE_RADIO_RESET" /\ toDongle' = Tail(toDongle)
  BY DEF DongleRadioReset, Command
<1>2. ~Started
  BY <1>1 DEF Started
<1>3. /\ toDongle = <<Cmd("DEVICE_RADIO_RESET")>>
      /\ rpc = "idle" /\ cpc = "getchar" /\ link = NoLink
  BY <1>2 DEF Process, Booting
<1>4. toDongle' = <<>> /\ link' = link /\ rpc' = "idle" /\ cpc' = "getchar"
  BY <1>1, <1>3 DEF DongleRadioReset, Reboot, HostFrame, receiver, cli
<1>5. Started'
  BY <1>4 DEF Started
<1>. QED  BY <1>1, <1>4, <1>5 DEF Process, KeyAlone, Booting, StateKept

(* What the dongle and the nodes report besides the handshake.                 *)
LEMMA ReportTypes ==
  /\ \A op \in Reports : Report(op) \in Events /\ Report(op).op = op
  /\ \A op \in Responses, ok \in BOOLEAN, val \in U16Int :
       CmdRsp(op, ok, val) \in Events /\ CmdRsp(op, ok, val).op = op
  /\ \A op \in EventOps, val \in U16Int, d \in Devices \cup {NoDevice} :
       Event(op, TRUE, val, d) \in Events /\ Event(op, TRUE, val, d).op = op
<1>1. \A op \in Reports : Report(op) \in Events /\ Report(op).op = op
  BY ReportsAreEvents DEF Report, Event
<1>2. ASSUME NEW op \in EventOps, NEW ok \in BOOLEAN, NEW val \in U16Int,
             NEW d \in Devices \cup {NoDevice}
      PROVE  Event(op, ok, val, d) \in Events /\ Event(op, ok, val, d).op = op
  BY DEF Event, Events
<1>3. NoDevice \in Devices \cup {NoDevice} /\ Responses \subseteq EventOps
  BY DEF EventOps
<1>4. ASSUME NEW op \in Responses, NEW ok \in BOOLEAN, NEW val \in U16Int
      PROVE  CmdRsp(op, ok, val) \in Events /\ CmdRsp(op, ok, val).op = op
  BY <1>2, <1>3 DEF CmdRsp
<1>. QED  BY <1>1, <1>2, <1>4

(* Adding a handle is answered with a status and a value.                      *)
LEMMA HandleAnswers ==
  ASSUME GTypeOK, DongleDevkeyAdd \/ DongleAddrPublicationAdd
  PROVE  /\ UNCHANGED luck \/ Fault("reject")
         /\ \E op \in {"DEVKEY_ADD", "ADDR_PUBLICATION_ADD"}, ok \in BOOLEAN, val \in U16Int :
              Command(op) /\ Answer(<<CmdRsp(op, ok, val)>>)
<1>1. CASE DongleDevkeyAdd
  <2>1. Command("DEVKEY_ADD") /\ (UNCHANGED luck \/ Fault("reject"))
    BY <1>1 DEF DongleDevkeyAdd
  <2>2. \/ DevkeyBase + Len(devkeys) \in U16Int
           /\ Answer(<<CmdRsp("DEVKEY_ADD", TRUE, DevkeyBase + Len(devkeys))>>)
        \/ Answer(<<CmdRsp("DEVKEY_ADD", FALSE, 0)>>)
    BY <1>1 DEF DongleDevkeyAdd
  <2>. QED  BY <2>1, <2>2, ZeroInRange
<1>2. CASE DongleAddrPublicationAdd
  <2>1. Command("ADDR_PUBLICATION_ADD") /\ (UNCHANGED luck \/ Fault("reject"))
    BY <1>2 DEF DongleAddrPublicationAdd
  <2>2. \/ Len(addrs) \in U16Int
           /\ Answer(<<CmdRsp("ADDR_PUBLICATION_ADD", TRUE, Len(addrs))>>)
        \/ Answer(<<CmdRsp("ADDR_PUBLICATION_ADD", FALSE, 0)>>)
    <3>1. CASE Len(addrs) \in U16Int
      BY <1>2, <3>1 DEF DongleAddrPublicationAdd
    <3>2. CASE Len(addrs) \notin U16Int
      <4>1. (Len(addrs) \in U16Int) = FALSE
        BY <3>2
      <4>. QED  BY <1>2, <3>2, <4>1, Zenon DEF DongleAddrPublicationAdd
    <3>. QED  BY <3>1, <3>2
  <2>. QED  BY <2>1, <2>2, ZeroInRange
<1>. QED  BY <1>1, <1>2

(* The commands after and besides the handshake leave the link alone.          *)
LEMMA OtherCommands ==
  ASSUME GTypeOK,
         \/ DongleScan \/ DongleLocalUnicastSet \/ DongleSubnetAdd \/ DongleAppKeyAdd
         \/ DongleDevkeyAdd \/ DongleAddrPublicationAdd \/ DonglePacketSend
  PROVE  UNCHANGED link /\ (sound' => sound) /\ ReportsOther /\ TakesOther
<1>1. UNCHANGED link /\ (sound' => sound)
  <2>1. UNCHANGED link /\ (UNCHANGED luck \/ Fault("reject"))
    BY HandleAnswers
    DEF DongleScan, DongleLocalUnicastSet, DongleSubnetAdd, DongleAppKeyAdd,
        DongleDevkeyAdd, DongleAddrPublicationAdd, DonglePacketSend, world, dongle
  <2>. QED  BY <2>1, FaultStays
<1>2. TakesOther
  BY DEF DongleScan, DongleLocalUnicastSet, DongleSubnetAdd, DongleAppKeyAdd,
     DongleDevkeyAdd, DongleAddrPublicationAdd, DonglePacketSend, Command, TakesOther,
     LinkCommands
<1>3. ReportsOther
  <2>1. ASSUME NEW op \in Responses, NEW ok \in BOOLEAN, NEW val \in U16Int,
               Answer(<<CmdRsp(op, ok, val)>>)
        PROVE  ReportsOther
    <3>1. op \notin LinkEvents \cup {"LINK_CLOSED"}
      BY DEF Responses, LinkEvents
    <3>. QED  BY <2>1, <3>1, ReportTypes DEF ReportsOther
  <2>2. CASE DongleScan \/ DongleAppKeyAdd \/ DonglePacketSend
    BY <2>2 DEF DongleScan, DongleAppKeyAdd, DonglePacketSend, ReportsOther
  <2>3. CASE DongleLocalUnicastSet
    BY <2>1, <2>3, ZeroInRange DEF DongleLocalUnicastSet, Responses
  <2>4. CASE DongleSubnetAdd
    <3>1. Answer(<<CmdRsp("SUBNET_ADD", ~subnet, SubnetHandle)>>)
      BY <2>4 DEF DongleSubnetAdd
    <3>2. (~subnet) \in BOOLEAN /\ SubnetHandle \in U16Int /\ "SUBNET_ADD" \in Responses
      BY GatewayAssumption DEF GatewayAssumption, Responses
    <3>. QED  BY <2>1, <3>1, <3>2
  <2>5. CASE DongleDevkeyAdd \/ DongleAddrPublicationAdd
    BY <2>1, <2>5, HandleAnswers DEF Responses
  <2>. QED  BY <2>2, <2>3, <2>4, <2>5
<1>. QED  BY <1>1, <1>2, <1>3

(* So do the reports that come by themselves, the nodes, and a lost command.   *)
LEMMA OtherReports ==
  ASSUME GTypeOK, Process, DongleTxComplete \/ Beacon \/ NodeAnswers \/ Loss \/ WriteFails
  PROVE  UNCHANGED link /\ (sound' => sound) /\ ReportsOther /\ TakesOther
<1>. USE DEF GTypeOK
<1>1. UNCHANGED link /\ (sound' => sound)
  <2>1. UNCHANGED link /\ (UNCHANGED luck \/ \E kind : Fault(kind))
    BY DEF DongleTxComplete, Beacon, NodeAnswers, Loss, WriteFails, world, dongle
  <2>. QED  BY <2>1, FaultStays
<1>2. TakesOther
  <2>1. Fault("write") => ~sound'
    BY Zenon DEF Fault
  <2>. QED
    BY <2>1 DEF DongleTxComplete, Beacon, NodeAnswers, Loss, WriteFails, TakesOther
<1>3. ReportsOther
  <2>1. CASE DongleTxComplete
    <3>1. "TX_COMPLETE" \in Reports /\ "TX_COMPLETE" \notin LinkEvents \cup {"LINK_CLOSED"}
      BY DEF Reports, LinkEvents
    <3>. QED  BY <2>1, <3>1, ReportTypes DEF DongleTxComplete, ReportsOther
  <2>2. CASE Beacon
    <3>1. PICK d \in Devices : Answer(<<Event("UNPROVISIONED_RECEIVED", TRUE, 0, d)>>)
      BY <2>2 DEF Beacon
    <3>2. /\ "UNPROVISIONED_RECEIVED" \in EventOps /\ d \in Devices \cup {NoDevice}
          /\ "UNPROVISIONED_RECEIVED" \notin LinkEvents \cup {"LINK_CLOSED"}
      BY DEF EventOps, Reports, LinkEvents
    <3>. DEFINE e == Event("UNPROVISIONED_RECEIVED", TRUE, 0, d)
    <3>3. e \in Events /\ e.op = "UNPROVISIONED_RECEIVED"
      BY <3>2, ReportTypes, ZeroInRange
    <3>. HIDE DEF e
    <3>4. Answer(<<e>>)
      BY <3>1 DEF e
    <3>. QED  BY <3>2, <3>3, <3>4 DEF ReportsOther
  <2>3. CASE NodeAnswers
    <3>1. PICK m \in air :
             Answer(IF m.dev \in member /\ Understood(m)
                    THEN <<Event(StatusOf(m.msg), TRUE, m.elem, NoDevice)>> ELSE <<>>)
      BY <2>3 DEF NodeAnswers
    <3>2. m.elem \in U16Int
      BY DEF WorldTypeOK
    <3>3. StatusOf(m.msg) \in EventOps /\ StatusOf(m.msg) \notin LinkEvents \cup {"LINK_CLOSED"}
      BY DEF StatusOf, EventOps, Messages, LinkEvents
    <3>4. Answer(<<>>) => UNCHANGED toHost
      BY DEF Answer, TypeOK
    <3>5. Answer(<<Event(StatusOf(m.msg), TRUE, m.elem, NoDevice)>>) => ReportsOther
      <4>. DEFINE e == Event(StatusOf(m.msg), TRUE, m.elem, NoDevice)
      <4>1. e \in Events /\ e.op = StatusOf(m.msg)
        <5>1. NoDevice \in Devices \cup {NoDevice}
          OBVIOUS
        <5>. QED  BY <3>2, <3>3, <5>1, ReportTypes
      <4>. HIDE DEF e
      <4>2. Answer(<<e>>) => ReportsOther
        BY <3>3, <4>1 DEF ReportsOther
      <4>. QED  BY <4>2 DEF e
    <3>. QED  BY <3>1, <3>4, <3>5 DEF ReportsOther
  <2>4. CASE Loss \/ WriteFails
    BY <2>4 DEF Loss, WriteFails, ReportsOther
  <2>. QED  BY <2>1, <2>2, <2>3, <2>4
<1>. QED  BY <1>1, <1>2, <1>3

(* What the dongle and the nodes do keeps the handshake in order.              *)
LEMMA OutsideLink ==
  ASSUME GTypeOK, Process, LinkInv, Outside PROVE LinkInv'
<1>1. HostFrame /\ StateKept
  BY OutsideFrame DEF Process
<1>2. CASE \/ DongleScan \/ DongleLocalUnicastSet \/ DongleSubnetAdd \/ DongleAppKeyAdd
           \/ DongleDevkeyAdd \/ DongleAddrPublicationAdd \/ DonglePacketSend
  BY <1>1, <1>2, OtherCommands, OutsideKeepsLink
<1>3. CASE DongleTxComplete \/ Beacon \/ NodeAnswers \/ Loss \/ WriteFails
  BY <1>1, <1>3, OtherReports, OutsideKeepsLink
<1>4. CASE DongleProvision
  BY <1>1, <1>4, ProvisionKeepsLink
<1>5. CASE LinkClosed
  BY <1>1, <1>5, LinkClosedKeepsLink
<1>6. CASE DongleOobUse \/ DongleEcdhSecret
  <2>1. /\ "ECDH_REQUEST" \in Reports /\ "AUTH_REQUEST" \in Reports
    BY DEF Reports
  <2>2. CASE DongleOobUse
    BY <1>1, <2>1, <2>2, ReportTypes, LinkStepKeepsLink DEF DongleOobUse
  <2>3. CASE DongleEcdhSecret
    BY <1>1, <2>1, <2>3, ReportTypes, LinkStepKeepsLink DEF DongleEcdhSecret
  <2>. QED  BY <1>6, <2>2, <2>3
<1>7. CASE DongleAuthData
  <2>. DEFINE e == Event("COMPLETE", TRUE, link.addr, link.dev)
  <2>1. e \in Events /\ e.op = "COMPLETE"
    <3>1. "COMPLETE" \in EventOps
      BY DEF EventOps, Reports
    <3>2. link.addr \in U16Int /\ link.dev \in Devices \cup {NoDevice}
      BY DEF GTypeOK, WorldTypeOK
    <3>. QED  BY <3>1, <3>2, ReportTypes
  <2>2. LinkStep("PROV_AUTH_DATA", "secret", "complete", e)
    BY <1>7 DEF DongleAuthData
  <2>. HIDE DEF e
  <2>. QED  BY <1>1, <2>1, <2>2, LinkStepKeepsLink
<1>8. \/ DongleScan \/ DongleLocalUnicastSet \/ DongleSubnetAdd \/ DongleAppKeyAdd
      \/ DongleDevkeyAdd \/ DongleAddrPublicationAdd \/ DonglePacketSend
      \/ DongleTxComplete \/ Beacon \/ NodeAnswers \/ Loss \/ WriteFails
      \/ DongleProvision \/ LinkClosed \/ DongleOobUse \/ DongleEcdhSecret \/ DongleAuthData
  BY DEF Outside, DongleCommand
<1>. QED
  BY <1>2, <1>3, <1>4, <1>5, <1>6, <1>7, <1>8

(* What the main thread writes: nothing, or one command of no session.         *)
LEMMA MainOrder ==
  ASSUME TypeOK, PressKey \/ CliContinue, toDongle = <<>> \/ cpc = "new",
         DongleOrder, NoLinkCommand
  PROVE  DongleOrder' /\ \A op \in LinkCommands : ~Has(toDongle', op)
<1>1. CASE UNCHANGED toDongle
  BY <1>1 DEF DongleOrder, NoLinkCommand
<1>2. CASE toDongle = <<>>
  <2>1. ASSUME NEW c \in Commands, Write(<<c>>), c.op \notin LinkCommands
        PROVE  DongleOrder' /\ \A op \in LinkCommands : ~Has(toDongle', op)
    <3>1. toDongle' = <<c>>
      BY <1>2, <2>1 DEF Write
    <3>. QED  BY <2>1, <3>1, ShortHas, ShortOrdered DEF DongleOrder
  <2>2. {"DFU_JUMP_TO_BOOTLOADER", "PROV_SCAN_STOP", "PACKET_SEND"} \cap LinkCommands = {}
    BY DEF LinkCommands
  <2>. QED  BY <1>1, <2>1, <2>2, MainWrites
<1>3. CASE CliContinue /\ cpc = "new"
  BY <1>1, <1>3 DEF CliContinue, ResetState, FillDestination, WritePacket
<1>4. CASE PressKey /\ cpc = "new"
  BY <1>4
  DEF PressKey, PressScanStart, PressScanStop, PressOnOff, PressComposition,
      PressNodeReset, PressPacket, Press
<1>. QED  BY <1>2, <1>3, <1>4

(* A key finds the handshake at rest, and leaves it so.                        *)
LEMMA MainKeepsLink ==
  ASSUME GTypeOK, Process, LinkInv, PressKey \/ CliContinue, PressKey => Quiet,
         UNCHANGED link, cpc' # "new" => (sound' => sound)
  PROVE  LinkInv'
<1>. USE DEF GTypeOK
<1>1. /\ rpc = "idle" /\ toHost = <<>> /\ link.phase = "none"
      /\ toDongle = <<>> \/ (cpc = "new" /\ toDongle = <<Cmd("DFU_JUMP_TO_BOOTLOADER")>>)
  BY DEF Process, KeyAlone, Quiet, NoLink, CliContinue, ResetState, FillDestination,
      WritePacket
<1>2. DongleOrder /\ NoLinkCommand
  <2>1. Cmd("DFU_JUMP_TO_BOOTLOADER").op \notin LinkCommands
    BY DEF Cmd, LinkCommands
  <2>. QED  BY <1>1, <2>1, NothingOnItsWay DEF NoLinkCommand
<1>3. /\ rpc' = "idle" /\ toHost' = <<>> /\ link'.phase = "none"
      /\ UNCHANGED state \/ state' = STATE_NEW
  BY <1>1, MainWrites DEF receiver
<1>4. DongleOrder' /\ \A op \in LinkCommands : ~Has(toDongle', op)
  BY <1>1, <1>2, MainOrder
<1>5. state = STATE_NEW \/ state >= PS_COMPOSDATA \/ (state = PROVISION /\ ~Live)
  <2>1. ~Closing /\ ~Has(toDongle, "PROV_PROVISION")
    BY <1>1, <1>2, NothingOnItsWay DEF Closing, NoLinkCommand, LinkCommands
  <2>. QED
    BY <1>1, <2>1 DEF LinkInv, NoLinkInTurn, Reached
<1>6. cpc = "new" => state' = STATE_NEW
  BY DEF PressKey, PressScanStart, PressScanStop, PressOnOff, PressComposition,
      PressNodeReset, PressPacket, Press, CliContinue, ResetState, FillDestination,
      WritePacket
<1>7. state' = STATE_NEW \/ state' >= PS_COMPOSDATA \/ (state' = PROVISION /\ ~Live')
  BY <1>3, <1>5, <1>6 DEF Live
<1>8. AtRest'
  BY <1>3, <1>4, <1>7 DEF AtRest
<1>9. AtRest' => LinkInv'
  BY IdleLink, PTL
<1>. QED  BY <1>8, <1>9

-------------------------------------------------------------------------------
(* The handshake of a session stays in order.                                  *)
InTurn == GTypeOK /\ Process /\ LinkInv

(* At the start nothing is going on.                                          *)
LEMMA InTurnStart == ASSUME GInit PROVE Process /\ LinkInv
<1>1. /\ rpc = "idle" /\ cpc = "getchar" /\ state = STATE_NEW /\ ~sound
      /\ toHost = <<>> /\ toDongle = <<Cmd("DEVICE_RADIO_RESET")>>
      /\ link = NoLink /\ txs = 0 /\ air = {} /\ member = {} /\ appkeys = {} /\ ~scanning
  BY DEF GInit, Init
<1>2. Process
  BY <1>1 DEF Process, KeyAlone, Booting, StateKept
<1>3. Cmd("DEVICE_RADIO_RESET").op \notin LinkCommands
  BY DEF Cmd, LinkCommands
<1>4. AtRest
  BY <1>1, <1>3, NothingOnItsWay DEF AtRest, NoLink
<1>. QED  BY <1>2, <1>4, IdleLink

(* Every step of the whole system keeps the handshake in order.               *)
LEMMA InTurnStep ==
  ASSUME Careful, InTurn, [GNext]_gVars
  PROVE  Process' /\ LinkInv'
<1>. USE DEF InTurn
<1>1. CASE UNCHANGED gVars
  <2>1. UNCHANGED <<state, handles, receiver, cli, toHost, toDongle>>
        /\ UNCHANGED <<link, scanning, txs, air, member, appkeys, sound>>
    BY <1>1 DEF gVars, hostVars, world, dongle, nodes, luck, install
  <2>2. /\ HostFrame /\ ReportsOther /\ TakesOther /\ UNCHANGED link /\ (sound' => sound)
    BY <1>1, <2>1 DEF HostFrame, ReportsOther, TakesOther, gVars, hostVars
  <2>3. LinkInv'
    BY <2>2, OutsideKeepsLink DEF Process
  <2>4. Process'
    BY <2>1 DEF Process, KeyAlone, Booting, StateKept, Started, receiver, cli
  <2>. QED  BY <2>3, <2>4
<1>2. CASE HostStep /\ ReceiverNext
  <2>1. UNCHANGED <<link, sound>> /\ Started
    BY <1>2 DEF HostStep, world, dongle, luck
  <2>2. Process'
    BY <1>2, <2>1, ReceiverProcess
  <2>. QED  BY <1>2, <2>1, <2>2, ReceiverKeepsLink DEF Process
<1>3. CASE (HostStep /\ CliContinue) \/ User
  <2>1. /\ Started /\ UNCHANGED <<link, txs, air, scanning>>
        /\ PressKey \/ CliContinue
    BY <1>3 DEF HostStep, User, world, dongle
  <2>2. PressKey => Quiet
    <3>1. CliContinue => ~PressKey
      BY DEF PressKey, PressScanStart, PressScanStop, PressOnOff, PressComposition,
      PressNodeReset, PressPacket, Press, CliContinue, ResetState, FillDestination,
      WritePacket
    <3>. QED  BY <1>3, <3>1 DEF User, Careful
  <2>3. cpc' # "new" => (sound' => sound)
    BY <1>3 DEF HostStep, User, world, luck
  <2>. QED  BY <2>1, <2>2, <2>3, MainProcess, MainKeepsLink
<1>4. CASE Outside
  BY <1>4, OutsideProcess, OutsideLink
<1>5. CASE DongleRadioReset /\ DongleCommand
  <2>1. HostFrame /\ (sound' => sound)
    BY <1>5 DEF DongleCommand, DongleRadioReset, luck
  <2>2. /\ Process' /\ UNCHANGED link
        /\ toDongle # <<>> /\ toDongle' = Tail(toDongle)
        /\ Head(toDongle).op = "DEVICE_RADIO_RESET"
    BY <1>5, <2>1, ResetProcess DEF DongleRadioReset, Command
  <2>3. TakesOther
    BY <2>2 DEF TakesOther, LinkCommands
  <2>4. ReportsOther
    <3>1. "DEVICE_STARTED" \in Reports /\ "DEVICE_STARTED" \notin LinkEvents \cup {"LINK_CLOSED"}
      BY DEF Reports, LinkEvents
    <3>. QED  BY <1>5, <3>1, ReportTypes DEF DongleRadioReset, Reboot, ReportsOther
  <2>5. LinkInv'
    BY <2>1, <2>2, <2>3, <2>4, OutsideKeepsLink DEF Process
  <2>. QED  BY <2>2, <2>5
<1>6. CASE DongleRestart \/ Crash
  BY <1>6 DEF DongleRestart, Crash, Fault, Careful
<1>. QED
  BY <1>1, <1>2, <1>3, <1>4, <1>5, <1>6 DEF GNext, Outside, DongleStep, HostStep

(* The handshake is in order in every state of a careful system.              *)
LEMMA AlwaysInTurn == ASSUME Careful PROVE GSpec => []InTurn
<1>1. GSpec => []GTypeOK
  BY GatewayTypeCorrect
<1>2. GInit => Process /\ LinkInv
  BY InTurnStart
<1>3. GTypeOK /\ Process /\ LinkInv /\ [GNext]_gVars => Process' /\ LinkInv'
  BY InTurnStep DEF InTurn
<1>. QED  BY <1>1, <1>2, <1>3, PTL DEF GSpec, InTurn

(* A provisioning link that is open at the dongle is waited for, at every      *)
(* moment of every run of a careful user, whatever links break and whatever    *)
(* else fails.                                                                 *)
THEOREM OpenLinkIsServed == ASSUME Careful PROVE GSpec => []LinkServed
<1>1. ASSUME InTurn PROVE LinkServed
  <2>1. SUFFICES ASSUME sound, cpc # "new", Answered,
                        link.phase \in {"invited", "oob", "secret"}
                 PROVE  FALSE
    BY DEF LinkServed
  <2>2. /\ rpc = "idle" /\ Live /\ \A op : ~Has(toHost, op) /\ ~Has(toDongle, op)
    BY <2>1, NothingOnItsWay DEF Answered, Live
  <2>. QED  BY <1>1, <2>1, <2>2 DEF InTurn, LinkInv, LinkInTurn, LinkAt
<1>. QED  BY <1>1, AlwaysInTurn, PTL

-------------------------------------------------------------------------------
(* The address of the session in progress: from the command that starts it,    *)
(* over the link and the node, to the event that reports it and the device key *)
(* that is added for it.                                                       *)
AddrOfLink == link.phase # "none" => link.addr = dev_addr
GotAddr(d) == d \in Devices /\ nodeAddr[d] = dev_addr
InHand     == rpc = "check" \/ (rpc = "body" /\ state = AUTH)
AddrsOK ==
  /\ AddrOfLink
  /\ \A c \in Range(toDongle) :
       /\ c.op = "PROV_PROVISION" => c.addr = dev_addr
       /\ c.op = "DEVKEY_ADD" => c.dev \in Devices /\ c.owner = nodeAddr[c.dev]
  /\ \A e \in Range(toHost) : e.op = "COMPLETE" => GotAddr(e.dev)
  /\ InHand => GotAddr(job.ev.dev)

(* A step that gives no address and reports none.                              *)
AddrFrame ==
  /\ UNCHANGED <<dev_addr, nodeAddr>>
  /\ link'.phase # "none" => link.phase # "none" /\ link'.addr = link.addr
  /\ \A c \in Range(toDongle') : c \in Range(toDongle)
                                 \/ c.op \notin {"PROV_PROVISION", "DEVKEY_ADD"}
  /\ \A e \in Range(toHost') : e \in Range(toHost) \/ e.op # "COMPLETE"
  /\ InHand' => InHand /\ UNCHANGED job

(* Such a step keeps the addresses in place.                                  *)
LEMMA AddrFrameKeeps == ASSUME AddrsOK, AddrFrame PROVE AddrsOK'
BY DEF AddrsOK, AddrFrame, AddrOfLink, GotAddr

(* How taking, reporting and writing look for AddrFrame.                       *)
LEMMA QuietOutside ==
  ASSUME GTypeOK, ReportsOther, TakesOther
  PROVE  /\ Range(toDongle') \subseteq Range(toDongle)
         /\ \A e \in Range(toHost') :
              e \in Range(toHost) \/ e.op \notin LinkEvents \cup {"LINK_CLOSED"}
<1>. USE DEF GTypeOK, TypeOK
<1>1. UNCHANGED toDongle => Range(toDongle') = Range(toDongle)
  OBVIOUS
<1>2. toDongle # <<>> /\ toDongle' = Tail(toDongle)
        => Range(toDongle) = {Head(toDongle)} \cup Range(toDongle')
  BY CommandTaken
<1>3. Range(toDongle') \subseteq Range(toDongle)
  BY <1>1, <1>2 DEF TakesOther
<1>4. UNCHANGED toHost => Range(toHost') = Range(toHost)
  OBVIOUS
<1>5. ASSUME NEW e \in Events, Answer(<<e>>) PROVE Range(toHost') = Range(toHost) \cup {e}
  BY <1>5, EventsReported
<1>. QED  BY <1>3, <1>4, <1>5 DEF ReportsOther

(* What the receiver takes and writes.                                         *)
LEMMA HandlersKeepAddrs ==
  ASSUME GTypeOK, NEW ops, Other(ops)
  PROVE  /\ Range(toHost') \subseteq Range(toHost)
         /\ \A c \in Range(toDongle') :
              c \in Range(toDongle) \/ c.op \notin LinkCommands \cup AfterLink
<1>. USE DEF GTypeOK, TypeOK
<1>1. Range(toHost') \subseteq Range(toHost)
  BY EventTaken DEF Other, Receive
<1>2. PICK s \in Seq(Commands) :
         Write(s) /\ \A op \in LinkCommands \cup AfterLink : ~Has(s, op)
  BY DEF Other
<1>3. Range(toDongle') = Range(toDongle) \cup Range(s)
  BY <1>2, CommandsWritten
<1>. QED  BY <1>1, <1>2, <1>3 DEF Has

(* The steps of the dongle and the nodes give an address only with a link.     *)
LEMMA OutsideAddrs ==
  ASSUME GTypeOK, InTurn, AddrsOK, Outside PROVE AddrsOK'
<1>. USE DEF GTypeOK
<1>1. HostFrame
  BY OutsideFrame DEF InTurn
<1>2. UNCHANGED <<dev_addr, job, rpc, state>> /\ (InHand' <=> InHand)
  BY <1>1 DEF HostFrame, InHand, receiver
<1>3. ASSUME UNCHANGED <<link, nodeAddr>>, ReportsOther, TakesOther PROVE AddrsOK'
  <2>1. AddrFrame
    BY <1>2, <1>3, QuietOutside DEF AddrFrame, LinkEvents
  <2>. QED  BY <2>1, AddrFrameKeeps
<1>4. CASE \/ DongleScan \/ DongleLocalUnicastSet \/ DongleSubnetAdd \/ DongleAppKeyAdd
           \/ DongleDevkeyAdd \/ DongleAddrPublicationAdd \/ DonglePacketSend
  <2>1. UNCHANGED nodeAddr
    BY <1>4
    DEF DongleScan, DongleLocalUnicastSet, DongleSubnetAdd, DongleAppKeyAdd,
        DongleDevkeyAdd, DongleAddrPublicationAdd, DonglePacketSend, world, nodes
  <2>. QED  BY <1>3, <1>4, <2>1, OtherCommands
<1>5. CASE DongleTxComplete \/ Beacon \/ NodeAnswers \/ Loss \/ WriteFails
  <2>1. UNCHANGED nodeAddr
    BY <1>5
    DEF DongleTxComplete, Beacon, NodeAnswers, Loss, WriteFails, world, nodes
  <2>. QED  BY <1>3, <1>5, <2>1, OtherReports DEF InTurn
<1>6. CASE DongleProvision
  <2>1. Head(toDongle) \in Range(toDongle) /\ Head(toDongle).op = "PROV_PROVISION"
        /\ Range(toDongle') \subseteq Range(toDongle)
    BY <1>6, CommandTaken DEF DongleProvision, Command, TypeOK
  <2>2. Head(toDongle).addr = dev_addr
    BY <2>1 DEF AddrsOK
  <2>3. AddrOfLink'
    BY <1>2, <1>6, <2>2 DEF DongleProvision, AddrOfLink, AddrsOK
  <2>4. \A e \in Range(toHost') : e \in Range(toHost) \/ e.op # "COMPLETE"
    <3>1. \E e \in Events : e.op # "COMPLETE" /\ (UNCHANGED toHost \/ Answer(<<e>>))
      <4>1. Report("CAPS_RECEIVED") \in Events /\ Report("LINK_CLOSED") \in Events
            /\ Report("CAPS_RECEIVED").op # "COMPLETE" /\ Report("LINK_CLOSED").op # "COMPLETE"
        BY ReportTypes DEF Reports
      <4>2. Answer(<<>>) => UNCHANGED toHost
        BY DEF Answer, TypeOK
      <4>. QED  BY <1>6, <4>1, <4>2 DEF DongleProvision
    <3>. QED  BY <3>1, EventsReported DEF TypeOK
  <2>5. UNCHANGED nodeAddr
    BY <1>6 DEF DongleProvision, nodes
  <2>. QED  BY <1>2, <2>1, <2>3, <2>4, <2>5 DEF AddrsOK, GotAddr
<1>7. CASE LinkClosed
  <2>1. /\ link'.phase = "none" /\ UNCHANGED <<toDongle, nodeAddr>>
        /\ Answer(<<Report("LINK_CLOSED")>>)
    BY <1>7 DEF LinkClosed, nodes, NoLink
  <2>2. Report("LINK_CLOSED") \in Events /\ Report("LINK_CLOSED").op # "COMPLETE"
    BY ReportTypes DEF Reports
  <2>3. AddrFrame
    BY <1>2, <2>1, <2>2, EventsReported DEF AddrFrame, TypeOK
  <2>. QED  BY <2>3, AddrFrameKeeps
<1>8. ASSUME NEW op, NEW from, NEW to, NEW e \in Events, LinkStep(op, from, to, e),
             from # "none", UNCHANGED nodeAddr, e.op # "COMPLETE"
      PROVE  AddrsOK'
  <2>1. link'.phase # "none" => link.phase # "none" /\ link'.addr = link.addr
    BY <1>8 DEF LinkStep, WorldTypeOK
  <2>2. Range(toDongle') \subseteq Range(toDongle)
    BY <1>8, CommandTaken DEF LinkStep, Command, TypeOK
  <2>3. \A x \in Range(toHost') : x \in Range(toHost) \/ x.op # "COMPLETE"
    BY <1>8, EventsReported DEF LinkStep, TypeOK
  <2>4. AddrFrame
    BY <1>2, <1>8, <2>1, <2>2, <2>3 DEF AddrFrame
  <2>. QED  BY <2>4, AddrFrameKeeps
<1>9. CASE DongleOobUse \/ DongleEcdhSecret
  <2>1. /\ Report("ECDH_REQUEST") \in Events /\ Report("AUTH_REQUEST") \in Events
        /\ Report("ECDH_REQUEST").op # "COMPLETE" /\ Report("AUTH_REQUEST").op # "COMPLETE"
    BY ReportTypes DEF Reports
  <2>. QED  BY <1>8, <1>9, <2>1 DEF DongleOobUse, DongleEcdhSecret, nodes
<1>10. CASE DongleAuthData
  <2>. DEFINE e == Event("COMPLETE", TRUE, link.addr, link.dev)
  <2>1. e \in Events /\ e.op = "COMPLETE" /\ e.dev = link.dev
    BY ReportTypes DEF WorldTypeOK, EventOps, Reports, Event
  <2>2. LinkStep("PROV_AUTH_DATA", "secret", "complete", e)
    BY <1>10 DEF DongleAuthData
  <2>. HIDE DEF e
  <2>3. /\ Head(toDongle).op = "PROV_AUTH_DATA" /\ Has(toDongle, "PROV_AUTH_DATA")
        /\ Range(toDongle') \subseteq Range(toDongle)
    BY <2>2, CommandTaken DEF LinkStep, Command, TypeOK
  <2>4. CASE link.phase # "secret"
    <3>1. UNCHANGED <<link, toHost, nodeAddr>>
      BY <1>10, <2>2, <2>4 DEF DongleAuthData, LinkStep
    <3>2. AddrFrame
      BY <1>2, <2>3, <3>1 DEF AddrFrame
    <3>. QED  BY <3>2, AddrFrameKeeps
  <2>5. CASE link.phase = "secret"
    <3>1. ~InHand /\ \A op \in AfterLink : ~Has(toDongle, op)
          /\ ~Has(toDongle, "PROV_PROVISION")
      BY <2>3, <2>5
      DEF InTurn, LinkInv, LinkInTurn, LinkAt, ProvisionInTurn, NoLinkCommand,
          LinkCommands, Waiting, InHand
    <3>2. \A c \in Range(toDongle') : c.op \notin {"PROV_PROVISION", "DEVKEY_ADD"}
      BY <2>3, <3>1 DEF Has, AfterLink
    <3>3. Range(toHost') = Range(toHost) \cup {e} /\ NoLinkEvent
      BY <2>1, <2>2, <2>3, <2>5, EventsReported
      DEF LinkStep, TypeOK, InTurn, LinkInv, LinkInTurn, LinkAt, NoLinkCommand, LinkCommands
    <3>4. \A x \in Range(toHost') : x.op = "COMPLETE" => x = e
      BY <3>3 DEF NoLinkEvent, Has, LinkEvents
    <3>5. /\ link.dev \in Devices /\ link.addr = dev_addr
          /\ nodeAddr' = [nodeAddr EXCEPT ![link.dev] = link.addr] /\ link'.addr = link.addr
      BY <1>10, <2>2, <2>5 DEF DongleAuthData, LinkStep, WorldTypeOK, AddrsOK, AddrOfLink
    <3>6. e.dev \in Devices /\ nodeAddr'[e.dev] = dev_addr'
      BY <1>2, <2>1, <3>5 DEF WorldTypeOK
    <3>7. AddrOfLink' /\ ~InHand'
      BY <1>2, <3>1, <3>5 DEF AddrOfLink
    <3>. QED
      BY <3>2, <3>4, <3>6, <3>7 DEF AddrsOK, GotAddr
  <2>. QED  BY <2>4, <2>5
<1>. QED
  BY <1>4, <1>5, <1>6, <1>7, <1>9, <1>10 DEF Outside, DongleCommand

(* Every handler but those of the first and fifth rung leaves addresses alone. *)
LEMMA ReceiverAddrs ==
  ASSUME GTypeOK, InTurn, AddrsOK, UNCHANGED <<link, sound, nodeAddr>>, ReceiverNext
  PROVE  AddrsOK'
<1>. USE DEF GTypeOK
<1>1. ASSUME UNCHANGED dev_addr, InHand' => InHand /\ UNCHANGED job,
             Range(toHost') \subseteq Range(toHost),
             \A c \in Range(toDongle') : c \in Range(toDongle)
                                 \/ c.op \notin {"PROV_PROVISION", "DEVKEY_ADD"}
      PROVE  AddrsOK'
  BY <1>1, AddrFrameKeeps DEF AddrFrame
<1>2. ASSUME NEW ops, Receive(ops) PROVE Range(toHost') \subseteq Range(toHost)
  BY <1>2, EventTaken DEF Receive, TypeOK
<1>3. CASE \/ CompositionDataStatus \/ TxComplete \/ AppkeyStatus \/ ModelAppStatus
           \/ HandleResponse \/ SubnetResponse \/ LocalUnicastResponse
           \/ DeviceStarted \/ PrintOnly
  <2>1. UNCHANGED dev_addr
    BY <1>3
    DEF CompositionDataStatus, TxComplete, AppkeyStatus, ModelAppStatus, HandleResponse,
        SubnetResponse, LocalUnicastResponse, DeviceStarted, PrintOnly, Handle, Begin, Idle
  <2>2. PICK ops : Other(ops)
    BY <1>3, OthersAreOther
  <2>3. InHand' => InHand /\ UNCHANGED job
    BY <2>2 DEF Other, InHand, receiver
  <2>4. \A c \in Range(toDongle') : c \in Range(toDongle)
                                 \/ c.op \notin {"PROV_PROVISION", "DEVKEY_ADD"}
    BY <2>2, HandlersKeepAddrs DEF LinkCommands, AfterLink
  <2>. QED  BY <1>1, <2>1, <2>2, <2>3, <2>4, HandlersKeepAddrs
<1>4. CASE \/ ProvUnprovisionedReceived \/ ProvCapsReceived \/ ProvEcdhRequest
           \/ ProvAuthRequest \/ ProvLinkClosed \/ PublicationStatus
  <2>1. /\ UNCHANGED <<dev_addr, toDongle>> /\ ~InHand'
        /\ \E ops : Receive(ops)
    <3>1. ASSUME NEW op, NEW k, Handle(op, k), k \in PROVISION .. AUTH
          PROVE  UNCHANGED <<dev_addr, toDongle>> /\ ~InHand' /\ Receive({op})
      BY <3>1 DEF Handle, Begin, Idle, Receive, receiver, InHand
    <3>2. CASE \/ ProvUnprovisionedReceived \/ ProvCapsReceived \/ ProvEcdhRequest
               \/ ProvAuthRequest
      <4>1. {PROVISION, OOBUSE, ECDH, AUTH} \subseteq PROVISION .. AUTH
        OBVIOUS
      <4>2. \/ Handle("UNPROVISIONED_RECEIVED", PROVISION) \/ Handle("CAPS_RECEIVED", OOBUSE)
            \/ Handle("ECDH_REQUEST", ECDH) \/ Handle("AUTH_REQUEST", AUTH)
        BY <3>2
        DEF ProvUnprovisionedReceived, ProvCapsReceived, ProvEcdhRequest, ProvAuthRequest
      <4>. QED  BY <3>1, <4>1, <4>2
    <3>3. CASE ProvLinkClosed \/ PublicationStatus
      <4>1. Receive({"LINK_CLOSED"}) \/ Receive({"MODEL_PUBLICATION_STATUS"})
        BY <3>3 DEF ProvLinkClosed, PublicationStatus
      <4>2. UNCHANGED <<dev_addr, toDongle>> /\ ~InHand'
        BY <3>3 DEF ProvLinkClosed, PublicationStatus, Begin, Receive, receiver, InHand
      <4>. QED  BY <4>1, <4>2
    <3>. QED  BY <1>4, <3>2, <3>3
  <2>. QED  BY <1>1, <1>2, <2>1
<1>5. CASE ProvCompleteCheck \/ SetState \/ StoreHandle
  BY <1>1, <1>5 DEF ProvCompleteCheck, SetState, StoreHandle, InHand
<1>6. CASE ProvComplete
  <2>1. Range(toHost') \subseteq Range(toHost) /\ Head(toHost) \in Range(toHost)
        /\ Head(toHost).op = "COMPLETE"
    BY <1>6, EventTaken DEF ProvComplete, Receive, TypeOK
  <2>2. \A c \in Range(toDongle') : c \in Range(toDongle)
                                 \/ c.op \notin {"PROV_PROVISION", "DEVKEY_ADD"}
    <3>. DEFINE c == Cmd("PROV_SCAN_STOP")
    <3>1. c \in Commands /\ c.op = "PROV_SCAN_STOP" /\ Write(<<c>>)
      BY <1>6 DEF ProvComplete, Cmd, Commands, PlainCommands
    <3>. HIDE DEF c
    <3>2. <<c>> \in Seq(Commands) /\ Range(<<c>>) = {c}
      BY <3>1, ShortRange
    <3>. QED  BY <3>1, <3>2, CommandsWritten DEF TypeOK
  <2>3. GotAddr(Head(toHost).dev) /\ UNCHANGED dev_addr /\ job'.ev = Head(toHost)
    BY <1>6, <2>1 DEF AddrsOK, ProvComplete
  <2>. QED  BY <2>1, <2>2, <2>3 DEF AddrsOK, AddrOfLink, GotAddr
<1>7. CASE Body
  <2>. DEFINE k == job.rung
              s == RungCommands(k, job.ev)
  <2>1. /\ k \in Rungs /\ s \in Seq(Commands) /\ Write(s) /\ job.ev \in Events
        /\ rpc = "body" /\ rpc' = "set" /\ state = k - 1 /\ UNCHANGED <<state, toHost>>
        /\ Reached = k - 1
        /\ dev_addr' = IF k = PROVISION THEN NextAddr ELSE dev_addr
    <3>1. k \in Rungs /\ job.ev \in Events
      BY <1>7 DEF TypeOK, Body
    <3>2. s \in Seq(Commands)
      BY <3>1, RungCommandsType
    <3>. QED  BY <1>7, <3>1, <3>2 DEF Body, InTurn, Process, StateKept, Reached
  <2>2. Range(toDongle') = Range(toDongle) \cup Range(s)
    BY <2>1, CommandsWritten DEF TypeOK
  <2>3. ~InHand'
    BY <2>1 DEF InHand
  <2>4. CASE k = PROVISION
    <3>1. link.phase = "none" /\ NoLinkEvent /\ ~Has(toDongle, "PROV_PROVISION")
      BY <2>1, <2>4
      DEF InTurn, LinkInv, EventsInTurn, Awaits, ClosedInTurn, ProvisionInTurn, LinkInTurn,
          LinkAt, CompleteInTurn, WorldTypeOK, LinkPhases, NoLinkEvent, LinkEvents, Waiting
    <3>2. \A e \in Range(toHost') : e.op # "COMPLETE"
      BY <2>1, <3>1 DEF NoLinkEvent, Has, LinkEvents
    <3>3. \A c \in Range(toDongle) : c.op # "PROV_PROVISION"
      BY <3>1 DEF Has
    <3>4. \A c \in Range(s) : c.op = "PROV_PROVISION" /\ c.addr = NextAddr
      <4>1. s = <<Provision(job.ev.dev, NextAddr)>>
        BY <2>1, <2>4, RungWrites
      <4>2. Provision(job.ev.dev, NextAddr).op = "PROV_PROVISION"
            /\ Provision(job.ev.dev, NextAddr).addr = NextAddr
        BY DEF Provision
      <4>. HIDE DEF s
      <4>. QED  BY <4>1, <4>2, ShortRange
    <3>. HIDE DEF s
    <3>5. dev_addr' = NextAddr /\ link'.phase = "none"
      BY <2>1, <2>4, <3>1
    <3>. QED
      BY <2>2, <2>3, <3>2, <3>3, <3>4, <3>5 DEF AddrsOK, AddrOfLink, GotAddr
  <2>5. CASE k = DEVKEY_ADDRPUBADD
    <3>1. GotAddr(job.ev.dev)
      BY <2>1, <2>5 DEF AddrsOK, InHand
    <3>2. \A c \in Range(s) : /\ c.op # "PROV_PROVISION"
                              /\ c.op = "DEVKEY_ADD" => c.owner = dev_addr /\ c.dev = job.ev.dev
      <4>. DEFINE a == DevkeyAdd(dev_addr, subnet_handle, job.ev.dev)
                  b == AddrPublicationAdd(dev_addr)
      <4>1. s = <<a, b>>
        BY <2>1, <2>5, RungWrites
      <4>2. /\ a.op = "DEVKEY_ADD" /\ a.owner = dev_addr /\ a.dev = job.ev.dev
            /\ b.op = "ADDR_PUBLICATION_ADD"
        BY DEF DevkeyAdd, AddrPublicationAdd
      <4>. HIDE DEF s, a, b
      <4>. QED  BY <4>1, <4>2, ShortRange
    <3>. HIDE DEF s
    <3>. QED
      BY <2>1, <2>2, <2>3, <2>5, <3>1, <3>2 DEF AddrsOK, AddrOfLink, GotAddr
  <2>6. CASE k \notin {PROVISION, DEVKEY_ADDRPUBADD}
    <3>1. \A c \in Range(s) : c.op \notin {"PROV_PROVISION", "DEVKEY_ADD"}
      <4>1. ~Has(s, "PROV_PROVISION") /\ ~Has(s, "DEVKEY_ADD")
        BY <2>1, <2>6, RungOpcodes
      <4>. QED  BY <4>1 DEF Has
    <3>. HIDE DEF s
    <3>. QED  BY <1>1, <2>1, <2>2, <2>3, <2>6, <3>1
  <2>. QED  BY <2>4, <2>5, <2>6
<1>. QED  BY <1>3, <1>4, <1>5, <1>6, <1>7 DEF ReceiverNext

(* At the start no address is on its way.                                     *)
LEMMA AddrsStart == ASSUME GInit PROVE AddrsOK
<1>1. /\ rpc = "idle" /\ toHost = <<>> /\ toDongle = <<Cmd("DEVICE_RADIO_RESET")>>
      /\ link.phase = "none"
  BY DEF GInit, Init, NoLink
<1>2. Range(toHost) = {} /\ Range(toDongle) = {Cmd("DEVICE_RADIO_RESET")}
  BY <1>1, ShortRange
<1>3. Cmd("DEVICE_RADIO_RESET").op = "DEVICE_RADIO_RESET"
  BY DEF Cmd
<1>. QED  BY <1>1, <1>2, <1>3 DEF AddrsOK, AddrOfLink, InHand

(* The main thread writes neither of the two commands with an address.        *)
LEMMA MainAddrs ==
  ASSUME GTypeOK, AddrsOK, PressKey \/ CliContinue, InTurn,
         UNCHANGED <<link, nodeAddr>>, rpc = "idle"
  PROVE  AddrsOK'
<1>1. UNCHANGED <<dev_addr, rpc, job, toHost>>
  BY MainWrites DEF GTypeOK, receiver
<1>2. \A c \in Range(toDongle') : c \in Range(toDongle)
                                 \/ c.op \notin {"PROV_PROVISION", "DEVKEY_ADD"}
  <2>1. ASSUME NEW c \in Commands, Write(<<c>>) PROVE Range(toDongle') = Range(toDongle) \cup {c}
    <3>1. <<c>> \in Seq(Commands) /\ Range(<<c>>) = {c}
      BY ShortRange
    <3>. QED  BY <2>1, <3>1, CommandsWritten DEF GTypeOK, TypeOK
  <2>. QED  BY <2>1, MainWrites DEF GTypeOK
<1>3. AddrFrame
  BY <1>1, <1>2 DEF AddrFrame, InHand
<1>. QED  BY <1>3, AddrFrameKeeps

(* Every step keeps the addresses.                                             *)
LEMMA AddrsStep ==
  ASSUME Careful, InTurn, AddrsOK, [GNext]_gVars PROVE AddrsOK'
<1>. USE DEF InTurn
<1>1. CASE UNCHANGED gVars
  BY <1>1
  DEF gVars, hostVars, world, dongle, nodes, receiver, AddrsOK, AddrOfLink, GotAddr, InHand
<1>2. CASE HostStep /\ ReceiverNext
  BY <1>2, ReceiverAddrs DEF HostStep, world, dongle, luck, nodes
<1>3. CASE (HostStep /\ CliContinue) \/ User
  <2>1. /\ UNCHANGED <<link, nodeAddr>>
        /\ PressKey \/ CliContinue
        /\ User => Quiet
    BY <1>3 DEF HostStep, User, world, dongle, nodes, Careful
  <2>2. rpc = "idle"
    BY <1>3, <2>1
    DEF Quiet, HostStep, Process, KeyAlone, CliContinue, ResetState, FillDestination, WritePacket
  <2>. QED  BY <2>1, <2>2, MainAddrs
<1>4. CASE Outside
  BY <1>4, OutsideAddrs DEF InTurn
<1>5. CASE DongleRadioReset /\ DongleCommand
  <2>1. HostFrame /\ Command("DEVICE_RADIO_RESET")
    BY <1>5 DEF DongleCommand, DongleRadioReset
  <2>2. Range(toDongle') \subseteq Range(toDongle)
    BY <2>1, CommandTaken DEF Command, GTypeOK, TypeOK
  <2>3. Report("DEVICE_STARTED") \in Events /\ Report("DEVICE_STARTED").op # "COMPLETE"
    BY ReportTypes DEF Reports
  <2>4. Range(toHost') = Range(toHost) \cup {Report("DEVICE_STARTED")}
    BY <1>5, <2>3, EventsReported DEF DongleRadioReset, Reboot, GTypeOK, TypeOK
  <2>5. UNCHANGED <<nodeAddr, dev_addr, job, rpc, state>> /\ link'.phase = "none"
    BY <1>5, <2>1 DEF DongleRadioReset, Reboot, nodes, HostFrame, receiver, NoLink
  <2>6. AddrFrame
    BY <2>2, <2>3, <2>4, <2>5 DEF AddrFrame, InHand
  <2>. QED  BY <2>6, AddrFrameKeeps
<1>6. CASE DongleRestart \/ Crash
  BY <1>6 DEF DongleRestart, Crash, Fault, Careful
<1>. QED
  BY <1>1, <1>2, <1>3, <1>4, <1>5, <1>6 DEF GNext, Outside, DongleStep, HostStep

(* The addresses are in place in every state of a careful system.             *)
LEMMA AddrsAlwaysOK == ASSUME Careful PROVE GSpec => [](InTurn /\ AddrsOK)
<1>1. GSpec => []InTurn
  BY AlwaysInTurn
<1>2. GInit => AddrsOK
  BY AddrsStart
<1>3. InTurn /\ AddrsOK /\ [GNext]_gVars => AddrsOK'
  BY AddrsStep
<1>. QED  BY <1>1, <1>2, <1>3, PTL DEF GSpec

(* The device key is added for the address that the device really got,         *)
(* although the program takes that address from its counter: in every session  *)
(* of a careful user, broken or not.                                           *)
THEOREM DevkeyGetsItsOwner == ASSUME Careful PROVE GSpec => []DevkeyHasItsOwner
<1>1. AddrsOK => DevkeyHasItsOwner
  BY DEF AddrsOK, DevkeyHasItsOwner, Range
<1>. QED  BY <1>1, AddrsAlwaysOK, PTL
-------------------------------------------------------------------------------
(* The second half of a session, from the device key to the last status of the *)
(* configuration.                                                              *)
-------------------------------------------------------------------------------
(* At most one of the elements of S is on its way in q.                        *)
One(q, S) == \A i, j \in DOMAIN q : q[i] \in S /\ q[j] \in S => i = j

(* Taking the first element off a queue.                                       *)
LEMMA TailOne ==
  ASSUME NEW T, NEW q \in Seq(T), q # <<>>, NEW S, One(q, S)
  PROVE  /\ One(Tail(q), S)
         /\ Head(q) \in S => \A x \in Range(Tail(q)) : x \notin S
<1>. DEFINE t == Tail(q)
<1>1. /\ 1 \in DOMAIN q /\ Head(q) = q[1]
      /\ \A i \in DOMAIN t : i \in Nat /\ i + 1 \in DOMAIN q /\ t[i] = q[i + 1] /\ i + 1 > 1
  OBVIOUS
<1>. HIDE DEF t
<1>2. One(t, S)
  <2>1. ASSUME NEW i \in DOMAIN t, NEW j \in DOMAIN t, t[i] \in S, t[j] \in S
        PROVE  i = j
    <3>1. i + 1 = j + 1
      BY <1>1, <2>1 DEF One
    <3>. QED  BY <1>1, <3>1
  <2>. QED  BY <2>1 DEF One
<1>3. ASSUME Head(q) \in S, NEW x \in Range(t), x \in S PROVE FALSE
  <2>1. PICK j \in DOMAIN t : t[j] = x
    BY <1>3 DEF Range
  <2>2. j + 1 = 1
    BY <1>1, <1>3, <2>1 DEF One
  <2>. QED  BY <1>1, <2>1, <2>2
<1>. QED  BY <1>2, <1>3 DEF t

(* Adding elements behind the last one.                                        *)
LEMMA JoinedOne ==
  ASSUME NEW T, NEW q \in Seq(T), NEW s \in Seq(T), NEW S, One(q, S), One(s, S),
         (\A x \in Range(q) : x \notin S) \/ (\A x \in Range(s) : x \notin S)
  PROVE  One(q \o s, S)
<1>. DEFINE t == q \o s
            n == Len(q)
<1>1. /\ n \in Nat
      /\ \A i \in DOMAIN t : i \in Nat
      /\ \A i \in DOMAIN t : \/ i \in DOMAIN q /\ t[i] = q[i]
                             \/ i - n \in DOMAIN s /\ t[i] = s[i - n]
  OBVIOUS
<1>. HIDE DEF t, n
<1>2. ASSUME NEW i \in DOMAIN t, NEW j \in DOMAIN t, t[i] \in S, t[j] \in S
      PROVE  i = j
  <2>1. CASE i \in DOMAIN q /\ t[i] = q[i] /\ j \in DOMAIN q /\ t[j] = q[j]
    BY <1>2, <2>1 DEF One
  <2>2. CASE /\ i - n \in DOMAIN s /\ t[i] = s[i - n]
             /\ j - n \in DOMAIN s /\ t[j] = s[j - n]
    <3>1. i - n = j - n
      BY <1>2, <2>2 DEF One
    <3>. QED  BY <1>1, <3>1
  <2>3. CASE i \in DOMAIN q /\ t[i] = q[i] /\ j - n \in DOMAIN s /\ t[j] = s[j - n]
    BY <1>2, <2>3 DEF Range
  <2>4. CASE j \in DOMAIN q /\ t[j] = q[j] /\ i - n \in DOMAIN s /\ t[i] = s[i - n]
    BY <1>2, <2>4 DEF Range
  <2>. QED  BY <1>1, <2>1, <2>2, <2>3, <2>4
<1>. QED  BY <1>2 DEF One, t

(* None is at most one, and so is one.                                         *)
LEMMA ShortOne ==
  /\ \A q, S : (\A x \in Range(q) : x \notin S) => One(q, S)
  /\ \A a, S : One(<<a>>, S)
BY DEF One, Range

-------------------------------------------------------------------------------
(* The configuration messages that go out, and the answers the handlers await. *)
ConfigPackets == [op : {"PACKET_SEND"}, msg : ConfigMessages, key : U16Int,
                  dst : U16Int, elem : U16Int]
ConfigStatuses == {"APPKEY_STATUS", "MODEL_APP_STATUS", "MODEL_PUBLICATION_STATUS"}
StatusEvents == [op : ConfigStatuses, ok : BOOLEAN, val : U16Int,
                 dev : Devices \cup {NoDevice}]

ConfigSent   == \E c \in Range(toDongle) : c \in ConfigPackets
ConfigFlying == \E m \in air : m.msg \in ConfigMessages
ConfigTaken  == \E e \in Range(toHost) : e \in StatusEvents

(* The rung that has written msg is the one the session is on.                 *)
Due(msg) ==
  Waiting /\ \/ msg = "APPKEY_ADD" /\ Reached = PS_APPKEY_ADD
             \/ msg = "MODEL_APP_BIND" /\ Reached = PS_MODEL_APP_BIND
             \/ msg = "MODEL_PUBLICATION_SET" /\ Reached = PS_MODEL_PUBLICATION_SET

(* One configuration message at a time is written, flies or has its answer on  *)
(* the way, and it is the one that the session waits for.                      *)
OneAtATime ==
  /\ One(toDongle, ConfigPackets) /\ One(toHost, StatusEvents)
  /\ \A x, y \in air : x.msg \in ConfigMessages /\ y.msg \in ConfigMessages => x = y
  /\ ~(ConfigSent /\ ConfigFlying) /\ ~(ConfigSent /\ ConfigTaken)
  /\ ~(ConfigFlying /\ ConfigTaken)
DueOnly ==
  /\ \A c \in Range(toDongle) : c \in ConfigPackets => Due(c.msg) /\ c.key = devkey_handle
  /\ \A m \in air : m.msg \in ConfigMessages => Due(m.msg)
  /\ \A e \in Range(toHost) : e \in StatusEvents =>
       \E msg \in ConfigMessages : e.op = StatusOf(msg) /\ Due(msg)

(* The node that the device key handle of the session stands for is the one    *)
(* that flying messages go to, and that has taken what was answered.           *)
KeyKnown(h) == h - DevkeyBase \in 0 .. Len(devkeys) - 1
KeyAt(h)    == devkeys[h - DevkeyBase + 1]
Aimed(d)    == KeyKnown(devkey_handle) /\ KeyAt(devkey_handle).dev = d
Configured(msg) == \E d \in Devices : Aimed(d) /\ (d \in member => msg \in config[d])
KeyTaken  == \/ Reached = PS_MODEL_APP_BIND \/ Has(toHost, "APPKEY_STATUS")
             \/ rpc = "body" /\ state = PS_APPKEY_ADD
BindTaken == \/ Reached = PS_MODEL_PUBLICATION_SET \/ Has(toHost, "MODEL_APP_STATUS")
             \/ rpc = "body" /\ state = PS_MODEL_APP_BIND
Progress ==
  /\ \A m \in air : m.msg \in ConfigMessages => Aimed(m.dev)
  /\ KeyTaken  => Configured("APPKEY_ADD")
  /\ BindTaken => Configured("MODEL_APP_BIND")

(* No device has taken a later message without the earlier ones.               *)
ConfigPrefix ==
  \A d \in Devices :
    /\ "MODEL_APP_BIND" \in config[d] => "APPKEY_ADD" \in config[d]
    /\ "MODEL_PUBLICATION_SET" \in config[d] => "MODEL_APP_BIND" \in config[d]

(* The packets that the main thread fills are no configuration messages.       *)
PacketInHand == cpc \in {"dst", "write"} => packet.msg \notin ConfigMessages

Outstanding == OneAtATime /\ DueOnly /\ Progress
ConfigInv   == Outstanding /\ ConfigPrefix /\ PacketInHand

-------------------------------------------------------------------------------
(* A step that sends no configuration message, lets none be taken or answered  *)
(* and leaves the session on its rung while one is outstanding.                *)
TargetKept ==
  /\ UNCHANGED devkey_handle
  /\ KeyKnown(devkey_handle) =>
       KeyKnown(devkey_handle)' /\ KeyAt(devkey_handle)' = KeyAt(devkey_handle)
  /\ \A d \in member' : d \in member /\ config[d] \subseteq config'[d]

ConfigFrame ==
  /\ One(toDongle', ConfigPackets) /\ One(toHost', StatusEvents)
  /\ \A c \in Range(toDongle') : c \in ConfigPackets => c \in Range(toDongle)
  /\ \A e \in Range(toHost') : e \in StatusEvents => e \in Range(toHost)
  /\ \A m \in air' : m.msg \in ConfigMessages => m \in air
  /\ Reached' >= PS_APPKEY_ADD => Reached' = Reached
  /\ rpc' = "body" /\ state' >= PS_APPKEY_ADD => rpc = "body" /\ state = state'
  /\ Reached >= PS_APPKEY_ADD => Reached' = Reached /\ (Waiting => Waiting') /\ TargetKept

(* A status with the opcode op is on its way if one of the events says so.    *)
LEMMA StatusHas ==
  ASSUME NEW q \in Seq(Events), NEW op \in ConfigStatuses
  PROVE  Has(q, op) <=> \E e \in Range(q) : e \in StatusEvents /\ e.op = op
<1>1. \A e \in Range(q) : e \in Events
  BY DEF Range
<1>2. \A e \in Events : e.op \in ConfigStatuses => e \in StatusEvents
  BY DEF Events, StatusEvents
<1>. QED  BY <1>1, <1>2 DEF Has

(* What is outstanding or was answered shows in the rung.                      *)
LEMMA DueRung ==
  /\ \A msg : Due(msg) => Reached >= PS_APPKEY_ADD /\ Waiting
  /\ GTypeOK /\ DueOnly =>
       /\ KeyTaken \/ BindTaken \/ ConfigSent \/ ConfigFlying \/ ConfigTaken
            => Reached >= PS_APPKEY_ADD
       /\ ConfigSent \/ ConfigFlying \/ ConfigTaken => Waiting
<1>1. \A msg : Due(msg) => Reached >= PS_APPKEY_ADD /\ Waiting
  BY DEF Due
<1>2. ASSUME GTypeOK, DueOnly, NEW op \in ConfigStatuses, Has(toHost, op)
      PROVE  ConfigTaken
  BY <1>2, StatusHas DEF ConfigTaken, GTypeOK, TypeOK
<1>3. GTypeOK /\ DueOnly /\ (KeyTaken \/ BindTaken) =>
        ConfigTaken \/ Reached >= PS_APPKEY_ADD
  BY <1>2 DEF KeyTaken, BindTaken, Reached, ConfigStatuses
<1>4. DueOnly /\ (ConfigSent \/ ConfigFlying \/ ConfigTaken)
        => Reached >= PS_APPKEY_ADD /\ Waiting
  BY <1>1 DEF DueOnly, ConfigSent, ConfigFlying, ConfigTaken
<1>. QED  BY <1>1, <1>3, <1>4

(* Such a step keeps the configuration in order.                              *)
LEMMA ConfigFrameKeeps ==
  ASSUME GTypeOK, toHost' \in Seq(Events), Outstanding, ConfigFrame PROVE Outstanding'
<1>. USE DEF ConfigFrame, Outstanding
<1>1. OneAtATime'
  BY DEF OneAtATime, ConfigSent, ConfigFlying, ConfigTaken
<1>2. \A msg : Due(msg) => Due(msg)'
  BY DueRung DEF Due
<1>3. DueOnly'
  BY <1>2, DueRung DEF DueOnly, TargetKept
<1>4. \A d : Reached >= PS_APPKEY_ADD /\ Aimed(d) => Aimed(d)'
  BY DEF TargetKept, Aimed
<1>5. \A msg : Reached >= PS_APPKEY_ADD /\ Configured(msg) => Configured(msg)'
  BY <1>4 DEF Configured, TargetKept
<1>6. \A op \in ConfigStatuses : Has(toHost', op) => Has(toHost, op)
  BY StatusHas DEF GTypeOK, TypeOK
<1>7. (KeyTaken' => KeyTaken) /\ (BindTaken' => BindTaken)
  BY <1>6 DEF KeyTaken, BindTaken, ConfigStatuses
<1>8. \A m \in air' : m.msg \in ConfigMessages => Aimed(m.dev)'
  BY <1>4, DueRung DEF DueOnly, Progress
<1>. QED  BY <1>1, <1>3, <1>5, <1>7, <1>8, DueRung DEF Progress

(* Before the first configuration message and after the last nothing is.       *)
NothingDue ==
  /\ ~ConfigSent /\ ~ConfigFlying /\ ~ConfigTaken
  /\ Reached < PS_APPKEY_ADD
  /\ toHost \in Seq(Events)

(* The configuration is in order where none is going on.                      *)
LEMMA NothingDueKeeps == NothingDue => Outstanding
<1>. SUFFICES ASSUME NothingDue PROVE Outstanding
  OBVIOUS
<1>1. OneAtATime
  BY ShortOne DEF NothingDue, OneAtATime, ConfigSent, ConfigFlying, ConfigTaken
<1>2. DueOnly
  BY DEF NothingDue, DueOnly, ConfigSent, ConfigFlying, ConfigTaken
<1>3. ~KeyTaken /\ ~BindTaken
  BY StatusHas DEF NothingDue, KeyTaken, BindTaken, ConfigTaken, ConfigStatuses, Reached
<1>. QED  BY <1>1, <1>2, <1>3 DEF Outstanding, Progress, NothingDue, ConfigFlying

-------------------------------------------------------------------------------
(* Taking an event or a command, and adding some.                              *)
LEMMA HostOne ==
  ASSUME toHost \in Seq(Events), One(toHost, StatusEvents)
  PROVE  /\ toHost # <<>> /\ toHost' = Tail(toHost) =>
              /\ One(toHost', StatusEvents) /\ Range(toHost') \subseteq Range(toHost)
              /\ Head(toHost) \in StatusEvents => ~ConfigTaken'
         /\ \A e \in Events : Answer(<<e>>) =>
              /\ Range(toHost') = Range(toHost) \cup {e}
              /\ e \notin StatusEvents \/ ~ConfigTaken => One(toHost', StatusEvents)
<1>1. ASSUME toHost # <<>>, toHost' = Tail(toHost)
      PROVE  /\ One(toHost', StatusEvents) /\ Range(toHost') \subseteq Range(toHost)
             /\ Head(toHost) \in StatusEvents => ~ConfigTaken'
  BY <1>1, TailOne, TailRange DEF ConfigTaken
<1>2. ASSUME NEW e \in Events, Answer(<<e>>)
      PROVE  /\ Range(toHost') = Range(toHost) \cup {e}
             /\ e \notin StatusEvents \/ ~ConfigTaken => One(toHost', StatusEvents)
  <2>. DEFINE s == <<e>>
  <2>1. s \in Seq(Events) /\ Range(s) = {e} /\ One(s, StatusEvents) /\ toHost' = toHost \o s
    BY <1>2, ShortRange, ShortOne DEF Answer
  <2>. HIDE DEF s
  <2>. QED  BY <2>1, JoinedOne, JoinedRange DEF ConfigTaken
<1>. QED  BY <1>1, <1>2

(* Taking and writing keep it at one configuration packet.                    *)
LEMMA DongleOne ==
  ASSUME toDongle \in Seq(Commands), One(toDongle, ConfigPackets)
  PROVE  /\ toDongle # <<>> /\ toDongle' = Tail(toDongle) =>
              /\ One(toDongle', ConfigPackets) /\ Range(toDongle') \subseteq Range(toDongle)
              /\ Head(toDongle) \in ConfigPackets => ~ConfigSent'
         /\ \A s \in Seq(Commands) : Write(s) =>
              /\ Range(toDongle') = Range(toDongle) \cup Range(s)
              /\ (\A c \in Range(s) : c \notin ConfigPackets) \/ (~ConfigSent /\ One(s, ConfigPackets))
                   => One(toDongle', ConfigPackets)
<1>1. ASSUME toDongle # <<>>, toDongle' = Tail(toDongle)
      PROVE  /\ One(toDongle', ConfigPackets) /\ Range(toDongle') \subseteq Range(toDongle)
             /\ Head(toDongle) \in ConfigPackets => ~ConfigSent'
  BY <1>1, TailOne, TailRange DEF ConfigSent
<1>2. ASSUME NEW s \in Seq(Commands), Write(s)
      PROVE  /\ Range(toDongle') = Range(toDongle) \cup Range(s)
             /\ (\A c \in Range(s) : c \notin ConfigPackets) \/ (~ConfigSent /\ One(s, ConfigPackets))
                  => One(toDongle', ConfigPackets)
  <2>1. toDongle' = toDongle \o s
    BY <1>2 DEF Write
  <2>2. (\A c \in Range(s) : c \notin ConfigPackets) => One(s, ConfigPackets)
    BY ShortOne
  <2>. QED  BY <2>1, <2>2, JoinedOne, JoinedRange DEF ConfigSent
<1>. QED  BY <1>1, <1>2

(* What the dongle answers to a command is no configuration status.            *)
LEMMA CommandReports ==
  ASSUME GTypeOK, DongleCommand
  PROVE  /\ toDongle # <<>> /\ toDongle' = Tail(toDongle)
         /\ UNCHANGED toHost \/ \E e \in Events : Answer(<<e>>) /\ e.op \in Responses \cup Reports
<1>. USE DEF GTypeOK
<1>1. toDongle # <<>> /\ toDongle' = Tail(toDongle)
  BY DEF DongleCommand, DongleRadioReset, DongleScan, DongleProvision, DongleOobUse,
     DongleEcdhSecret, DongleAuthData, DongleLocalUnicastSet, DongleSubnetAdd,
     DongleAppKeyAdd, DongleDevkeyAdd, DongleAddrPublicationAdd, DonglePacketSend,
     LinkStep, Command
<1>. DEFINE reported == UNCHANGED toHost
               \/ \E e \in Events : Answer(<<e>>) /\ e.op \in Responses \cup Reports
<1>2. ASSUME NEW e \in Events, Answer(<<e>>), e.op \in Responses \cup Reports PROVE reported
  BY <1>2
<1>3. UNCHANGED toHost => reported
  OBVIOUS
<1>. HIDE DEF reported
<1>4. ASSUME NEW op \in Reports, Answer(<<Report(op)>>) PROVE reported
  BY <1>2, <1>4, ReportTypes
<1>5. ASSUME NEW op \in Responses, NEW ok \in BOOLEAN, NEW val \in U16Int,
             Answer(<<CmdRsp(op, ok, val)>>)
      PROVE  reported
  BY <1>2, <1>5, ReportTypes
<1>6. {"DEVICE_STARTED", "CAPS_RECEIVED", "LINK_CLOSED", "ECDH_REQUEST", "AUTH_REQUEST",
       "COMPLETE"} \subseteq Reports
      /\ {"ADDR_LOCAL_UNICAST_SET", "SUBNET_ADD", "DEVKEY_ADD", "ADDR_PUBLICATION_ADD"}
           \subseteq Responses
  BY DEF Reports, Responses
<1>. SUFFICES reported
  BY <1>1 DEF reported
<1>7. CASE DongleRadioReset
  BY <1>4, <1>6, <1>7 DEF DongleRadioReset, Reboot
<1>8. CASE DongleScan \/ DongleAppKeyAdd \/ DonglePacketSend
  BY <1>3, <1>8 DEF DongleScan, DongleAppKeyAdd, DonglePacketSend
<1>9. CASE DongleProvision
  <2>1. Answer(<<>>) => UNCHANGED toHost
    BY DEF Answer, TypeOK
  <2>. QED  BY <1>3, <1>4, <1>6, <1>9, <2>1 DEF DongleProvision
<1>10. CASE DongleOobUse \/ DongleEcdhSecret
  BY <1>3, <1>4, <1>6, <1>10 DEF DongleOobUse, DongleEcdhSecret, LinkStep
<1>11. CASE DongleAuthData
  <2>. DEFINE e == Event("COMPLETE", TRUE, link.addr, link.dev)
  <2>1. e \in Events /\ e.op = "COMPLETE"
    BY <1>6, ReportTypes DEF WorldTypeOK, EventOps, Event
  <2>2. UNCHANGED toHost \/ Answer(<<e>>)
    BY <1>11 DEF DongleAuthData, LinkStep
  <2>. HIDE DEF e
  <2>. QED  BY <1>2, <1>3, <1>6, <2>1, <2>2
<1>12. CASE DongleLocalUnicastSet
  BY <1>5, <1>6, <1>12, ZeroInRange DEF DongleLocalUnicastSet
<1>13. CASE DongleSubnetAdd
  <2>1. Answer(<<CmdRsp("SUBNET_ADD", ~subnet, SubnetHandle)>>)
    BY <1>13 DEF DongleSubnetAdd
  <2>2. (~subnet) \in BOOLEAN /\ SubnetHandle \in U16Int
    BY GatewayAssumption DEF GatewayAssumption
  <2>. QED  BY <1>5, <1>6, <2>1, <2>2
<1>14. CASE DongleDevkeyAdd \/ DongleAddrPublicationAdd
  BY <1>5, <1>6, <1>14, HandleAnswers
<1>. QED
  BY <1>7, <1>8, <1>9, <1>10, <1>11, <1>12, <1>13, <1>14 DEF DongleCommand

(* A step outside the process that touches no configuration message.           *)
ReportsNoStatus ==
  UNCHANGED toHost \/ \E e \in Events : Answer(<<e>>) /\ e.op \notin ConfigStatuses

(* Such a step keeps the configuration in order.                              *)
LEMMA OutsideKeepsConfig ==
  ASSUME GTypeOK, Outstanding, HostFrame, ReportsNoStatus, toHost' \in Seq(Events),
         UNCHANGED toDongle \/ (toDongle # <<>> /\ toDongle' = Tail(toDongle)),
         \A m \in air' : m.msg \in ConfigMessages => m \in air,
         Reached >= PS_APPKEY_ADD => TargetKept
  PROVE  Outstanding'
<1>1. One(toHost', StatusEvents)
      /\ \A e \in Range(toHost') : e \in StatusEvents => e \in Range(toHost)
  <2>1. \A e : e \in StatusEvents => e.op \in ConfigStatuses
    BY DEF StatusEvents
  <2>. QED
    BY <2>1, HostOne DEF ReportsNoStatus, GTypeOK, TypeOK, Outstanding, OneAtATime
<1>2. One(toDongle', ConfigPackets) /\ Range(toDongle') \subseteq Range(toDongle)
  BY DongleOne DEF GTypeOK, TypeOK, Outstanding, OneAtATime
<1>3. /\ Reached' = Reached /\ (Waiting' <=> Waiting) /\ UNCHANGED <<rpc, state>>
  BY DEF HostFrame, Reached, Waiting, receiver
<1>4. ConfigFrame
  BY <1>1, <1>2, <1>3 DEF ConfigFrame
<1>. QED  BY <1>4, ConfigFrameKeeps

(* The keys that the dongle knows are never taken away before it reboots.      *)
LEMMA KeysKept ==
  ASSUME GTypeOK, UNCHANGED devkey_handle,
         UNCHANGED devkeys \/ \E k : devkeys' = Append(devkeys, k)
  PROVE  KeyKnown(devkey_handle) =>
           KeyKnown(devkey_handle)' /\ KeyAt(devkey_handle)' = KeyAt(devkey_handle)
<1>1. CASE UNCHANGED devkeys
  BY <1>1 DEF KeyKnown, KeyAt
<1>2. CASE \E k : devkeys' = Append(devkeys, k)
  <2>1. PICK k : devkeys' = Append(devkeys, k)
    BY <1>2
  <2>. DEFINE D == [owner : U16Int, dev : Devices \cup {NoDevice}]
              i == devkey_handle - DevkeyBase
  <2>2. /\ devkeys \in Seq(D)
        /\ devkey_handle \in Int /\ DevkeyBase \in Int
    BY GatewayAssumption, HostAssumption
    DEF GatewayAssumption, HostAssumption, GTypeOK, TypeOK, WorldTypeOK, U16Int
  <2>. HIDE DEF D
  <2>3. Len(devkeys') = Len(devkeys) + 1 /\ \A j \in 1 .. Len(devkeys) : devkeys'[j] = devkeys[j]
    BY <2>1, <2>2
  <2>4. i \in 0 .. Len(devkeys) - 1 =>
          i \in 0 .. Len(devkeys') - 1 /\ devkeys'[i + 1] = devkeys[i + 1]
    BY <2>2, <2>3
  <2>. QED  BY <2>4 DEF KeyKnown, KeyAt
<1>. QED  BY <1>1, <1>2

(* Commands besides packets, and what the dongle reports by itself.            *)
LEMMA CommandsKeepConfig ==
  ASSUME GTypeOK, GTypeOK', InTurn, Outstanding, Outside,
         ~DonglePacketSend, ~NodeAnswers, ~Loss
  PROVE  Outstanding' /\ UNCHANGED config
<1>. USE DEF GTypeOK
<1>1. HostFrame /\ (UNCHANGED toDongle \/ (toDongle # <<>> /\ toDongle' = Tail(toDongle)))
  BY OutsideFrame DEF InTurn
<1>2. UNCHANGED <<devkey_handle, Reached>>
  BY <1>1 DEF HostFrame, handles, Reached, receiver
<1>3. /\ UNCHANGED <<air, config>>
      /\ UNCHANGED devkeys \/ \E k : devkeys' = Append(devkeys, k)
      /\ UNCHANGED member \/ DongleAuthData
  <2>1. CASE DongleCommand /\ ~DongleRadioReset
    BY <2>1
    DEF DongleCommand, DongleScan, DongleProvision, DongleOobUse, DongleEcdhSecret,
        DongleAuthData, DongleLocalUnicastSet, DongleSubnetAdd, DongleAppKeyAdd,
        DongleDevkeyAdd, DongleAddrPublicationAdd, LinkStep, world, dongle, nodes
  <2>2. CASE DongleTxComplete \/ LinkClosed \/ Beacon \/ WriteFails
    BY <2>2 DEF DongleTxComplete, LinkClosed, Beacon, WriteFails, world, dongle, nodes
  <2>. QED  BY <2>1, <2>2 DEF Outside
<1>4. Reached >= PS_APPKEY_ADD => UNCHANGED member
  <2>1. ASSUME DongleAuthData, Reached >= PS_APPKEY_ADD PROVE UNCHANGED member
    <3>1. link.phase # "secret"
      BY <2>1 DEF InTurn, LinkInv, LinkInTurn, LinkAt
    <3>. QED  BY <2>1, <3>1 DEF DongleAuthData
  <2>. QED  BY <1>3, <2>1
<1>5. Reached >= PS_APPKEY_ADD => TargetKept
  BY <1>2, <1>3, <1>4, KeysKept DEF TargetKept
<1>6. ReportsNoStatus
  <2>1. (Responses \cup Reports) \cap ConfigStatuses = {}
    BY DEF Responses, Reports, ConfigStatuses
  <2>2. \A op \in Reports : Report(op) \in Events /\ Report(op).op \notin ConfigStatuses
    BY <2>1, ReportTypes
  <2>3. CASE DongleCommand
    BY <2>1, <2>3, CommandReports DEF ReportsNoStatus
  <2>4. CASE DongleTxComplete \/ LinkClosed
    <3>1. "TX_COMPLETE" \in Reports /\ "LINK_CLOSED" \in Reports
      BY DEF Reports
    <3>. QED  BY <2>2, <2>4, <3>1 DEF DongleTxComplete, LinkClosed, ReportsNoStatus
  <2>5. CASE Beacon
    <3>1. PICK d \in Devices : Answer(<<Event("UNPROVISIONED_RECEIVED", TRUE, 0, d)>>)
      BY <2>5 DEF Beacon
    <3>2. "UNPROVISIONED_RECEIVED" \in EventOps \ ConfigStatuses /\ d \in Devices \cup {NoDevice}
      BY DEF EventOps, Reports, ConfigStatuses
    <3>. DEFINE e == Event("UNPROVISIONED_RECEIVED", TRUE, 0, d)
    <3>3. e \in Events /\ e.op = "UNPROVISIONED_RECEIVED"
      BY <3>2, ReportTypes, ZeroInRange
    <3>. HIDE DEF e
    <3>4. Answer(<<e>>)
      BY <3>1 DEF e
    <3>. QED  BY <3>2, <3>3, <3>4 DEF ReportsNoStatus
  <2>6. CASE WriteFails
    BY <2>6 DEF WriteFails, ReportsNoStatus
  <2>. QED  BY <2>3, <2>4, <2>5, <2>6 DEF Outside
<1>. QED
  BY <1>1, <1>3, <1>5, <1>6, OutsideKeepsConfig DEF TypeOK

(* A packet reaches the node that its key stands for, if any.                  *)
LEMMA PacketIsPacket ==
  ASSUME NEW c \in Commands
  PROVE  c.op = "PACKET_SEND" =>
           /\ c \in Packets
           /\ c.msg \in ConfigMessages => c \in ConfigPackets
BY DEF Commands, PlainCommands, Packets, ConfigPackets, ConfigMessages

(* A configuration packet that the dongle sends flies to the node of the      *)
(* session.                                                                   *)
LEMMA PacketKeepsConfig ==
  ASSUME GTypeOK, GTypeOK', InTurn, Outstanding, DonglePacketSend, HostFrame
  PROVE  Outstanding'
<1>. USE DEF GTypeOK
<1>. DEFINE p == Head(toDongle)
<1>1. /\ toDongle # <<>> /\ toDongle' = Tail(toDongle) /\ UNCHANGED <<toHost, member, config, devkeys>>
      /\ p \in Commands /\ p.op = "PACKET_SEND" /\ p \in Range(toDongle) /\ p \in Packets
      /\ p.msg \in ConfigMessages => p \in ConfigPackets
  BY CommandTaken, PacketIsPacket DEF DonglePacketSend, Command, TypeOK, nodes
<1>2. \/ UNCHANGED air
      \/ /\ KnownKey(p) /\ KnownDst(p)
         /\ air' = air \cup {[dev |-> n, msg |-> p.msg, elem |-> p.elem]
                                : n \in Addressees(p)}
  BY DEF DonglePacketSend
<1>3. /\ UNCHANGED <<devkey_handle, Reached, rpc, state>> /\ (Waiting' <=> Waiting)
      /\ TargetKept
  BY <1>1, KeysKept DEF HostFrame, handles, Reached, Waiting, receiver, TargetKept
<1>4. CASE \A m \in air' : m.msg \in ConfigMessages => m \in air
  BY <1>1, <1>3, <1>4, OutsideKeepsConfig DEF ReportsNoStatus, TypeOK
<1>5. CASE ~\A m \in air' : m.msg \in ConfigMessages => m \in air
  <2>1. /\ p \in ConfigPackets /\ KnownKey(p)
        /\ \A m \in air' :
             \/ m \in air
             \/ /\ m.msg = p.msg /\ m.elem = p.elem /\ m.dev \in Addressees(p)
                /\ m = [dev |-> m.dev, msg |-> p.msg, elem |-> p.elem]
    <3>1. /\ KnownKey(p)
          /\ air' = air \cup {[dev |-> n, msg |-> p.msg, elem |-> p.elem] : n \in Addressees(p)}
      BY <1>2, <1>5
    <3>2. ASSUME NEW m \in air', m \notin air
          PROVE  /\ m.msg = p.msg /\ m.elem = p.elem /\ m.dev \in Addressees(p)
                 /\ m = [dev |-> m.dev, msg |-> p.msg, elem |-> p.elem]
      <4>. HIDE DEF p
      <4>. QED  BY <3>1, <3>2
    <3>3. p.msg \in ConfigMessages
      BY <1>5, <3>2
    <3>4. p \in ConfigPackets
      BY <1>1, <3>3
    <3>. HIDE DEF p
    <3>. QED  BY <3>1, <3>2, <3>4
  <2>2. /\ Due(p.msg) /\ p.key = devkey_handle /\ p.msg \in ConfigMessages
        /\ ConfigSent /\ ~ConfigFlying /\ ~ConfigTaken
    BY <1>1, <2>1 DEF Outstanding, DueOnly, OneAtATime, ConfigSent, ConfigPackets
  <2>3. KeyKnown(devkey_handle) /\ \A n \in Addressees(p) : n = KeyAt(devkey_handle).dev
    BY <2>1, <2>2 DEF KnownKey, Addressees, KeyOf, KeyKnown, KeyAt, ConfigMessages
  <2>4. \A m \in air' : m.msg \in ConfigMessages =>
          m = [dev |-> KeyAt(devkey_handle).dev, msg |-> p.msg, elem |-> p.elem]
          /\ m.msg = p.msg /\ m.dev = KeyAt(devkey_handle).dev
    BY <2>1, <2>2, <2>3 DEF ConfigFlying
  <2>. HIDE DEF p
  <2>5. ~ConfigSent' /\ ~ConfigTaken' /\ One(toDongle', ConfigPackets) /\ One(toHost', StatusEvents)
    BY <1>1, <2>1, <2>2, DongleOne DEF Outstanding, OneAtATime, TypeOK, ConfigTaken, p
  <2>6. OneAtATime'
    BY <2>4, <2>5 DEF OneAtATime
  <2>7. DueOnly'
    BY <1>3, <2>2, <2>4, <2>5 DEF DueOnly, Due, ConfigSent, ConfigTaken
  <2>8. Progress'
    <3>1. (KeyTaken' => KeyTaken) /\ (BindTaken' => BindTaken)
      BY <1>1, <1>3 DEF KeyTaken, BindTaken
    <3>2. \A d : Aimed(d)' <=> Aimed(d)
      BY <1>1, <1>3 DEF Aimed, KeyKnown, KeyAt
    <3>3. \A msg : Configured(msg)' <=> Configured(msg)
      BY <1>1, <3>2 DEF Configured
    <3>4. \A m \in air' : m.msg \in ConfigMessages => Aimed(m.dev)'
      BY <2>3, <2>4, <3>2 DEF Aimed
    <3>. QED  BY <3>1, <3>3, <3>4 DEF Outstanding, Progress
  <2>. QED  BY <2>6, <2>7, <2>8 DEF Outstanding
<1>. QED  BY <1>4, <1>5

(* A node that takes a message learns it, or leaves the network.               *)
LEMMA TakeEffect ==
  ASSUME GTypeOK, NEW m \in air, Take(m)
  PROVE  /\ \A d \in Devices : d # m.dev => config'[d] = config[d]
         /\ m.dev \in Devices
         /\ m.msg \in ConfigMessages =>
              UNCHANGED member /\ config'[m.dev] = config[m.dev] \cup {m.msg}
         /\ m.msg \notin ConfigMessages =>
              /\ config'[m.dev] \in {config[m.dev], {}}
              /\ (UNCHANGED member /\ UNCHANGED config) \/ member' = member \ {m.dev}
<1>1. m.dev \in Devices /\ config \in [Devices -> SUBSET ConfigMessages]
  BY DEF GTypeOK, WorldTypeOK
<1>2. m.msg \in ConfigMessages => m.msg # "NODE_RESET"
  BY DEF ConfigMessages
<1>. DEFINE new == CASE m.msg = "NODE_RESET"     -> {}
                     [] m.msg \in ConfigMessages -> config[m.dev] \cup {m.msg}
                     [] OTHER                    -> config[m.dev]
<1>3. config' = [config EXCEPT ![m.dev] = new]
  BY DEF Take
<1>4. /\ m.msg = "NODE_RESET" => new = {}
      /\ m.msg \in ConfigMessages => new = config[m.dev] \cup {m.msg}
      /\ m.msg \notin ConfigMessages /\ m.msg # "NODE_RESET" => new = config[m.dev]
  BY <1>2
<1>. HIDE DEF new
<1>5. /\ config'[m.dev] = new
      /\ \A d \in Devices : d # m.dev => config'[d] = config[d]
  BY <1>1, <1>3
<1>6. /\ m.msg = "NODE_RESET" => member' = member \ {m.dev}
      /\ m.msg # "NODE_RESET" => UNCHANGED member
  BY DEF Take
<1>7. new = config[m.dev] => UNCHANGED config
  BY <1>1, <1>3
<1>. QED  BY <1>1, <1>2, <1>4, <1>5, <1>6, <1>7

(* What flies is taken by the node that the session is about, in its turn.     *)
LEMMA FlyingIsNext ==
  ASSUME Outstanding, NEW m \in air, m.msg \in ConfigMessages, m.dev \in member
  PROVE  /\ Due(m.msg) /\ Aimed(m.dev) /\ ConfigFlying /\ ~ConfigSent /\ ~ConfigTaken
         /\ m.msg = "MODEL_APP_BIND" => "APPKEY_ADD" \in config[m.dev]
         /\ m.msg = "MODEL_PUBLICATION_SET" => "MODEL_APP_BIND" \in config[m.dev]
<1>1. Due(m.msg) /\ Aimed(m.dev) /\ ConfigFlying /\ ~ConfigSent /\ ~ConfigTaken
  BY DEF Outstanding, OneAtATime, DueOnly, Progress, ConfigFlying
<1>2. ASSUME NEW msg, Configured(msg) PROVE msg \in config[m.dev]
  BY <1>1, <1>2 DEF Configured, Aimed
<1>3. m.msg = "MODEL_APP_BIND" => Configured("APPKEY_ADD")
  BY <1>1 DEF Due, Outstanding, Progress, KeyTaken
<1>4. m.msg = "MODEL_PUBLICATION_SET" => Configured("MODEL_APP_BIND")
  BY <1>1 DEF Due, Outstanding, Progress, BindTaken
<1>. QED  BY <1>1, <1>2, <1>3, <1>4

(* The statuses are those of the configuration messages, one of each.          *)
LEMMA StatusNames ==
  ASSUME NEW msg \in PacketMessages
  PROVE  /\ StatusOf(msg) \in EventOps
         /\ StatusOf(msg) \in ConfigStatuses <=> msg \in ConfigMessages
         /\ StatusOf(msg) = "APPKEY_STATUS" <=> msg = "APPKEY_ADD"
         /\ StatusOf(msg) = "MODEL_APP_STATUS" <=> msg = "MODEL_APP_BIND"
         /\ StatusOf(msg) = "MODEL_PUBLICATION_STATUS" <=> msg = "MODEL_PUBLICATION_SET"
<1>1. StatusOf(msg) \in EventOps
  BY DEF StatusOf, EventOps, Messages
<1>. QED  BY <1>1 DEF StatusOf, ConfigStatuses, ConfigMessages, PacketMessages

(* A message reaches its node or is lost, and is answered or is not.           *)
LEMMA AirKeepsConfig ==
  ASSUME GTypeOK, GTypeOK', Outstanding, ConfigPrefix, HostFrame,
         NEW m \in air, air' = air \ {m}, UNCHANGED <<toDongle, devkeys>>,
         \/ UNCHANGED <<config, member, toHost>>
         \/ /\ m.dev \in member /\ Take(m)
            /\ \/ UNCHANGED toHost
               \/ Answer(<<Event(StatusOf(m.msg), TRUE, m.elem, NoDevice)>>)
  PROVE  Outstanding' /\ ConfigPrefix'
<1>. USE DEF GTypeOK
<1>. DEFINE e == Event(StatusOf(m.msg), TRUE, m.elem, NoDevice)
<1>0. m.msg \in PacketMessages /\ m.elem \in U16Int /\ m.dev \in Devices /\ member \subseteq Devices
      /\ config \in [Devices -> SUBSET ConfigMessages]
  BY DEF WorldTypeOK
<1>1. e \in Events /\ e.op = StatusOf(m.msg)
  <2>1. NoDevice \in Devices \cup {NoDevice}
    OBVIOUS
  <2>2. StatusOf(m.msg) \in EventOps
    BY <1>0, StatusNames
  <2>. QED  BY <1>0, <2>1, <2>2, ReportTypes
<1>2. /\ UNCHANGED <<devkey_handle, Reached, rpc, state>> /\ (Waiting' <=> Waiting)
      /\ \A d : Aimed(d)' <=> Aimed(d)
      /\ KeyKnown(devkey_handle)' <=> KeyKnown(devkey_handle)
      /\ KeyAt(devkey_handle)' = KeyAt(devkey_handle)
  BY DEF HostFrame, handles, Reached, Waiting, receiver, Aimed, KeyKnown, KeyAt
<1>. HIDE DEF e
<1>3. ConfigPrefix'
  <2>1. CASE UNCHANGED config
    BY <2>1 DEF ConfigPrefix
  <2>2. CASE Take(m) /\ m.dev \in member
    <3>1. CASE m.msg \in ConfigMessages
      <4>1. /\ config'[m.dev] = config[m.dev] \cup {m.msg}
            /\ \A d \in Devices : d # m.dev => config'[d] = config[d]
        BY <2>2, <3>1, TakeEffect
      <4>2. /\ m.msg = "MODEL_APP_BIND" => "APPKEY_ADD" \in config[m.dev]
            /\ m.msg = "MODEL_PUBLICATION_SET" => "MODEL_APP_BIND" \in config[m.dev]
        BY <2>2, <3>1, FlyingIsNext
      <4>. QED  BY <1>0, <4>1, <4>2 DEF ConfigPrefix
    <3>2. CASE m.msg \notin ConfigMessages
      <4>1. /\ config'[m.dev] \in {config[m.dev], {}}
            /\ \A d \in Devices : d # m.dev => config'[d] = config[d]
        BY <2>2, <3>2, TakeEffect
      <4>. QED  BY <1>0, <4>1 DEF ConfigPrefix
    <3>. QED  BY <3>1, <3>2
  <2>. QED  BY <2>1, <2>2
<1>4. TargetKept
  <2>1. \A d \in member' : d \in member /\ config[d] \subseteq config'[d]
    <3>1. CASE UNCHANGED <<config, member>>
      BY <3>1
    <3>2. CASE Take(m) /\ m.msg \in ConfigMessages
      BY <1>0, <3>2, TakeEffect
    <3>3. CASE Take(m) /\ m.msg \notin ConfigMessages
      <4>1. /\ \A d \in Devices : d # m.dev => config'[d] = config[d]
            /\ (UNCHANGED member /\ UNCHANGED config) \/ member' = member \ {m.dev}
        BY <3>3, TakeEffect
      <4>. QED  BY <1>0, <4>1
    <3>. QED  BY <3>1, <3>2, <3>3
  <2>. QED  BY <1>2, <2>1 DEF TargetKept
<1>5. CASE UNCHANGED toHost \/ (Answer(<<e>>) /\ m.msg \notin ConfigMessages)
  <2>1. ReportsNoStatus
    BY <1>0, <1>1, <1>5, StatusNames DEF ReportsNoStatus
  <2>. QED  BY <1>3, <1>4, <2>1, OutsideKeepsConfig DEF TypeOK
<1>6. CASE Answer(<<e>>) /\ m.msg \in ConfigMessages /\ m.dev \in member /\ Take(m)
  <2>1. /\ Due(m.msg) /\ Aimed(m.dev) /\ ConfigFlying /\ ~ConfigSent /\ ~ConfigTaken
    BY <1>6, FlyingIsNext
  <2>2. Range(toHost') = Range(toHost) \cup {e} /\ One(toHost', StatusEvents)
    BY <1>1, <1>6, <2>1, HostOne DEF Outstanding, OneAtATime, TypeOK
  <2>3. /\ ~ConfigSent' /\ ~ConfigFlying'
        /\ \A x \in Range(toHost') : x \in StatusEvents => x = e
    BY <1>6, <2>1, <2>2 DEF ConfigSent, ConfigFlying, ConfigTaken, Outstanding, OneAtATime
  <2>4. OneAtATime'
    BY <2>2, <2>3 DEF OneAtATime, Outstanding, ConfigFlying
  <2>5. DueOnly'
    <3>1. Due(m.msg)'
      BY <1>2, <2>1 DEF Due
    <3>. QED  BY <1>1, <1>6, <2>3, <3>1 DEF DueOnly, ConfigSent, ConfigFlying
  <2>6. \A op \in ConfigStatuses : Has(toHost', op) => op = StatusOf(m.msg)
    BY <1>1, <2>3, StatusHas DEF TypeOK
  <2>7. /\ KeyTaken' => KeyTaken \/ m.msg = "APPKEY_ADD"
        /\ BindTaken' => BindTaken \/ m.msg = "MODEL_APP_BIND"
    BY <1>0, <1>2, <2>6, StatusNames DEF KeyTaken, BindTaken, ConfigStatuses
  <2>8. \A msg : Configured(msg) \/ msg = m.msg => Configured(msg)'
    BY <1>0, <1>2, <1>4, <1>6, <2>1, TakeEffect DEF Configured, TargetKept
  <2>9. Progress'
    BY <2>3, <2>7, <2>8 DEF Progress, Outstanding, ConfigFlying
  <2>. QED  BY <1>3, <2>4, <2>5, <2>9 DEF Outstanding
<1>. QED  BY <1>5, <1>6 DEF e

(* Both steps of the air.                                                      *)
LEMMA NodesKeepConfig ==
  ASSUME GTypeOK, GTypeOK', InTurn, Outstanding, ConfigPrefix, NodeAnswers \/ Loss
  PROVE  Outstanding' /\ ConfigPrefix'
<1>1. HostFrame /\ UNCHANGED <<toDongle, devkeys>>
  BY DEF NodeAnswers, Loss, dongle
<1>2. CASE NodeAnswers
  <2>1. PICK m \in air :
           /\ air' = air \ {m}
           /\ IF m.dev \in member THEN Take(m) ELSE UNCHANGED <<config, member>>
           /\ Answer(IF m.dev \in member /\ Understood(m)
                     THEN <<Event(StatusOf(m.msg), TRUE, m.elem, NoDevice)>>
                     ELSE <<>>)
    BY <1>2 DEF NodeAnswers
  <2>2. Answer(<<>>) => UNCHANGED toHost
    BY DEF Answer, GTypeOK, TypeOK
  <2>3. CASE m.dev \in member /\ Understood(m)
    BY <1>1, <2>1, <2>3, AirKeepsConfig
  <2>4. CASE ~(m.dev \in member /\ Understood(m))
    <3>1. UNCHANGED toHost
      BY <2>1, <2>2, <2>4
    <3>. QED  BY <1>1, <2>1, <3>1, AirKeepsConfig
  <2>. QED  BY <2>3, <2>4
<1>3. CASE Loss
  <2>1. PICK m \in air :
           /\ air' = air \ {m}
           /\ UNCHANGED <<config, member>> \/ (m.dev \in member /\ Take(m))
    BY <1>3 DEF Loss
  <2>2. UNCHANGED toHost
    BY <1>3 DEF Loss
  <2>. QED  BY <1>1, <2>1, <2>2, AirKeepsConfig
<1>. QED  BY <1>2, <1>3

-------------------------------------------------------------------------------
(* A step of the receiver that takes at most one event, writes no              *)
(* configuration message and stays on its rung, or before the configuration.   *)
LEMMA ReceiverFrameKeeps ==
  ASSUME GTypeOK, GTypeOK', Outstanding, UNCHANGED <<air, devkeys, member, config>>,
         UNCHANGED toHost \/ (toHost # <<>> /\ toHost' = Tail(toHost)),
         UNCHANGED toDongle
           \/ \E s \in Seq(Commands) : Write(s) /\ \A c \in Range(s) : c \notin ConfigPackets,
         \/ Reached < PS_APPKEY_ADD /\ Reached' < PS_APPKEY_ADD
         \/ Reached' = Reached /\ UNCHANGED devkey_handle /\ (Waiting => Waiting'),
         rpc' = "body" =>
           state' < PS_APPKEY_ADD \/ (rpc = "body" /\ state' = state)
  PROVE  Outstanding'
<1>. USE DEF GTypeOK, TypeOK
<1>1. One(toHost', StatusEvents) /\ Range(toHost') \subseteq Range(toHost)
  <2>1. One(toHost, StatusEvents)
    BY DEF Outstanding, OneAtATime
  <2>. QED  BY <2>1, HostOne
<1>2. /\ One(toDongle', ConfigPackets)
      /\ \A c \in Range(toDongle') : c \in ConfigPackets => c \in Range(toDongle)
  <2>1. One(toDongle, ConfigPackets)
    BY DEF Outstanding, OneAtATime
  <2>2. CASE UNCHANGED toDongle
    BY <2>1, <2>2
  <2>3. ASSUME NEW s \in Seq(Commands), Write(s), \A c \in Range(s) : c \notin ConfigPackets
        PROVE  /\ One(toDongle', ConfigPackets)
               /\ \A c \in Range(toDongle') : c \in ConfigPackets => c \in Range(toDongle)
    BY <2>1, <2>3, DongleOne
  <2>. QED  BY <2>2, <2>3
<1>3. Reached \in Int /\ Reached' \in Int /\ state' \in Int
  <2>1. state \in Int /\ state' \in Int /\ job.rung \in Int /\ job'.rung \in Int
    BY DEF States
  <2>. QED  BY <2>1 DEF Reached
<1>4. UNCHANGED devkey_handle => TargetKept
  BY DEF TargetKept, KeyKnown, KeyAt
<1>5. ConfigFrame
  <2>1. Reached' >= PS_APPKEY_ADD => Reached' = Reached
    BY <1>3
  <2>2. rpc' = "body" /\ state' >= PS_APPKEY_ADD => rpc = "body" /\ state = state'
    BY <1>3
  <2>3. Reached >= PS_APPKEY_ADD => Reached' = Reached /\ (Waiting => Waiting') /\ TargetKept
    BY <1>3, <1>4
  <2>4. \A m \in air' : m.msg \in ConfigMessages => m \in air
    OBVIOUS
  <2>. QED  BY <1>1, <1>2, <2>1, <2>2, <2>3, <2>4 DEF ConfigFrame
<1>. QED  BY <1>5, ConfigFrameKeeps

(* No handler of another phase has a configuration message to do with.         *)
LEMMA EarlyKeepsConfig ==
  ASSUME GTypeOK, GTypeOK', InTurn, Outstanding,
         UNCHANGED <<air, devkeys, member, config, link, sound>>,
         \/ ProvUnprovisionedReceived \/ ProvCapsReceived \/ ProvEcdhRequest
         \/ ProvAuthRequest \/ ProvComplete \/ ProvCompleteCheck \/ ProvLinkClosed
         \/ CompositionDataStatus \/ TxComplete \/ SetState
         \/ HandleResponse \/ StoreHandle \/ SubnetResponse \/ LocalUnicastResponse
         \/ DeviceStarted \/ PrintOnly
  PROVE  Outstanding'
<1>. USE DEF GTypeOK
<1>0. state \in Int /\ state' \in Int
  BY DEF TypeOK, States
<1>1. ASSUME NEW op, NEW k \in Int, Handle(op, k), k <= PS_APPKEY_ADD PROVE Outstanding'
  <2>1. /\ toHost # <<>> /\ toHost' = Tail(toHost) /\ rpc = "idle"
        /\ UNCHANGED <<toDongle, state, devkey_handle>>
        /\ UNCHANGED receiver \/ (rpc' = "body" /\ state < PS_APPKEY_ADD)
    BY <1>0, <1>1 DEF Handle, Begin, Idle, Receive, handles
  <2>2. /\ Reached = state /\ Reached' = state'
        /\ rpc' = "body" => state < PS_APPKEY_ADD
        /\ rpc' = "body" \/ (Waiting => Waiting')
    BY <2>1 DEF Reached, Waiting, receiver
  <2>. QED  BY <1>0, <2>1, <2>2, ReceiverFrameKeeps
<1>2. CASE \/ ProvUnprovisionedReceived \/ ProvCapsReceived \/ ProvEcdhRequest
           \/ ProvAuthRequest \/ CompositionDataStatus \/ TxComplete
  BY <1>1, <1>2
  DEF ProvUnprovisionedReceived, ProvCapsReceived, ProvEcdhRequest, ProvAuthRequest,
      CompositionDataStatus, TxComplete
<1>3. CASE ProvComplete
  <2>1. /\ toHost # <<>> /\ toHost' = Tail(toHost) /\ rpc = "idle" /\ rpc' = "check"
        /\ UNCHANGED state /\ Head(toHost).op = "COMPLETE"
    BY <1>3 DEF ProvComplete, Receive
  <2>2. state = AUTH /\ Reached = state /\ Reached' = state
    <3>1. Has(toHost, "COMPLETE")
      BY <2>1, EventTaken DEF TypeOK
    <3>. QED  BY <2>1, <3>1 DEF InTurn, LinkInv, EventsInTurn, Awaits, Reached
  <2>3. \E s \in Seq(Commands) : Write(s) /\ \A c \in Range(s) : c \notin ConfigPackets
    <3>. DEFINE c == Cmd("PROV_SCAN_STOP")
    <3>1. c \in Commands /\ c \notin ConfigPackets /\ Write(<<c>>)
      BY <1>3 DEF ProvComplete, Cmd, Commands, PlainCommands, ConfigPackets
    <3>. HIDE DEF c
    <3>2. <<c>> \in Seq(Commands) /\ Range(<<c>>) = {c}
      BY <3>1, ShortRange
    <3>. QED  BY <3>1, <3>2
  <2>. QED  BY <2>1, <2>2, <2>3, ReceiverFrameKeeps
<1>4. CASE ProvCompleteCheck
  <2>1. /\ UNCHANGED <<toHost, toDongle, state>> /\ state = AUTH
        /\ rpc = "check" /\ rpc' \in {"body", "idle"}
    BY <1>4 DEF ProvCompleteCheck, InTurn, Process, StateKept
  <2>. QED  BY <2>1, ReceiverFrameKeeps DEF Reached
<1>5. CASE ProvLinkClosed
  <2>1. /\ toHost # <<>> /\ toHost' = Tail(toHost) /\ rpc = "idle" /\ UNCHANGED toDongle
        /\ Head(toHost).op = "LINK_CLOSED"
        /\ \/ state = DEVKEY_ADDRPUBADD /\ UNCHANGED state /\ rpc' = "body"
           \/ state' = STATE_NEW /\ rpc' = "idle"
    BY <1>5 DEF ProvLinkClosed, Receive, Begin, receiver
  <2>2. state <= DEVKEY_ADDRPUBADD
    <3>1. Closing
      BY <2>1, EventTaken DEF TypeOK, Closing
    <3>. QED  BY <2>1, <3>1 DEF InTurn, LinkInv, ClosedInTurn, Reached
  <2>. QED  BY <1>0, <2>1, <2>2, ReceiverFrameKeeps DEF Reached
<1>6. CASE SetState
  <2>1. /\ UNCHANGED <<toHost, toDongle, devkey_handle>>
        /\ rpc = "set" /\ rpc' = "idle" /\ Reached' = Reached
    BY <1>6 DEF SetState, Reached, handles
  <2>. QED  BY <2>1, ReceiverFrameKeeps DEF Waiting
<1>7. CASE StoreHandle
  <2>1. /\ UNCHANGED <<toHost, toDongle, state>> /\ state = DEVKEY_ADDRPUBADD
        /\ rpc = "store" /\ rpc' = "idle"
    BY <1>7 DEF StoreHandle, InTurn, Process, StateKept
  <2>. QED  BY <2>1, ReceiverFrameKeeps DEF Reached
<1>8. CASE \/ HandleResponse \/ SubnetResponse \/ LocalUnicastResponse
           \/ DeviceStarted \/ PrintOnly
  <2>1. PICK ops : Other(ops)
    BY <1>8, OthersAreOther
  <2>2. /\ toHost # <<>> /\ toHost' = Tail(toHost) /\ rpc = "idle" /\ UNCHANGED state
    BY <2>1 DEF Other, Receive
  <2>3. \E s \in Seq(Commands) : Write(s) /\ \A c \in Range(s) : c \notin ConfigPackets
    <3>1. \A c \in ConfigPackets : c.op \in AfterLink
      BY DEF ConfigPackets, AfterLink
    <3>. QED  BY <2>1, <3>1 DEF Other, Has
  <2>4. /\ UNCHANGED devkey_handle
        /\ UNCHANGED receiver \/ (rpc' = "store" /\ state = DEVKEY_ADDRPUBADD)
    BY <1>8
    DEF HandleResponse, SubnetResponse, LocalUnicastResponse, DeviceStarted, PrintOnly,
        AwaitsHandles, Idle, handles
  <2>. QED  BY <2>2, <2>3, <2>4, ReceiverFrameKeeps DEF Reached, Waiting, receiver
<1>. QED  BY <1>2, <1>3, <1>4, <1>5, <1>6, <1>7, <1>8

(* A status is taken: when it is the awaited one, nothing is outstanding until *)
(* its handler has written the next message, and its node has done its part.   *)
LEMMA StatusKeepsConfig ==
  ASSUME GTypeOK, GTypeOK', InTurn, Outstanding,
         UNCHANGED <<air, devkeys, member, config>>,
         AppkeyStatus \/ ModelAppStatus \/ PublicationStatus
  PROVE  Outstanding'
<1>. USE DEF GTypeOK, TypeOK
<1>1. /\ toHost # <<>> /\ toHost' = Tail(toHost) /\ rpc = "idle"
      /\ UNCHANGED <<toDongle, devkey_handle>> /\ Reached = state
      /\ Head(toHost) \in Events /\ Head(toHost) \in Range(toHost)
      /\ Head(toHost).op \in ConfigStatuses
  <2>1. \E op \in ConfigStatuses : Receive({op})
    BY DEF AppkeyStatus, ModelAppStatus, PublicationStatus, Handle, ConfigStatuses
  <2>2. UNCHANGED <<toDongle, devkey_handle>>
    BY DEF AppkeyStatus, ModelAppStatus, PublicationStatus, Handle, Begin, Idle, handles
  <2>. QED  BY <2>1, <2>2, EventTaken DEF Receive, Reached
<1>2. Head(toHost) \in StatusEvents
  BY <1>1 DEF Events, StatusEvents
<1>3. /\ ConfigTaken /\ ~ConfigSent /\ ~ConfigFlying /\ ~ConfigTaken'
      /\ Has(toHost, Head(toHost).op)
  <2>1. ConfigTaken /\ Has(toHost, Head(toHost).op)
    BY <1>1, <1>2 DEF ConfigTaken, Has
  <2>2. One(toHost, StatusEvents) /\ ~ConfigSent /\ ~ConfigFlying
    BY <2>1 DEF Outstanding, OneAtATime
  <2>. QED  BY <1>1, <1>2, <2>1, <2>2, HostOne
<1>4. ~ConfigSent' /\ ~ConfigFlying'
  BY <1>1, <1>3 DEF ConfigSent, ConfigFlying
<1>5. CASE UNCHANGED <<rpc, state>>
  <2>1. Reached' = Reached /\ (Waiting => Waiting')
    BY <1>1, <1>5 DEF Reached, Waiting
  <2>. QED  BY <1>1, <1>5, <2>1, ReceiverFrameKeeps
<1>6. CASE PublicationStatus /\ state' = STATE_NEW
  <2>1. UNCHANGED rpc
    BY <1>6 DEF PublicationStatus, receiver
  <2>2. NothingDue'
    BY <1>1, <1>3, <1>4, <1>6, <2>1 DEF NothingDue, Reached
  <2>3. NothingDue' => Outstanding'
    BY NothingDueKeeps, PTL
  <2>. QED  BY <2>2, <2>3
<1>7. CASE /\ UNCHANGED state /\ rpc' = "body"
           /\ \/ state = PS_APPKEY_ADD /\ Head(toHost).op = "APPKEY_STATUS"
              \/ state = PS_MODEL_APP_BIND /\ Head(toHost).op = "MODEL_APP_STATUS"
  <2>1. OneAtATime' /\ DueOnly'
    <3>1. /\ \A c \in Range(toDongle') : c \notin ConfigPackets
          /\ \A e \in Range(toHost') : e \notin StatusEvents
          /\ \A m \in air' : m.msg \notin ConfigMessages
      BY <1>3, <1>4 DEF ConfigSent, ConfigFlying, ConfigTaken
    <3>. QED  BY <1>3, <1>4, <3>1, ShortOne DEF OneAtATime, DueOnly
  <2>2. \A op \in ConfigStatuses : ~Has(toHost', op)
    BY <1>3, StatusHas DEF ConfigTaken
  <2>3. Reached' = state
    BY <1>7 DEF Reached
  <2>4. (KeyTaken' => KeyTaken) /\ (BindTaken' => BindTaken)
    BY <1>1, <1>3, <1>7, <2>2, <2>3 DEF KeyTaken, BindTaken, ConfigStatuses
  <2>5. \A msg : Configured(msg)' <=> Configured(msg)
    BY <1>1 DEF Configured, Aimed, KeyKnown, KeyAt
  <2>6. Progress'
    BY <1>4, <2>4, <2>5 DEF Outstanding, Progress, ConfigFlying
  <2>. QED  BY <2>1, <2>6 DEF Outstanding
<1>8. \/ UNCHANGED <<rpc, state>>
      \/ PublicationStatus /\ state' = STATE_NEW
      \/ /\ UNCHANGED state /\ rpc' = "body"
         /\ \/ state = PS_APPKEY_ADD /\ Head(toHost).op = "APPKEY_STATUS"
            \/ state = PS_MODEL_APP_BIND /\ Head(toHost).op = "MODEL_APP_STATUS"
  <2>1. ASSUME NEW op, NEW k \in Int, Handle(op, k)
        PROVE  \/ UNCHANGED <<rpc, state>>
               \/ UNCHANGED state /\ rpc' = "body" /\ state = k - 1 /\ Head(toHost).op = op
    BY <2>1 DEF Handle, Begin, Idle, Receive, receiver
  <2>2. CASE PublicationStatus
    BY <2>2 DEF PublicationStatus, receiver
  <2>. QED  BY <2>1, <2>2 DEF AppkeyStatus, ModelAppStatus
<1>. QED  BY <1>5, <1>6, <1>7, <1>8

(* What a rung writes: a configuration message on the last three.              *)
LEMMA RungPackets ==
  ASSUME GTypeOK, NEW k \in Rungs, NEW ev \in Events
  PROVE  /\ One(RungCommands(k, ev), ConfigPackets)
         /\ \A c \in Range(RungCommands(k, ev)) : c \in ConfigPackets =>
              /\ c.key = devkey_handle
              /\ \/ k = PS_APPKEY_ADD /\ c.msg = "APPKEY_ADD"
                 \/ k = PS_MODEL_APP_BIND /\ c.msg = "MODEL_APP_BIND"
                 \/ k = PS_MODEL_PUBLICATION_SET /\ c.msg = "MODEL_PUBLICATION_SET"
<1>1. \A c \in ConfigPackets : c.op = "PACKET_SEND" /\ c.msg \in ConfigMessages
  BY DEF ConfigPackets
<1>2. CASE k <= DEVKEY_ADDRPUBADD
  <2>1. \A c \in Range(RungCommands(k, ev)) : c \notin ConfigPackets
    <3>1. ~Has(RungCommands(k, ev), "PACKET_SEND")
      BY <1>2, RungOpcodes DEF Rungs
    <3>. QED  BY <1>1, <3>1 DEF Has
  <2>. QED  BY <2>1, ShortOne
<1>3. CASE k > DEVKEY_ADDRPUBADD
  <2>1. PICK msg, elem :
          /\ RungCommands(k, ev) = <<PacketSend(msg, devkey_handle, dst_addr_handle, elem)>>
          /\ \/ k = PS_COMPOSDATA /\ msg = "COMPOSITION_DATA_GET"
             \/ k = PS_APPKEY_ADD /\ msg = "APPKEY_ADD"
             \/ k = PS_MODEL_APP_BIND /\ msg = "MODEL_APP_BIND"
             \/ k = PS_MODEL_PUBLICATION_SET /\ msg = "MODEL_PUBLICATION_SET"
    BY <1>3, RungWrites DEF ConfigPacket, ModelPacket
  <2>. DEFINE a == PacketSend(msg, devkey_handle, dst_addr_handle, elem)
  <2>2. a.msg = msg /\ a.key = devkey_handle
    BY DEF PacketSend
  <2>3. "COMPOSITION_DATA_GET" \notin ConfigMessages
    BY DEF ConfigMessages
  <2>. HIDE DEF a
  <2>4. RungCommands(k, ev) = <<a>>
    BY <2>1 DEF a
  <2>. QED  BY <1>1, <2>1, <2>2, <2>3, <2>4, ShortOne, ShortRange
<1>. QED  BY <1>2, <1>3 DEF Rungs

(* The next message of a session is written when the one before it was taken.  *)
LEMMA BodyKeepsConfig ==
  ASSUME GTypeOK, GTypeOK', InTurn, Outstanding,
         UNCHANGED <<air, devkeys, member, config>>, Body
  PROVE  Outstanding'
<1>. USE DEF GTypeOK, TypeOK
<1>. DEFINE k == job.rung
            s == RungCommands(k, job.ev)
<1>1. /\ k \in Rungs /\ s \in Seq(Commands) /\ Write(s) /\ job.ev \in Events
      /\ rpc = "body" /\ rpc' = "set" /\ state = k - 1
      /\ UNCHANGED <<state, toHost, devkey_handle>>
      /\ Reached = k - 1 /\ Reached' = k
  <2>1. k \in Rungs /\ job.ev \in Events
    BY DEF Body
  <2>2. s \in Seq(Commands)
    BY <2>1, RungCommandsType
  <2>. QED  BY <2>1, <2>2 DEF Body, InTurn, Process, StateKept, Reached
<1>2. /\ One(s, ConfigPackets)
      /\ \A c \in Range(s) : c \in ConfigPackets =>
           /\ c.key = devkey_handle
           /\ \/ k = PS_APPKEY_ADD /\ c.msg = "APPKEY_ADD"
              \/ k = PS_MODEL_APP_BIND /\ c.msg = "MODEL_APP_BIND"
              \/ k = PS_MODEL_PUBLICATION_SET /\ c.msg = "MODEL_PUBLICATION_SET"
  BY <1>1, RungPackets
<1>. HIDE DEF s
<1>3. ~ConfigSent /\ ~ConfigFlying /\ ~ConfigTaken
  BY <1>1, DueRung DEF Outstanding, Waiting
<1>4. /\ Range(toDongle') = Range(toDongle) \cup Range(s)
      /\ One(toDongle', ConfigPackets)
  <2>1. One(toDongle, ConfigPackets)
    BY DEF Outstanding, OneAtATime
  <2>. QED  BY <1>1, <1>2, <1>3, <2>1, DongleOne
<1>5. /\ ~ConfigFlying' /\ ~ConfigTaken'
      /\ \A c \in Range(toDongle') : c \in ConfigPackets => c \in Range(s)
  BY <1>1, <1>3, <1>4 DEF ConfigFlying, ConfigTaken, ConfigSent
<1>6. OneAtATime'
  <2>1. One(toHost', StatusEvents)
    BY <1>1 DEF Outstanding, OneAtATime
  <2>. QED  BY <1>4, <1>5, <2>1 DEF OneAtATime, ConfigFlying
<1>7. DueOnly'
  <2>1. Waiting' /\ Reached' = k /\ UNCHANGED devkey_handle
    BY <1>1 DEF Waiting
  <2>. QED  BY <1>2, <1>5, <2>1 DEF DueOnly, Due, ConfigFlying, ConfigTaken
<1>8. \A op \in ConfigStatuses : ~Has(toHost, op) /\ ~Has(toHost', op)
  <2>1. \A op \in ConfigStatuses : ~Has(toHost, op)
    BY <1>3, StatusHas DEF ConfigTaken
  <2>. QED  BY <1>1, <2>1
<1>9. (KeyTaken' => KeyTaken) /\ (BindTaken' => BindTaken)
  BY <1>1, <1>8 DEF KeyTaken, BindTaken, ConfigStatuses
<1>10. \A msg : Configured(msg)' <=> Configured(msg)
  BY <1>1 DEF Configured, Aimed, KeyKnown, KeyAt
<1>11. Progress'
  BY <1>5, <1>9, <1>10 DEF Outstanding, Progress, ConfigFlying
<1>. QED  BY <1>6, <1>7, <1>11 DEF Outstanding

(* All handlers.                                                               *)
LEMMA ReceiverKeepsConfig ==
  ASSUME GTypeOK, GTypeOK', InTurn, Outstanding, UNCHANGED world, ReceiverNext
  PROVE  Outstanding'
<1>1. UNCHANGED <<air, devkeys, member, config, link, sound>>
  BY DEF world, dongle, nodes, luck
<1>2. CASE AppkeyStatus \/ ModelAppStatus \/ PublicationStatus
  BY <1>1, <1>2, StatusKeepsConfig
<1>3. CASE Body
  BY <1>1, <1>3, BodyKeepsConfig
<1>4. CASE \/ ProvUnprovisionedReceived \/ ProvCapsReceived \/ ProvEcdhRequest
           \/ ProvAuthRequest \/ ProvComplete \/ ProvCompleteCheck \/ ProvLinkClosed
           \/ CompositionDataStatus \/ TxComplete \/ SetState
           \/ HandleResponse \/ StoreHandle \/ SubnetResponse \/ LocalUnicastResponse
           \/ DeviceStarted \/ PrintOnly
  BY <1>1, <1>4, EarlyKeepsConfig
<1>. QED  BY <1>2, <1>3, <1>4 DEF ReceiverNext

-------------------------------------------------------------------------------
(* A key writes no configuration message, and resets only a session that has   *)
(* nothing outstanding.                                                        *)
LEMMA MainKeepsConfig ==
  ASSUME GTypeOK, GTypeOK', InTurn, Outstanding, PacketInHand,
         PressKey \/ CliContinue, PressKey => Quiet,
         UNCHANGED <<air, devkeys, member, config>>
  PROVE  Outstanding' /\ PacketInHand'
<1>. USE DEF GTypeOK
<1>1. /\ rpc = "idle" /\ UNCHANGED <<receiver, toHost, devkey_handle>>
      /\ \/ UNCHANGED state
         \/ /\ cpc = "new" /\ state' = STATE_NEW /\ UNCHANGED toDongle
            /\ toHost = <<>> /\ air = {}
            /\ toDongle = <<>> \/ toDongle = <<Cmd("DFU_JUMP_TO_BOOTLOADER")>>
  <2>1. PressKey => rpc = "idle"
    BY DEF Quiet
  <2>2. CliContinue => cpc # "getchar"
    BY DEF CliContinue, ResetState, FillDestination, WritePacket
  <2>3. cpc # "getchar" =>
          /\ rpc = "idle" /\ toHost = <<>> /\ air = {}
          /\ toDongle = <<>> \/ toDongle = <<Cmd("DFU_JUMP_TO_BOOTLOADER")>>
    BY DEF InTurn, Process, KeyAlone
  <2>4. rpc = "idle"
    BY <2>1, <2>2, <2>3
  <2>5. UNCHANGED <<receiver, toHost, devkey_handle>>
    BY MainWrites DEF handles
  <2>6. /\ UNCHANGED state \/ (cpc = "new" /\ state' = STATE_NEW)
        /\ cpc = "new" => UNCHANGED toDongle
    BY MainWrites
  <2>. QED  BY <2>3, <2>4, <2>5, <2>6
<1>2. Outstanding'
  <2>1. CASE UNCHANGED state
    <3>1. UNCHANGED toDongle
            \/ \E s \in Seq(Commands) : Write(s) /\ \A c \in Range(s) : c \notin ConfigPackets
      <4>1. ASSUME NEW c \in Commands, Write(<<c>>), c \notin ConfigPackets
            PROVE  \E s \in Seq(Commands) : Write(s) /\ \A x \in Range(s) : x \notin ConfigPackets
        <5>1. <<c>> \in Seq(Commands) /\ Range(<<c>>) = {c}
          BY ShortRange
        <5>. QED  BY <4>1, <5>1
      <4>2. \A c \in ConfigPackets : c.op = "PACKET_SEND" /\ c.msg \in ConfigMessages
        BY DEF ConfigPackets
      <4>3. \/ UNCHANGED toDongle
            \/ \E c \in Commands : Write(<<c>>) /\ c \notin ConfigPackets
        BY <4>2, MainWrites DEF PacketInHand
      <4>. QED  BY <4>1, <4>3
    <3>2. Reached' = Reached /\ (Waiting => Waiting') /\ rpc' = "idle"
      BY <1>1, <2>1 DEF Reached, Waiting, receiver
    <3>. QED  BY <1>1, <3>1, <3>2, ReceiverFrameKeeps
  <2>2. CASE /\ cpc = "new" /\ state' = STATE_NEW /\ UNCHANGED toDongle
             /\ toHost = <<>> /\ air = {}
             /\ toDongle = <<>> \/ toDongle = <<Cmd("DFU_JUMP_TO_BOOTLOADER")>>
    <3>1. Cmd("DFU_JUMP_TO_BOOTLOADER") \notin ConfigPackets
      BY DEF Cmd, ConfigPackets
    <3>2. \A c \in Range(toDongle) : c \notin ConfigPackets
      BY <2>2, <3>1, ShortRange
    <3>3. Range(toHost') = {} /\ air' = {} /\ toDongle' = toDongle /\ toHost' \in Seq(Events)
      BY <1>1, <2>2, ShortRange
    <3>4. Reached' = STATE_NEW
      BY <1>1, <2>2 DEF Reached, receiver
    <3>5. NothingDue'
      BY <3>2, <3>3, <3>4 DEF NothingDue, ConfigSent, ConfigFlying, ConfigTaken
    <3>6. NothingDue' => Outstanding'
      BY NothingDueKeeps, PTL
    <3>. QED  BY <3>5, <3>6
  <2>. QED  BY <1>1, <2>1, <2>2
<1>3. PacketInHand'
  <2>1. \A msg, key : PacketSend(msg, key, 0, 0).msg = msg
    BY DEF PacketSend
  <2>2. {"ONOFF_SET", "COMPOSITION_DATA_GET", "NODE_RESET"} \cap ConfigMessages = {}
    BY DEF ConfigMessages
  <2>3. CASE PressOnOff \/ PressComposition \/ PressNodeReset
    <3>1. packet'.msg \in {"ONOFF_SET", "COMPOSITION_DATA_GET", "NODE_RESET"}
      BY <2>1, <2>3 DEF PressOnOff, PressComposition, PressNodeReset, PressPacket
    <3>. QED  BY <2>2, <3>1 DEF PacketInHand
  <2>4. CASE FillDestination
    BY <2>4 DEF FillDestination, PacketInHand, TypeOK, Packets
  <2>5. CASE PressScanStart \/ PressScanStop \/ ResetState \/ WritePacket
    BY <2>5 DEF PressScanStart, PressScanStop, ResetState, WritePacket, PacketInHand, Press, cli
  <2>. QED  BY <2>3, <2>4, <2>5 DEF PressKey, CliContinue
<1>. QED  BY <1>2, <1>3

(* The first reset finds nothing outstanding.                                  *)
LEMMA ResetKeepsConfig ==
  ASSUME GTypeOK, GTypeOK', InTurn, DongleRadioReset, HostFrame
  PROVE  Outstanding' /\ UNCHANGED config
<1>1. toDongle' = <<>> /\ toDongle # <<>> /\ Head(toDongle).op = "DEVICE_RADIO_RESET"
  BY ResetProcess DEF InTurn
<1>2. ~Started
  BY <1>1 DEF Started
<1>3. toHost = <<>> /\ state = STATE_NEW /\ rpc = "idle" /\ air = {}
  BY <1>2 DEF InTurn, Process, Booting
<1>4. /\ UNCHANGED <<air, config>> /\ Answer(<<Report("DEVICE_STARTED")>>)
  BY DEF DongleRadioReset, Reboot, nodes
<1>5. Report("DEVICE_STARTED") \in Events /\ Report("DEVICE_STARTED").op = "DEVICE_STARTED"
  BY ReportTypes DEF Reports
<1>6. Range(toHost') = {Report("DEVICE_STARTED")}
  BY <1>3, <1>4, <1>5, EventsReported, ShortRange DEF GTypeOK, TypeOK
<1>7. ~ConfigTaken'
  BY <1>5, <1>6 DEF ConfigTaken, StatusEvents, ConfigStatuses
<1>8. Reached' = STATE_NEW
  BY <1>3 DEF HostFrame, receiver, Reached
<1>9. ~ConfigSent' /\ ~ConfigFlying'
  BY <1>1, <1>3, <1>4, ShortRange DEF ConfigSent, ConfigFlying
<1>10. NothingDue'
  BY <1>7, <1>8, <1>9 DEF NothingDue, GTypeOK, TypeOK
<1>11. NothingDue' => Outstanding'
  BY NothingDueKeeps, PTL
<1>. QED  BY <1>4, <1>10, <1>11

(* What is outstanding in a careful run, step by step.                         *)
LEMMA ConfigStart == ASSUME GInit PROVE ConfigInv
<1>1. /\ rpc = "idle" /\ state = STATE_NEW /\ cpc = "getchar" /\ air = {}
      /\ toHost = <<>> /\ toDongle = <<Cmd("DEVICE_RADIO_RESET")>>
      /\ config = [d \in Devices |-> {}]
  BY DEF GInit, Init
<1>2. Cmd("DEVICE_RADIO_RESET") \notin ConfigPackets
  BY DEF Cmd, ConfigPackets
<1>3. NothingDue
  BY <1>1, <1>2, ShortRange DEF NothingDue, ConfigSent, ConfigFlying, ConfigTaken, Reached
<1>. QED  BY <1>1, <1>3, NothingDueKeeps DEF ConfigInv, ConfigPrefix, PacketInHand

(* No step breaks the order of the configuration.                              *)
LEMMA ConfigStep ==
  ASSUME Careful, InTurn, ConfigInv, [GNext]_gVars, GTypeOK' PROVE ConfigInv'
<1>. USE DEF ConfigInv
<1>0. GTypeOK
  BY DEF InTurn
<1>a. UNCHANGED config => ConfigPrefix'
  BY DEF ConfigPrefix
<1>b. HostFrame \/ UNCHANGED cli => PacketInHand'
  BY DEF PacketInHand, HostFrame, cli
<1>1. CASE UNCHANGED gVars
  <2>1. /\ HostFrame /\ UNCHANGED <<toHost, toDongle, air, config, member, devkeys>>
    BY <1>1 DEF gVars, hostVars, HostFrame, world, dongle, nodes
  <2>2. UNCHANGED devkey_handle => TargetKept
    BY <2>1 DEF TargetKept, KeyKnown, KeyAt
  <2>3. Outstanding'
    BY <1>0, <2>1, <2>2, OutsideKeepsConfig DEF ReportsNoStatus, HostFrame, handles, GTypeOK, TypeOK
  <2>. QED  BY <1>a, <1>b, <2>1, <2>3
<1>2. CASE HostStep /\ ReceiverNext
  <2>1. UNCHANGED world /\ UNCHANGED config
    BY <1>2 DEF HostStep, world, nodes
  <2>2. UNCHANGED cli
    BY <1>2 DEF ReceiverNext, ProvUnprovisionedReceived, ProvCapsReceived, ProvEcdhRequest,
       ProvAuthRequest, ProvComplete, ProvCompleteCheck, ProvLinkClosed,
       CompositionDataStatus, TxComplete, AppkeyStatus, ModelAppStatus, PublicationStatus,
       Body, SetState, HandleResponse, StoreHandle, SubnetResponse, LocalUnicastResponse,
       DeviceStarted, PrintOnly, Handle
  <2>3. Outstanding'
    BY <1>0, <1>2, <2>1, ReceiverKeepsConfig
  <2>. QED  BY <1>a, <1>b, <2>1, <2>2, <2>3
<1>3. CASE (HostStep /\ CliContinue) \/ User
  <2>1. /\ UNCHANGED <<air, devkeys, member, config>>
        /\ PressKey \/ CliContinue
    BY <1>3 DEF HostStep, User, world, dongle, nodes
  <2>2. PressKey => Quiet
    <3>1. CliContinue => ~PressKey
      BY DEF PressKey, PressScanStart, PressScanStop, PressOnOff, PressComposition,
      PressNodeReset, PressPacket, Press, CliContinue, ResetState, FillDestination,
      WritePacket
    <3>. QED  BY <1>3, <3>1 DEF User, Careful
  <2>3. Outstanding' /\ PacketInHand'
    BY <1>0, <2>1, <2>2, MainKeepsConfig
  <2>. QED  BY <1>a, <2>1, <2>3
<1>4. CASE Outside
  <2>1. HostFrame
    BY <1>0, <1>4, OutsideFrame DEF InTurn
  <2>2. Outstanding' /\ ConfigPrefix'
    <3>1. CASE NodeAnswers \/ Loss
      BY <1>0, <3>1, NodesKeepConfig
    <3>2. CASE DonglePacketSend
      <4>1. UNCHANGED config
        BY <3>2 DEF DonglePacketSend, nodes
      <4>. QED  BY <1>0, <1>a, <2>1, <3>2, <4>1, PacketKeepsConfig
    <3>3. CASE ~DonglePacketSend /\ ~NodeAnswers /\ ~Loss
      BY <1>0, <1>4, <1>a, <3>3, CommandsKeepConfig
    <3>. QED  BY <3>1, <3>2, <3>3
  <2>. QED  BY <1>b, <2>1, <2>2
<1>5. CASE DongleRadioReset /\ DongleCommand
  <2>1. HostFrame
    BY <1>5 DEF DongleCommand
  <2>. QED  BY <1>0, <1>5, <1>a, <1>b, <2>1, ResetKeepsConfig
<1>6. CASE DongleRestart \/ Crash
  BY <1>6 DEF DongleRestart, Crash, Fault, Careful
<1>. QED
  BY <1>1, <1>2, <1>3, <1>4, <1>5, <1>6 DEF GNext, Outside, DongleStep, HostStep

(* The order of the configuration holds all along.                             *)
LEMMA ConfigAlways == ASSUME Careful PROVE GSpec => []ConfigInv
<1>1. GSpec => [](InTurn /\ GTypeOK)
  <2>1. InTurn => GTypeOK
    BY DEF InTurn
  <2>. QED  BY <2>1, AlwaysInTurn, PTL
<1>2. GInit => ConfigInv
  BY ConfigStart
<1>3. InTurn /\ ConfigInv /\ [GNext]_gVars /\ GTypeOK' => ConfigInv'
  BY ConfigStep
<1>. QED  BY <1>1, <1>2, <1>3, PTL DEF GSpec

(* A node binds a model only once it has the AppKey and publishes only with a  *)
(* bound model, in every run of a careful user: no answer that comes late, out *)
(* of order or not at all advances the session of another node.                *)
THEOREM NodesConfiguredInOrder == ASSUME Careful PROVE GSpec => []ConfiguredInOrder
<1>1. GTypeOK /\ ConfigInv => ConfiguredInOrder
  BY DEF ConfigInv, ConfigPrefix, ConfiguredInOrder, GTypeOK, WorldTypeOK
<1>2. GSpec => []GTypeOK
  BY GatewayTypeCorrect
<1>. QED  BY <1>1, <1>2, ConfigAlways, PTL
===============================================================================
