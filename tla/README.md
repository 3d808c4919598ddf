# BleGW0: a TLA+ model of the BLE mesh provisioning gateway

BleGW0 is a small C program that provisions devices into a Bluetooth mesh. It
talks over a serial port to a dongle that runs Nordic's mesh serial firmware:
it writes commands and reacts to events. This directory models the program, the
byte stream it reads, the dongle and nodes around it, and the elliptic curve
computations, checks the models with TLC and proves the core properties of the
process, of the whole network, of the receiver of the byte stream and of the
arithmetic with TLAPS.

## The system

| component | code | state | operations |
|---|---|---|---|
| event handlers (receiver thread) | `source/ble/ble_cli.c` 183-579 | `unprovisioner` (state and handles), `localParser.cmd` | one handler per event, response and mesh message |
| command writers | `source/ble/ble_serial.c` | `dev_addr` | one function per command, all end in `ble_write` |
| keyboard loop (main thread) | `source/ble/main.c` | shares `unprovisioner` | keys `1` scan, `2` stop, `3` `4` on/off, `5` composition, `r` node reset |
| serial receiver and parser | `ble_cli.c` 101-181, 581-624 | `localParser`, the read buffer | `read`, `ble_handle_cmd`, `ble_parser` |
| startup | `main.c` 11-26, `ble_cli.c` 68-99, `ble_serial.c` 33-94 | the file descriptor, in `ble_start`'s frame | open the port, reset the radio, sleep, start the thread, return |
| event printing | `ble_evt_print.c` | none | formats events |
| elliptic curves | `source/ecdh/*` | locals of one call | `uECC_shared_secret` for a session; `uECC_compute_public_key`, `uECC_make_key`, `uECC_valid_public_key` |
| dongle, nodes | not in the repository | keys, addresses, link, configuration | described by `ble_cmd.h`, `ble_evt.h`, `doc/` |

**How they interact.** The main thread writes the radio reset, starts the
receiver thread, and then reacts to keys. The receiver thread polls the port,
cuts the byte stream into frames and hands each to `ble_processCommand`. A
handler tests `unprovisioner.state`, writes the next command, and stores the
next state. So one session climbs a ladder of nine rungs, each waiting for one
event of the dongle:

    NEW -beacon-> PROVISION -CAPS-> OOBUSE -ECDH_REQUEST-> ECDH -AUTH_REQUEST-> AUTH
     -COMPLETE-> DEVKEY_ADDRPUBADD -LINK_CLOSED-> PS_COMPOSDATA
     -TX_COMPLETE or COMPOSITION_DATA_STATUS-> PS_APPKEY_ADD -APPKEY_STATUS->
    PS_MODEL_APP_BIND -MODEL_APP_STATUS-> PS_MODEL_PUBLICATION_SET
     -PUBLICATION_STATUS-> NEW

In between, DEVICE_STARTED sets the dongle up (local address, subnet, two
application keys), and the responses to DEVKEY_ADD and ADDR_PUBLICATION_ADD
bring the handles that the session's messages use.

**What is hard.** Two threads share `unprovisioner` without a lock. Events come
in any order, late, or from another session. Provisioning links break, mesh
messages get lost, the dongle rejects commands or reboots, writes fail, the
process is killed and run again, and the code has no timer and almost no failure
path. Handles and the address counter are kept across sessions but not across
runs of the process. The port cuts the byte stream anywhere and brings noise when
the dongle restarts. The receiver thread takes its descriptor out of a stack
frame that may be gone. `PROJECT.json`,
"hazards", has each with its line and with the properties that cover it.

**What makes each part correct.** The handlers: no command is sent twice or out
of order, the process waits only for answers to what it sent, handles of
different nodes are not mixed, a session never hangs with its link open. The
writers: no address is given twice; a device joins the network with a fresh
address and keeps it. The parser: every frame is delivered once
and in order. The startup: the thread reads the port that was opened, and each
reboot of the dongle ends with its keys installed if the commands for it are
written. The curve: a call that reports success has the right multiple of the
point, and every call ends.

## Modules

| module | models | abstract specification |
|---|---|---|
| `Ladder` | the promise about the order of commands | - |
| `Host` | the process: both threads, handlers, writers; open environment | `Ladder` |
| `Host_proofs` | theorems about `Host` | - |
| `Membership` | the promise about who is a node and under which address | - |
| `Gateway` | `Host` with a dongle, nodes, faults and a user | `Membership` |
| `MCGateway` | symmetry for the two safety runs of `Gateway` | - |
| `Gateway_proofs` | types, `Host`'s theorems carried over, addresses, the refinement of `Membership` | - |
| `Sessions_proofs` | the order of a session under a careful user | - |
| `Handles_proofs` | the handles of different nodes are not mixed, and every session comes to its end | - |
| `FrameFifo` | the promise of the receiver to the handlers | - |
| `SerialLink` | the byte level: reads, noise filter, parser | - |
| `Startup` | `SerialLink` with the two threads that bring it up | `FrameFifo` |
| `SerialLink_proofs` | theorems about `SerialLink` and `Startup` | - |
| `ModInv` | modular addition, subtraction, halving, and the loop of the inverse | - |
| `VliWords` | the loops over words and bytes behind the numbers | - |
| `VliWords_proofs` | theorems about `VliWords` | - |
| `Ecdh` | the curve operations and the calls, with `ModInv` and `VliWords` | multiples by repeated addition |
| `Ecdh_proofs` | theorems about `ModInv` and `Ecdh` | - |
| `Naturals_proofs` | induction over an interval, division with remainder: what the others rest on | - |

### Host

The variables are the fields of `unprovisioner` (`unicast` is never used),
`dev_addr`, a control point per thread, the event that the receiver holds
(`job`, the part of `localParser.cmd` that is used), the packet that the main
thread fills, and the two directions of the serial port. `done` is a history
variable: how often each rung was taken.

Every case of the three `switch` statements is an action, and every key is one.
Cases that only print share `PrintOnly`. Events carry what a handler uses: a
success flag, a handle or an address, and a device that stands for its UUID and
its device key. Mesh message opcodes are names; the decoding of the one- and
two-byte opcodes in lines 502-528 is part of `Messages`.

*Atomicity.* The two threads run without a lock, so a handler is cut where it
touches what the other thread touches: it tests the state (`Handle`), then
writes its commands and stores (`Body`), then sets the state (`SetState`);
handle responses are cut between test and store. The main thread is cut
between the scan command and the state reset, and between the reads of the two
handles of a packet. Cuts that nothing could observe are left out. Two
consecutive writes of one handler (DEVKEY_ADD and ADDR_PUBLICATION_ADD, the two
APPKEY_ADD) are one step; a byte sequence of one `ble_write` is one `write()`
and is never interleaved. Handlers that end in `state = NEW` test and store in
one step, since the only value that the main thread ever stores is NEW too.
COMPLETE writes the scan-stop before it tests the state, and that is a step of
its own. In SUBNET_ADD's handler the state test and the store of
`subnet_handle` are one step: the only write of the main thread that could come
between makes the test true, so both outcomes are those of an earlier or later
reset. Fields are byte- or halfword-sized and aligned, so an access is atomic.

### Gateway

The dongle takes one command at a time off the port and answers as `ble_cmd.h`
and `ble_evt.h` describe and as the sessions in `doc/` record. It has one
provisioning context, one subnet, two application keys, and lists of device
keys and publication addresses whose positions are the handles; a handle has 16
bits, and a list that is full refuses. A node takes a
message only if the device key it was sent with is its own, and answers it;
messages arrive in any order. Responses that the process only prints are left
out. All of this is marked external in `PROJECT.json`: it is what the process
is checked against, not something the repository defines.

Constants choose what the instance may do:

* `Faults`: provisioning links break (`"drop"`, which also stands for the
  firmware's link timeout), mesh messages or answers get lost (`"loss"`), the
  dongle refuses a key or an address (`"reject"`), the link closes before the
  last commands are answered (`"early"`), the dongle reboots (`"restart"`), a
  write to the port fails and the handler goes on (`"write"`: every caller of
  `ble_write` but `ble_radioReset` ignores its result; the lost command is seen
  to be gone when its turn comes), the process is killed and run again
  (`"crash"`: it starts from 0x001a, what it had not read is discarded, what it
  had written still reaches the dongle).
* `Patient`: the user presses a key only when nothing is going on (`Quiet`): both
  threads wait, nothing is in the serial port or in the air, no link is open and
  the scanner is off. Whether the dongle has been set up makes no difference,
  as it makes none to the keyboard loop.
* `Prompt`: the main thread resets the state before the dongle reacts to the
  scan command. The code does not guarantee it (run `late_reset`).
* `ScanOpcodes`: the commands on which the firmware starts scanning.
  `ble_scanStart` writes 0xD0, `DFU_JUMP_TO_BOOTLOADER`, and not the documented
  `PROV_SCAN_START` (run `scan_opcode`). All other runs assume a firmware that
  scans on what the program sends; otherwise no session would ever begin.

Three history variables say which promises still stand: `sound` is FALSE from a
fault for which the code has no path until the next key `1`; `killed` is TRUE once
the process was killed, and with it its address counter lost; `unset` is TRUE from
a command of the dongle's set-up that was not written until the dongle boots
again. `Started` keeps the reader
of keys and the receiver quiet until the dongle has taken the reset, as the sleep
in `ble_start` does.

### SerialLink and Startup

`stream` is what the dongle sends, `line` its bytes, among which a restarting
dongle may put one zero of noise. `Read` takes any number of
the bytes, up to the buffer's size, and drops a read of a single zero byte; the
four `Parse...` actions are the branches of `ble_parser`'s loop. A length byte
of 0 makes the remaining size negative, and `memcpy` takes it for a huge
`size_t`: `ParseDataNegative` ends in `crashed`. A frame without data is only
noticed when another byte arrives, and so is the last frame of a stream never
empty here; the events that the program handles all have data.

`Startup` has the main thread from `open` to the loop, each step of which may
fail and end the process, and the receiver's first statement: it takes the
descriptor from `ble_start`'s frame (`local`), which may be in use again once
`ble_start` has returned (`Reuse`). A descriptor from reused memory is taken to
bring nothing; what a read from a foreign one brings is not modelled.

### Ecdh, ModInv, VliWords

A call is a sequence of steps: the regularized key, the first doubling, one
step per iteration of the ladder in `EccPoint_mult`, one per iteration of
`uECC_vli_modInv`, and the final addition. `uECC_make_key` draws a number, takes
it modulo the order (`uECC_vli_mmod`), and draws again if the public key is zero,
which bounds the tries. `uECC_compute_public_key` refuses a key out of range.
`uECC_valid_public_key` is an operator; `ResultIsMultiple` says that it accepts
every key that a call returns with success. Nothing else runs meanwhile, so the
point operations are operators; the shared variables of the in-place C code
(`t1`..`t7`) become names for the values they hold.

*Numbers.* Eight words are one integer below `Top` in `Ecdh` and `ModInv`, with
the wrap-around and the carry or borrow of the code. `VliWords` has the loops
over words. `WordsAgree` ties the two: on every pair of numbers that a call meets
the loops and the integers give the same. The two use different word sizes for
the same range: mmod_fast is written for eight words and so has `Base` = 2,
while a column of eight products of one-bit words does not fit the accumulators of
`uECC_vli_mult`, so the loops have four words of two bits. What a word, a byte or
a bit counts for is in a table (`Powers`), since the provers have no facts about `^`.

*Curve.* The modulus W^8 - W^7 + W^6 + W^3 - 1 is secp256r1's with W for 2^32;
with W = 2 it is the prime 199, and the nine sums of mmod_fast are the code's,
word for word. The curve y^2 = x^3 - 3x + 188 has the prime order 181, so that,
as for secp256r1, n needs all bits of `Top` (which regularize_k relies on) and
every point generates the group; `CurveAssumption`, which the run evaluates, says
what the proofs take from this. Public keys of peers are points of the curve:
G's, one of x = 106, and, which secp256r1 has too, one of x = 0. Private keys of
`uECC_shared_secret` are in 1..n-1; `uECC_compute_public_key` gets any number.
No RNG is set anywhere in the program, so the initial z is 1 and `uECC_make_key`
returns 0 at once; since the files are a library, each call also has the choice of
an RNG that gives one of `Randoms` or fails.

*Reference.* `Multiple` adds a point to itself by the textbook formulas of the
group, with the point at infinity, which the code does not have.

## Runs

| run | question | states |
|---|---|---|
| `host` | Is the process's own bookkeeping right under any events, with a wrapping counter? | 3.9 M |
| `gateway_faults` | Are handles, keys, addresses and the order of configuration right with up to two faults of five kinds? | 2.4 M |
| `gateway_recovery` | Does every scan of a dongle that is set up configure a device, and a booted dongle get its keys, around any one fault? | 0.2 M |
| `gateway_storm` | Are addresses unique and fresh, and is a handle stored only for its own session, with an impatient user, broken links and reboots? | 3.6 M |
| `serial_link` | From the start of the process, does the parser deliver the stream as it was sent? | 1.0 M |
| `ecdh` | Is a point multiplication right for every key, is a key pair only made of a good key, and does every call end? | 39 k |
| `deaf_start`, `lone_zero`, `scan_opcode`, `late_reset`, `devkey_owner`, `element` | disagreements of the code and the documents, see below | - |

**Properties.** `PendingWasSent` relates the two threads: whatever the key `1`
overwrites, and whenever, a rung that is waited for was sent. `LadderSpec` is
the refinement of `Ladder`. Both count over all sessions.
`NeverStuck`, `LinkServed` and `EveryScanConfigures` say that sessions end well,
`HandlesPaired`, `DevkeyHasItsOwner` and `ConfiguredInOrder` that data of
different nodes or sessions is not mixed, `UniqueAddresses` that addresses stay
unique, `AlwaysInstalled` that setup is repeated after each reboot. `StoresItsOwn`
is about an impatient user: a handle response that is late, because another
session has begun meanwhile, is not stored, and one that is stored stands for the
address that this session is about.
`MembershipSpec` is the refinement of `Membership`: a device that joins gets an
address above every one that was given before, also to devices that have left,
and no fault makes a node change its address; the promise ends where a killed
process loses its counter (`killed`), and not with a failed write. `FifoSpec`
is the refinement of `FrameFifo`, and `AlignedUntilDrop` accounts for every
byte that was read and is not noise. `LadderHoldsMultiples` is the loop invariant of
`EccPoint_mult`: both registers are consecutive multiples with the same z, which
is nowhere stored. `ResultIsMultiple` says when a call succeeds, and with what:
it fails exactly for the keys 0, 1, n - 2 and n - 1, for which the ladder meets the
point at infinity at its last bit, for a point with x = 0, whose z cannot be found, and
for a key out of range. It then returns 0 with the result (0, 0); the program's
caller does not look (`ble_serial.c:178`). `BezoutKept` and `ProductHalves`
make `uECC_vli_modInv` end with what `InverseFound` says, the inverse of its input.

**Bounds.** `MaxProvisions` bounds beacons, `MaxQueue` how full the serial
queues may be when the user presses a key or a beacon is reported, `MaxPresses` and
`MaxFaults` keys and faults. Two sessions with two devices are what it takes to
mix data of two nodes, a third session what it takes to meet a device again
after a fault. Two faults let one hit the recovery from another
(`gateway_faults`); under liveness one fault at any moment is explored
(`gateway_recovery`). `host` uses U16 = 28 and FirstAddr = 26, so that the second
session already wraps. In `serial_link` frames of up to three data bytes, three frames of
eleven bytes together (`MaxBytes`) and a buffer of five bytes are enough for
every cut: inside the length, the opcode and the data, data in three reads, at a
frame's end, and a read with the end of one frame and the start of another; the
longest frame just fills the buffer, as 254 bytes and the two before them do in the
program. The bytes 0 and
2 are the zero that the filter may take, and a byte that is also a good length.
The devices are interchangeable, so `gateway_faults` and `gateway_storm`, which
check safety only, explore states that differ in a renaming of them once.
Deadlock is not checked where the system really stops: a user who presses no
more keys, a stream that ends. `ecdh` has every key of its curve with every
point named above; it checks deadlock, and each call can return, so none stops
halfway. `Randoms` are numbers that come out modulo n as the keys 0, 1 and n - 1,
which must not leave, and as two ordinary keys; two tries let the second decide.

**Fairness.** The two threads of the process are always runnable (one polls,
the other blocks only at `getchar`), hence weak fairness of `HostStep`. The
dongle serves its port and its radio, devices that are not provisioned beacon
all the time, nodes answer, and a finished link is closed: weak fairness of
each. Nothing is assumed of the user, and no fault ever has to happen. In
`Startup` both threads run, the receiver polls for ever and the bytes of the
stream all arrive; that a frame of the stack is reused is never promised. `Ecdh`
needs none: its steps are those of one thread, and that its loops end follows from `ProductHalves` (the product of two positive numbers cannot be
halved for ever), from the count of bits, and from the absence of deadlock.

**Assumptions of the positive runs.** `gateway_faults` and `gateway_recovery`
have a patient user, a prompt main thread and a firmware that scans on 0xD0.
With an impatient user sessions do hang and owners are mixed up (`devkey_owner`).
After a lost message, a rejected or a lost command the code leaves the session
where it is until the next key `1`. `gateway_storm` has none of these
assumptions except the scan opcode.

**A dongle that is not set up.** The local address, the subnet and the two
application keys are sent in one chain, which only DEVICE_STARTED begins
(`ble_cli.c:532`). If one of these commands is not written, the chain ends
there and nothing repeats it before the next reboot of the dongle. A `1` pressed
then still starts a session: the device becomes a node, but without a subnet the
dongle refuses its DEVKEY_ADD, the composition request goes to a key handle that does not exist
and the session stays in PS_COMPOSDATA, after the next `1` again. The same happens
when a process that is run again reads a beacon from before its reset took
effect ahead of DEVICE_STARTED: the session has then begun when SUBNET_ADD is
answered, `subnet_handle` is not stored (`ble_cli.c:209`) and the application keys
are added to a subnet 0 that the dongle may not have. The code has no way out of
either, so `HandlesPaired`, `NeverStuck` and `EveryScanConfigures` are premised on
`Installed`, a dongle with its subnet and both application keys. The user of the
model presses keys all the same, so the sessions of a dongle that is not set up
are explored, and the other properties hold of them too. `AlwaysInstalled` says
that the two cases are the only ones: a dongle is set up again and again
unless a set-up command was not written since it booted (`unset`) or a process
run again has the wrong subnet handle (`NeverLearns`).

## Disagreements found

1. `scan_opcode`: `1` writes 0xD0 (`ble_serial.c:128`); the documents and the
   header say 0x61.
2. `late_reset`: `main.c:35-36` sends the scan command before it resets the
   state; a beacon in between starts a session that the reset then forgets
   while its link is open.
3. `devkey_owner`: `ble_serial.c:256` registers a device key under the counter's
   value, which may have moved on since the device got its address.
4. `element`: `ble_serial.c:339` and `:420` name the element 0x001a whatever the
   node's address is; the first node has 0x001b.
5. `lone_zero`: `ble_cli.c:606` takes a zero byte that is read alone for noise;
   if it was part of a frame, the stream is misread from there on.
6. `deaf_start`: `ble_cli.c:89` hands the thread the address of a local variable;
   a thread that first runs after `ble_start` has returned may take another
   descriptor, and the process that has reported its start hears nothing.

Two more that no run shows: keys `3` and `4` send with `subnet_handle` in place
of an application key handle (`ble_serial.c:353`, `:373`; both handles are 0 in
the recorded sessions), and TX_COMPLETE of any packet advances a session from
PS_COMPOSDATA, where `doc/Note.md:129-135` only describes the composition data
status.

## Proofs

`Host_proofs` proves for every modulus above 26, every set of devices, values
and keys and all bounds:

* `TypeCorrect`: `Spec => []TypeOK`, by one lemma for each of the receiver, the
  main thread and the environment, with a step for every action.
* `WaitsForWhatItSent`: `Spec => []PendingWasSent`. `PendingWasSent` alone is
  inductive together with `TypeOK` once it is stated over the pair of state
  variable and control point (`Pending`): in the middle of a handler the rung
  that is pending is told by the control point, not by `state`, which is what
  makes the property survive the reset by the main thread. A step either leaves
  `done` alone and makes nothing new pending (`PendingKept`, used for all but
  one action), or it is `Body`, which counts the rung it takes (`BodyPending`).
* `ClimbsTheLadder`: `Spec => LadderSpec`. Only `Body` changes `done`
  (`OnlyBodyCounts`), and by `PendingWasSent` its step is a `Take` of the
  abstract ladder.

The assumption is `HostAssumption`, which `host` evaluates.

`SerialLink_proofs` proves for every stream of frames of any length up to the
data field's, any size of the read buffer, any place of the noise and any cuts:

* `ParserTypes`, `ParserAligned` of the receiver alone (`Spec`) and
  `ReceiverTypes`, `ReceiverStaysAligned` of the whole process (`StartupSpec`):
  `[]TypeOK` and `[]AlignedUntilDrop`. The counts of `AlignedUntilDrop` are not
  inductive; `InStep` is, which says that what is in the parser, the buffer and on the
  line is, byte for byte, the rest of the stream after the frames delivered, so
  that every branch of `ble_parser` knows which byte it looks at. It holds until
  `Misread`, the moment the noise filter takes a byte of a frame or passes noise on.
* `FramesInOrder`: the process implements `FrameFifo` but for its fairness. A
  frame is only delivered by `ParseDataComplete`, and by `InStep` it is the next
  one of the stream; noise and deafness are never undone (`NoiseStays`).

`FlattenSeq`, which turns frames into bytes, is a recursive function; its
recursion is obtained from the library's theorem on inductive definitions, and
induction goes over sets of indices (`IntervalInductive`), which needs no
operator as a parameter.

`Ecdh_proofs` first proves for every odd modulus p below every even `Top`, so for
secp256r1 too, about `InversionSpec`:

* `InversionReduced`: `[]RegistersReduced`. It is inductive. Halving an odd u
  may carry, and the carry put back as the highest bit gives exactly
  (u + p) / 2, which is below p again.
* `InversionBezout`: `[]BezoutKept`. What a branch does to u is half of it
  modulo p; since p is odd, two numbers whose doubles agree modulo p agree
  (`CancelTwo`), and the doubles of both sides are equal by the invariant before
  the step.
* `InversionIsInverse`: `[]InverseFound`, for a prime p. No iteration brings in a
  new common divisor (`DivisorsKept`), so where a and b meet, a divides p and the
  input and can only be 1; there `BezoutKept` says u * input = 1 modulo p.
* `InversionProgress`: `ProductHalves`, from `RegistersReduced`.

Its assumption `ModInvAssumption` is evaluated by `ecdh`.

`VliWords_proofs` proves for every size of a word and of a byte and every number of
words that the accumulators of a product can hold (`VliWordsAssumption`, which
`ecdh` evaluates) that each loop of `VliWords` computes what its name says:
`AddWordsIsSum`, `SubWordsIsDifference`, `CmpConstantTimeIsOrder`,
`CmpUnsafeIsOrder`, `ShiftRightWordsIsHalf`, `MultWordsIsProduct`,
`MmodWordsIsRemainder`, `NativeToBytesAreDigits`, `BytesToNativeIsInverse`. Each
rests on a loop invariant in terms of the number that the words so far hold. For
the product it is that the three words hold what the columns so far leave over,
and that a column, of at most as many products as a word has values, fits them
(`ColumnSumIsSum`); for the remainder it is that the rest is below twice the
shifted modulus, which therefore is subtracted at most once in a round.

`Ecdh_proofs` also proves for every word size, order and generator (`EcdhAssumption`):

* `MmodFastIsRemainder`: the nine sums of `vli_mmod_fast_secp256r1` are the product
  modulo p. Each of the upper eight powers of the base is congruent to a
  combination of the lower eight (`UpperPowers`), from the shape of the modulus
  alone (`ModulusShape`); the coefficients are those of the nine sums.
* `LoopsAgree` and `CallsAgreeWithWords` (`[]WordsAgree`): the loops over words and
  the integers of `Ecdh` agree on all numbers, so in every state of a call.
* `RegularizeAddsOrder`: the scalar of the ladder is the key plus once or twice the
  order, always with the same highest bit.
* `CallsReduced` (`[]TypeOK`): every coordinate stays reduced. The invariant `CallOK`
  adds that registers are 0 outside of an inversion and how the tries are counted.
* `CallsKeepBezout`, `CallsInvert`, `CallsHalve`: `BezoutKept`, `InverseFound` and
  `ProductHalves` within the calls; a 0, which has no inverse, included.

and, from `CurveAssumption` too, which says that p is prime, that the order n is
odd and that `Plus`, the textbook addition, is associative on the curve (`ecdh`
evaluates it on its curve; for secp256r1 these are the known facts about it), about
every key, every point and every z to start from:

* `AddMultiples`, `AddCMultiples`, `DoubleMultiples`: `XYcZ_add`, `XYcZ_addC` and
  `XYcZ_initial_double` compute sums, differences and the double of multiples of a
  point, with one new z that is not 0. What the code computes from remainders is
  the remainder of what its formula computes from integers (`CodeAdds` and the
  lemmas after it), so each formula is an identity of polynomials
  (`AddFormula`, `AddCFormula`, `DoubleFormula`), in which the quotient of the chord
  or the tangent is any s with s * d = e modulo p, and the z never appears in the code.
  Two multiples have the same x only if they are equal or opposite (`MultiplesDiffer`),
  and no multiple has y = 0, as the order is odd.
* `InfinityIsLate`: of the prefixes of a scalar that `regularize_k` makes only the
  one before the last bit can be next to the point at infinity, and only for the
  keys 0, 1, n - 2 and n - 1: it is n - 1 or n then, and with two more bits behind
  it the scalar would come to about 4 n, but k + 2 n is below 3 n.
* `CallsHoldMultiples` (`[]LadderHoldsMultiples`) and `CallsGiveMultiple`
  (`[]ResultIsMultiple`). The loop invariant is not inductive and says nothing of what
  comes after the loop. `Multiplies` adds that the scalar belongs to the key
  (`CallKnown`), what an exceptional key leaves in the registers (`BrokenDown`: one
  point is zero, the other a point on the cusp y^2 = x^3, from which the last
  sums are zero; such a pair of points stands for no multiple), and that the number to invert is the
  common z, the difference of two x and P's own coordinates multiplied together
  (`InvertKnown`), so that its inverse gives the z of the final points
  (`FinalPoints`). That the inverse is right is `CallsInvert`, and that an inverse
  of nothing stays 0 is `ZeroKept`: this is why a call that broke down returns 0
  and not a wrong point. TLC has checked each part of `Multiplies` on the curve of `ecdh`.

`Gateway_proofs` proves about the whole system, for any finite set of devices, any
modulus, any choice of faults and all bounds, from `HostAssumption`
and `GatewayAssumption`, which every `gateway` run evaluates:

* `GatewayTypeCorrect`: `GSpec => []GTypeOK`. The lemmas of `Host_proofs` are about
  actions and give the half of the process; each command of the dongle has a
  case of its own. An open link always has a device (`WorldTypeOK`), without
  which `DongleAuthData` could not be typed.
* `SystemWaitsForWhatItSent`, `SystemClimbsTheLadder`: `PendingWasSent` and
  `LadderSpec` hold of `GSpec` too. The world never touches the state, and a
  process that is run again waits for nothing, so no rung is pending
  (`WorldPending`).
* `AddressesUnique`: `GSpec => [](~killed /\ Unwrapped => UniqueAddresses)`, failed
  writes included.
  Uniqueness is not inductive: it needs to know that an address that is still
  in a queue is fresh. The invariant `Conveyed` orders all the addresses on their
  way: those of nodes are below that of the open link, which is below those of
  the PROVISION commands in the serial port, which rise in the order of the
  queue up to `dev_addr`. The first rung appends above the top (`AskKeeps`), the
  dongle takes from the front (`ProvisionKeeps`), a link that completes makes
  its address a node's (`AuthDataKeeps`), and everything else either writes other
  commands (`QuietKeeps`) or takes, drops or forgets (`PassiveKeeps`). TLC has
  checked `Conveyed` on the instances of `gateway_faults` and, with one key, of
  `gateway_storm`.
* `KeepsMembership`: `GSpec /\ []Unwrapped => MembershipSpec`, from the same
  invariant and from `ForStrangers`: a link is only ever open for a device that
  is no node, which holds even after a crash.

`Unwrapped` says that the counter has not passed its 16 bits: from there on the
code starts at 0 and does give addresses again, after more than 65,000 sessions.

`Sessions_proofs` and `Handles_proofs` prove the invariants that only a careful user
gets, again for any devices, keys and bounds. `Careful` is the setting of
`gateway_faults`: a key is pressed while nothing is going on (`Patient`), the state
is reset before the dongle can react to '1' (`Prompt`), and nothing restarts in
the middle of a session. Without it the invariants are false: the runs
`devkey_owner` and `late_reset` show how. Broken links, lost messages, refused
commands, early answers and failed writes are all allowed.

* `OpenLinkIsServed`: `[]LinkServed`. What is inductive is `InTurn`: the types, what
  the two threads and the start-up leave alone (`Process`), and `LinkInv`, which says for
  each phase of the link and each rung what may be on its way in either direction
  and in which order (`HostOrder`, `DongleOrder`), and, in a session that no fault
  has hit (`Live`), what must be. A step of the dongle that ends a link reports it
  behind everything else, and the handler of the report is what lets the next
  session begin.
* `DevkeyGetsItsOwner`: `[]DevkeyHasItsOwner`, with `AddrsOK`: the address that is on
  its way, in the link or of the device that COMPLETE names is `dev_addr`.
* `NodesConfiguredInOrder`: `[]ConfiguredInOrder`, with `ConfigInv`: at most one of a
  configuration message, its flight and its answer exists, and it is the one that
  the rung waits for (`Outstanding`); nodes take the messages in order
  (`ConfigPrefix`); and the user's packets are none of them (`PacketInHand`).
* `HandlesOfOneNode`: `[](Roomy => HandlesPaired)`, with `HandInv`: from COMPLETE to the
  second handle response each of the two handles is on its way or already stands
  for the new node (`HandlesOK`), before and after they are of one node, or a scan
  is on that brings a new one; the main thread reads both at one moment
  (`KeysKeepUp`); and the subnet handle is the one the dongle gave out (`Installing`).
  `HandInv` is kept while the dongle is set up. That is enough, because a patient user
  starts a session only when the set-up has come to its end, whichever
  (`SetupOver`, a part of `Installing`), so `Installed` does not change while a
  session is on (`InstalledBefore`).
  `Roomy` says that the dongle has a handle of 16 bits left for another key and
  address. That one of the opcodes which start the scanner is the one that '1'
  writes is an assumption too, as the run `scan_opcode` explains.
* `SessionsEnd`: `[](Roomy => NeverStuck)`, from all of the invariants above and
  `Carried`. For the handshake `LinkInv` already says what carries a session on;
  after the handles it is `CarriedOn`: the composition request, its transmission
  or TX_COMPLETE, and then the configuration message, its flight or its answer
  is on its way. A message that flies is answered, since its node is a member
  from COMPLETE on (`MemberInv`) and has the key it was sent with (`HandlesOK`), and
  since no NODE_RESET is on its way while a session is on (`ResetAlone`). So a
  process with nothing on its way is on no rung (`RestsWhenEmpty`). The same
  fact is used inside the induction: the main thread finds the session over
  when it fills a packet, a NODE_RESET included (`MainCarries`).

TLC has checked each of these invariants on the instance of `gateway_faults` (4.9
million states without symmetry).

*Only model-checked.* Every invariant and every action property that a run checks
is a theorem, but for `StoresItsOwn`. Liveness (`EveryScanConfigures`, `AlwaysInstalled`, the fairness part of
`FifoSpec`) is beyond the provers, and so is the group law of the curve, whose
associativity is a long calculation with rational functions: it is assumed
(`CurveAssumption`) and checked on the curve of `ecdh`.

## Not modelled

* Event printing (`ble_evt_print.c`): it formats and changes no state.
* The headers of the Nordic SDK: opcodes are names, byte layouts of payloads are
  abstracted, and so is a response that is shorter than its fields.
* The terminal settings, but for what they make `read` do; key material.
* What a descriptor taken from reused memory reads.
* The erasing of temporaries in the elliptic curve code, and its constant timing.
* `ble_AddrSubcriptionAdd`, which has no caller.

## What is left

1. That `Roomy` holds within the bounds of `GatewayAssumption`: a count of the keys
   that are still on their way, over both directions of the serial port.
2. A dongle with more than one provisioning context or subnet: the code never
   uses one, so it would only widen the environment.
