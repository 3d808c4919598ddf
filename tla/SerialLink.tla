------------------------------ MODULE SerialLink ------------------------------
(* The byte level of the receiver thread: ble_receive_handle reads whatever    *)
(* the port holds, ble_handle_cmd feeds the bytes to the parser ble_parser     *)
(* and hands every finished frame to ble_processCommand.  A frame is a length  *)
(* byte (opcode and data), an opcode and the data.  The port is polled, so the *)
(* dongle's stream may be cut anywhere; a read of one zero byte is dropped as  *)
(* the noise of a restarting dongle.  Module Startup adds how the thread that  *)
(* reads comes to its descriptor.                                              *)
EXTENDS Integers, Sequences, SequencesExt

CONSTANTS
  Opcodes, Bytes,  \* values of an opcode and of a data byte
  MaxData,         \* bound: data bytes of a frame (254 in the program)
  MaxFrames,       \* bound: frames in the stream
  MaxBytes,        \* bound: bytes in the stream
  BufSize          \* size of the read buffer (256 in the program)

ASSUME SerialAssumption ==
  /\ Opcodes \subseteq 0 .. 255 /\ Bytes \subseteq 0 .. 255
  /\ MaxData \in 0 .. 254 /\ MaxFrames \in Nat /\ MaxBytes \in Nat
  /\ BufSize \in Nat \ {0}

VARIABLES
  stream,       \* the frames the dongle sends
  line,         \* their bytes, and perhaps one of noise
  noise,        \* where in the line there is noise
  taken,        \* how many of the bytes were read
  buf,          \* bytes of the last read that are not parsed yet
  pstate,       \* localParser.state
  len,          \* localParser.cmd.len: data bytes of the frame
  opcode,       \* localParser.cmd.opcode
  data,         \* the first localParser.pos bytes of localParser.cmd.data
  delivered,    \* frames handed to ble_processCommand
  dropped,      \* history: the noise filter took a byte of a frame
  passed,       \* history: it let a byte of noise through to the parser
  crashed       \* memcpy was called with a negative size

parser == <<pstate, len, opcode, data>>
wire   == <<stream, line, noise>>
vars   == <<wire, taken, buf, parser, delivered, dropped, passed, crashed>>

Frames == UNION {[op : Opcodes, data : [1 .. n -> Bytes]] : n \in 0 .. MaxData}
Encode(f)  == <<1 + Len(f.data), f.op>> \o f.data
Wire(fs) == FlattenSeq([i \in DOMAIN fs |-> Encode(fs[i])])

(* A frame without data is only noticed when the next byte arrives, so the     *)
(* stream ends with a frame that has data.                                     *)
Streams == {fs \in UNION {[1 .. n -> Frames] : n \in 1 .. MaxFrames} :
              fs[Len(fs)].data # <<>> /\ Len(Wire(fs)) <= MaxBytes}

(* A dongle that restarts after its first k frames sends a zero byte.          *)
Line(k, zero) ==
  LET before == Wire(SubSeq(stream, 1, k))
  IN /\ line = before \o zero \o Wire(SubSeq(stream, k + 1, Len(stream)))
     /\ noise = {Len(before) + i : i \in DOMAIN zero}

Init ==
  /\ stream \in Streams
  /\ \E k \in 0 .. Len(stream) - 1, zero \in {<<>>, <<0>>} : Line(k, zero)
  /\ taken = 0 /\ buf = <<>>
  /\ pstate = "LEN" /\ len = 0 /\ opcode = 0 /\ data = <<>>
  /\ delivered = <<>>
  /\ dropped = FALSE /\ passed = FALSE /\ crashed = FALSE

-------------------------------------------------------------------------------
Chunk(n) == SubSeq(line, taken + 1, taken + n)
LoneZero(s) == s = <<0>>

Read ==
  /\ ~crashed /\ buf = <<>>
  /\ \E n \in 1 .. BufSize :
       /\ taken + n <= Len(line)
       /\ buf' = IF LoneZero(Chunk(n)) THEN <<>> ELSE Chunk(n)
       /\ LET noisy == noise \cap (taken + 1 .. taken + n) # {} IN
          /\ dropped' = (dropped \/ (LoneZero(Chunk(n)) /\ ~noisy))
          /\ passed' = (passed \/ (~LoneZero(Chunk(n)) /\ noisy))
       /\ taken' = taken + n
  /\ UNCHANGED <<wire, parser, delivered, crashed>>

(* One iteration of the parser's loop, which runs while bytes are left.        *)
Parsing(s) == ~crashed /\ buf # <<>> /\ pstate = s

(* Mutant: the length counts one byte too few.                                 *)
ParseLenShort ==
  /\ Parsing("LEN")
  /\ len' = Head(buf) - 2 /\ data' = <<>>
  /\ pstate' = "OPCODE"
  /\ buf' = Tail(buf)
  /\ UNCHANGED <<wire, taken, opcode, delivered, dropped, passed, crashed>>

ParseLen ==
  /\ Parsing("LEN")
  /\ len' = Head(buf) - 1 /\ data' = <<>>
  /\ pstate' = "OPCODE"
  /\ buf' = Tail(buf)
  /\ UNCHANGED <<wire, taken, opcode, delivered, dropped, passed, crashed>>

ParseOpcode ==
  /\ Parsing("OPCODE")
  /\ opcode' = Head(buf)
  /\ pstate' = "DATA"
  /\ buf' = Tail(buf)
  /\ UNCHANGED <<wire, taken, len, data, delivered, dropped, passed, crashed>>

rsize == len - Len(data)

(* Mutant: what follows a finished frame in the same read is thrown away.      *)
ParseDataOnly ==
  /\ Parsing("DATA") /\ rsize >= 0 /\ Len(buf) >= rsize
  /\ data' = data \o SubSeq(buf, 1, rsize)
  /\ buf' = <<>>
  /\ pstate' = "LEN"
  /\ delivered' = Append(delivered, [op |-> opcode, data |-> data'])
  /\ UNCHANGED <<wire, taken, len, opcode, dropped, passed, crashed>>

ParseDataComplete ==
  /\ Parsing("DATA") /\ rsize >= 0 /\ Len(buf) >= rsize
  /\ data' = data \o SubSeq(buf, 1, rsize)
  /\ buf' = SubSeq(buf, rsize + 1, Len(buf))
  /\ pstate' = "LEN"
  /\ delivered' = Append(delivered, [op |-> opcode, data |-> data'])
  /\ UNCHANGED <<wire, taken, len, opcode, dropped, passed, crashed>>

(* Mutant: the position in the frame is forgotten between reads.               *)
ParseDataRestart ==
  /\ Parsing("DATA") /\ Len(buf) < rsize
  /\ data' = buf
  /\ buf' = <<>>
  /\ UNCHANGED <<wire, taken, pstate, len, opcode, delivered, dropped, passed, crashed>>

ParseDataPartial ==
  /\ Parsing("DATA") /\ Len(buf) < rsize
  /\ data' = data \o buf
  /\ buf' = <<>>
  /\ UNCHANGED <<wire, taken, pstate, len, opcode, delivered, dropped, passed, crashed>>

(* A length byte of 0 makes rsize -1: memcpy is called with the largest size_t.*)
ParseDataNegative ==
  /\ Parsing("DATA") /\ rsize < 0
  /\ crashed' = TRUE
  /\ UNCHANGED <<wire, taken, buf, parser, delivered, dropped, passed>>

Next == \/ Read \/ ParseLen \/ ParseOpcode
        \/ ParseDataComplete \/ ParseDataPartial \/ ParseDataNegative

(* The receiver thread polls for ever and the dongle sends all its bytes.      *)
Spec == Init /\ [][Next]_vars /\ WF_vars(Next)

-------------------------------------------------------------------------------
(* Types of the receiver's variables.                                          *)
TypeOK ==
  /\ taken \in 0 .. Len(line) /\ buf \in Seq(0 .. 255) /\ Len(buf) <= BufSize
  /\ pstate \in {"LEN", "OPCODE", "DATA"}
  /\ len \in -1 .. 254 /\ opcode \in 0 .. 255
  /\ data \in Seq(0 .. 255) /\ Len(data) <= 254
  /\ dropped \in BOOLEAN /\ passed \in BOOLEAN /\ crashed \in BOOLEAN

(* What the parser has consumed of the frame it is in.                         *)
Partial == CASE pstate = "LEN"    -> <<>>
             [] pstate = "OPCODE" -> <<len + 1>>
             [] pstate = "DATA"   -> <<len + 1, opcode>> \o data

(* No byte is lost, invented or counted to the wrong frame: the bytes of the   *)
(* frames read so far are those of the delivered frames, of the frame in hand  *)
(* and of the buffer, wherever the reads cut the stream.                       *)
FrameBytes == FlattenSeq([i \in 1 .. taken |-> IF i \in noise THEN <<>> ELSE <<line[i]>>])
Aligned == Wire(delivered) \o Partial \o buf = FrameBytes

(* A misread length, and with it the negative memcpy, can only follow a byte   *)
(* of a frame that the filter took or a byte of noise that it let through;     *)
(* until then the reads may be cut anywhere.                                   *)
Misread == dropped \/ passed
AlignedUntilDrop == ~Misread => Aligned /\ ~crashed

(* The frames delivered are the first ones that were sent: what the filter     *)
(* drops is never part of a frame.                                             *)
FramesAsSent == ~passed => IsPrefix(delivered, stream)
===============================================================================
