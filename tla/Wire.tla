---------------------------------- MODULE Wire ----------------------------------
(***************************************************************************)
(* The way of a pad: sampled from keys and mouse (main.ts),                *)
(* committed (lockstep.ts), packed into a block of bytes and a datagram of *)
(* the newest blocks (datagram.ts), sent as bytes or as hex through the    *)
(* signal server, read back by the other peer and handed to the engine     *)
(* (port_api.c, move.c).  The sender hands its own engine the pad itself,  *)
(* every other peer one that went over the wire; an engine that is given   *)
(* another value has diverged.                                             *)
(*                                                                         *)
(* A 32-bit word is a pair of halves <<high, low>>; a signed one has a     *)
(* signed high half.  A datagram is its block count and the bytes of its   *)
(* blocks.                                                                 *)
(***************************************************************************)
EXTENDS Integers, Sequences, FiniteSets

CONSTANTS
  Inputs,     \* what is held in a slice: sets of actions
  Travel,     \* mouse travel between two slices, in tenths of a degree
  Crcs,       \* checksums a tick may leave, as unsigned words
  Redundancy, \* INPUT_REDUNDANCY
  Delay,      \* delayTicks
  MaxSlices   \* ticks that are committed (bound)

Half == 65536
Words == (0 .. Half - 1) \X (0 .. Half - 1)
Bytes == {n \in Nat : n < 256}

(* The delay and the number of blocks have a byte each, a tick has a word.  *)
ASSUME WireAssumption ==
  /\ Travel \subseteq Int
  /\ Crcs \subseteq Words
  /\ Redundancy \in Bytes \ {0}
  /\ Delay \in Bytes
  /\ MaxSlices \in Nat /\ MaxSlices < 32767 * Half

VARIABLES
  mouse,   \* lookYawAcc and lookPitchAcc, already in degrees
  crc,     \* lastCrc
  history, \* the blocks that are resent, newest first
  ring,    \* own pads by tick, as submitted
  air,     \* the last datagram sent
  theirs   \* what the other peer has submitted, by tick

wireVars == <<mouse, crc, history, ring, air, theirs>>

Signed8(b) == IF b >= 128 THEN b - 256 ELSE b
Least(a, b) == IF a < b THEN a ELSE b
Clamp(v, lo, hi) == IF v < lo THEN lo ELSE IF v > hi THEN hi ELSE v

Magic == <<18737, 20034>>  \* INPUT_MAGIC, 0x49314e42
Word(n) == <<n \div Half, n % Half>>
Unsigned(w) == <<w[1] % Half, w[2]>>
Value(w) == Half * w[1] + w[2]
Bit == [fire |-> 8192, use |-> 32768, lookUp |-> 8, lookDown |-> 4, pointer |-> 32, run |-> 16]

-------------------------------------------------------------------------------
(* stickPad(): opposite keys cancel. *)
StickPad(keys) ==
  [y |-> (IF "down" \in keys THEN 70 ELSE 0) - (IF "up" \in keys THEN 70 ELSE 0),
   x |-> (IF "right" \in keys THEN 70 ELSE 0) - (IF "left" \in keys THEN 70 ELSE 0)]

\* Mutant: only a turn to the left is bounded.
QuantizeHalf(q) == IF q < -127 THEN -127 ELSE q

(* quantizeLookDeg() *)
Quantize(q) == Clamp(q, -127, 127)

(* padP1Move() and consumeMouseLook() *)
BitOf(held, k) == IF k \in held THEN Bit[k] ELSE 0
ButtonBits(held) ==
  BitOf(held, "fire") + BitOf(held, "use") + BitOf(held, "lookUp") + BitOf(held, "lookDown")
    + BitOf(held, "pointer") + BitOf(held, "run")
Sampled(held) ==
  [x |-> StickPad(held).x, y |-> StickPad(held).y, buttons |-> ButtonBits(held),
   lookYaw |-> Quantize(mouse[1]), lookPitch |-> Quantize(-mouse[2])]

-------------------------------------------------------------------------------
(* wr32() and rd32(): the bytes of a word, lowest first; read back, the     *)
(* high half is signed.                                                     *)
Wr32(w) == <<w[2] % 256, w[2] \div 256, (w[1] % Half) % 256, (w[1] % Half) \div 256>>
Rd32(b) == LET high == b[3] + 256 * b[4]
           IN  <<IF high >= 32768 THEN high - Half ELSE high, b[1] + 256 * b[2]>>

\* Mutant: the sign bit of a checksum is not taken off.
DecodeSigned(b) ==
  [tick |-> Value(Unsigned(Rd32(SubSeq(b, 5, 8)))), seat |-> b[9], nseats |-> b[10], delay |-> b[11],
   pad |-> [x |-> Signed8(b[13]), y |-> Signed8(b[14]), buttons |-> b[15] + 256 * b[16],
            lookYaw |-> Signed8(b[21]), lookPitch |-> Signed8(b[22])],
   simCrc |-> Rd32(SubSeq(b, 17, 20))]

(* encodeInputBlock(): the byte array takes every number modulo 256. *)
EncodeInputBlock(k) ==
  Wr32(Magic) \o Wr32(Word(k.tick)) \o <<k.seat % 256, k.nseats % 256, k.delay % 256, 0>>
  \o <<k.pad.x % 256, k.pad.y % 256, k.pad.buttons % 256, (k.pad.buttons \div 256) % 256>>
  \o Wr32(k.simCrc) \o <<k.pad.lookYaw % 256, k.pad.lookPitch % 256, 0, 0>>

(* decodeInputBlock() of a block with the magic *)
DecodeInputBlock(b) ==
  [tick |-> Value(Unsigned(Rd32(SubSeq(b, 5, 8)))), seat |-> b[9], nseats |-> b[10], delay |-> b[11],
   pad |-> [x |-> Signed8(b[13]), y |-> Signed8(b[14]), buttons |-> b[15] + 256 * b[16],
            lookYaw |-> Signed8(b[21]), lookPitch |-> Signed8(b[22])],
   simCrc |-> Unsigned(Rd32(SubSeq(b, 17, 20)))]

(* encodeInputDatagram() *)
EncodeInputDatagram(blocks) ==
  LET n == Least(Redundancy, Len(blocks))
  IN  [count |-> n,
       bytes |-> [j \in 1 .. 24 * n |-> EncodeInputBlock(blocks[((j - 1) \div 24) + 1])[((j - 1) % 24) + 1]]]

(* decodeInputDatagram(): a count out of bounds spoils the datagram, a      *)
(* missing magic only its block; the blocks by their place.                 *)
DecodeInputDatagram(d) ==
  LET At(i) == SubSeq(d.bytes, 24 * (i - 1) + 1, 24 * i)
      whole == {i \in 1 .. d.count : Rd32(SubSeq(At(i), 1, 4)) = Magic}
  IN  IF d.count \notin 1 .. Redundancy THEN <<>>
      ELSE [i \in whole |-> DecodeInputBlock(At(i))]

(* hexBytes() and bytesFromHex(): two digits a byte. *)
HexBytes(s) == [i \in 1 .. 2 * Len(s) |->
                  IF i % 2 = 1 THEN s[(i + 1) \div 2] \div 16 ELSE s[i \div 2] % 16]
BytesFromHex(h) == [i \in 1 .. Len(h) \div 2 |-> 16 * h[2 * i - 1] + h[2 * i]]

-------------------------------------------------------------------------------
(* port_api_set_pad() and port_set_look_delta() after it: the stick is      *)
(* clamped to a signed byte; a look of nothing is not set but was zeroed.   *)
EnginePad(pad) ==
  [x |-> Clamp(pad.x, -128, 127), y |-> Clamp(pad.y, -128, 127), buttons |-> pad.buttons % 65536,
   yaw |-> Clamp(pad.lookYaw, -127, 127), pitch |-> Clamp(pad.lookPitch, -127, 127)]

(* submit() of each block: the first pad of a tick stays. *)
Submitted(all, blocks) ==
  LET Of(t) == {i \in DOMAIN blocks : blocks[i].tick = t}
      First(t) == CHOOSE i \in Of(t) : \A k \in Of(t) : i <= k
  IN  [t \in DOMAIN all \cup {blocks[i].tick : i \in DOMAIN blocks} |->
         IF t \in DOMAIN all THEN all[t] ELSE blocks[First(t)]]

Ticks == Cardinality(DOMAIN ring)
Block(tick, pad, c) ==
  [tick |-> tick, seat |-> 0, nseats |-> 2, delay |-> Delay, pad |-> pad, simCrc |-> c]
Idle == [x |-> 0, y |-> 0, buttons |-> 0, lookYaw |-> 0, lookPitch |-> 0]

(* start(): the first ticks have no input and are sent all the same. *)
WireInit ==
  /\ mouse = <<0, 0>> /\ crc = Word(0)
  /\ history = [i \in 1 .. Delay |-> Block(Delay - i, Idle, Word(0))]
  /\ ring = [t \in 0 .. Delay - 1 |-> Block(t, Idle, Word(0))]
  /\ theirs = <<>>
  /\ air = [count |-> 0, bytes |-> <<>>]

(* mousemove *)
MoveMouse ==
  /\ Ticks < MaxSlices /\ mouse = <<0, 0>>
  /\ \E d \in Travel : mouse' = <<mouse[1] + d, mouse[2] - d>>
  /\ UNCHANGED <<crc, history, ring, air, theirs>>

(* A slice that runs a tick: commitLocal(), pushHistory() and a datagram.  *)
CommitSlice ==
  /\ Ticks < MaxSlices
  /\ \E input \in Inputs, c \in Crcs :
       LET block == Block(Ticks, Sampled(input), crc)
           sent == <<block>> \o history
       IN  /\ ring' = Submitted(ring, <<block>>)
           /\ history' = SubSeq(sent, 1, Least(Redundancy, Len(sent)))
           /\ air' = EncodeInputDatagram(history')
           /\ crc' = c
  /\ mouse' = <<0, 0>>
  /\ UNCHANGED theirs

(* onInp or onRelay; other datagrams may have been lost. *)
ReceiveDatagram ==
  /\ \E relayed \in BOOLEAN :
       LET d == IF relayed THEN [air EXCEPT !.bytes = BytesFromHex(HexBytes(@))] ELSE air
       IN  theirs' = Submitted(theirs, DecodeInputDatagram(d))
  /\ UNCHANGED <<mouse, crc, history, ring, air>>

WireNext == MoveMouse \/ CommitSlice \/ ReceiveDatagram
WireSpec == WireInit /\ [][WireNext]_wireVars

-------------------------------------------------------------------------------
(* The other peer's engine is given what the own engine is given, with the  *)
(* checksum the sender had.                                                 *)
SamePads ==
  \A t \in DOMAIN theirs :
    /\ t \in DOMAIN ring
    /\ EnginePad(theirs[t].pad) = EnginePad(ring[t].pad)
    /\ theirs[t].simCrc = ring[t].simCrc

(* A datagram brings every block its sender has put into it. *)
WholeDatagram ==
  LET got == DecodeInputDatagram(air)
  IN  air.count > 0 => {got[i].tick : i \in DOMAIN got} = {history[i].tick : i \in DOMAIN history}
===============================================================================
