------------------------------ MODULE WsFrame ------------------------------
(***************************************************************************)
(* The header of a WebSocket frame: encodeFrame() writes it, channelRead() *)
(* of WebSocketCodec takes it apart.  A byte is a number below 256; the    *)
(* masking key is four bytes behind the header.  HttpStream has what       *)
(* happens to whole frames.                                                *)
(***************************************************************************)
EXTENDS Integers, Sequences

Opcodes == {0, 1, 2, 8, 9, 10}
Lengths == {n \in Nat : n < 4294967296 * 4294967296}   \* size_t

Low(n) == n % 256
High(n) == n \div 256

\* The two first bytes: a flag and seven bits.
Flagged(flag, bits) == (IF flag THEN 128 ELSE 0) + bits

\* The eight bytes of a length, the highest first.
EightBytes(n) ==
  LET n1 == High(n)  n2 == High(n1)  n3 == High(n2)  n4 == High(n3)
      n5 == High(n4)  n6 == High(n5)  n7 == High(n6)
  IN <<Low(n7), Low(n6), Low(n5), Low(n4), Low(n3), Low(n2), Low(n1), Low(n)>>

EncodeHeader(fin, opcode, mask, n) ==
  LET b0 == Flagged(fin, opcode)
      e == EightBytes(n)
  IN IF n < 126 THEN <<b0, Flagged(mask, n)>>
     ELSE IF n <= 65535 THEN <<b0, Flagged(mask, 126), Low(High(n)), Low(n)>>
     ELSE <<b0, Flagged(mask, 127), e[1], e[2], e[3], e[4], e[5], e[6], e[7], e[8]>>

\* The bytes that must be there before the length is known.
LengthKnownAt(raw) ==
  IF Len(raw) < 2 THEN 2
  ELSE IF raw[2] % 128 = 126 THEN 4 ELSE IF raw[2] % 128 = 127 THEN 10 ELSE 2

\* (payloadLen << 8) | byte
Join(acc, byte) == acc * 256 + byte

PayloadLen(raw) ==
  IF raw[2] % 128 = 126 THEN Join(raw[3], raw[4])
  ELSE IF raw[2] % 128 = 127
  THEN Join(Join(Join(Join(Join(Join(Join(raw[3], raw[4]), raw[5]), raw[6]), raw[7]), raw[8]), raw[9]), raw[10])
  ELSE raw[2] % 128

DecodeHeader(raw) ==
  [fin |-> raw[1] >= 128, opcode |-> raw[1] % 16, mask |-> raw[2] >= 128, length |-> PayloadLen(raw),
   headerLen |-> LengthKnownAt(raw) + (IF raw[2] >= 128 THEN 4 ELSE 0)]

============================================================================
