------------------------------ MODULE KissBytes ------------------------------
(***************************************************************************)
(* The bytes of the KISS protocol as the serial line tools share them, the *)
(* table of the checksum of mkiss, and the two ends outside those tools:   *)
(* how a TNC or the kernel's KISS driver writes a frame, and what it takes *)
(* for one when it reads.                                                  *)
(***************************************************************************)
EXTENDS Naturals, SequencesExt

FEND  == 192
FESC  == 219
TFEND == 220
TFESC == 221

Stuffed(b) == CASE b = FEND -> <<FESC, TFEND>>
                [] b = FESC -> <<FESC, TFESC>>
                [] OTHER -> <<b>>

StuffAll(f) == FlattenSeq([i \in DOMAIN f |-> Stuffed(f[i])])

\* A frame on the line, opened and closed by a FEND.
KissFrame(f) == <<FEND>> \o StuffAll(f) \o <<FEND>>

\* Exclusive or of two bytes, and of two words.
XorByte(x, y) ==
  LET bit(p) == IF (x \div p) % 2 = (y \div p) % 2 THEN 0 ELSE p
  IN  bit(1) + bit(2) + bit(4) + bit(8) + bit(16) + bit(32) + bit(64) + bit(128)
ExclusiveOr(x, y) ==
  IF x < 256 /\ y < 256 THEN XorByte(x, y)
  ELSE 256 * XorByte(x \div 256, y \div 256) + XorByte(x % 256, y % 256)

\* The table of the Flexnet CRC: each byte through eight rounds of the polynomial.
init_crc ==
  LET Round(s) == [acc |-> IF (s.data + s.acc) % 2 = 1 THEN ExclusiveOr(s.acc \div 2, 33800)
                           ELSE s.acc \div 2,
                   data |-> s.data \div 2]
      after[i \in 0..255, n \in 0..8] ==
        IF n = 0 THEN [acc |-> 65535, data |-> i] ELSE Round(after[i, n - 1])
  IN  [i \in 0..255 |-> after[i, 8].acc]

\* A stream cut at each FEND: the pieces that were closed, empty ones left
\* out, and the one still open.
Pieces(stream) ==
  LET end(s, b) ==
        IF b # FEND THEN [s EXCEPT !.open = Append(@, b)]
        ELSE [open |-> <<>>,
              closed |-> IF s.open = <<>> THEN s.closed ELSE Append(s.closed, s.open)]
      upto[n \in 0..Len(stream)] ==
        IF n = 0 THEN [open |-> <<>>, closed |-> <<>>] ELSE end(upto[n - 1], stream[n])
  IN  upto[Len(stream)]

\* A piece without its escapes: a wrong one leaves the byte behind it.
Unstuffed(piece) ==
  LET out(n) == CASE piece[n] = FESC -> <<>>
                  [] n > 1 /\ piece[n - 1] = FESC /\ piece[n] = TFEND -> <<FEND>>
                  [] n > 1 /\ piece[n - 1] = FESC /\ piece[n] = TFESC -> <<FESC>>
                  [] OTHER -> <<piece[n]>>
  IN  FlattenSeq([n \in DOMAIN piece |-> out(n)])

\* The frames a reader finds in a stream.
KissRead(stream) ==
  LET closed == Pieces(stream).closed
  IN  [i \in DOMAIN closed |-> Unstuffed(closed[i])]
=============================================================================
