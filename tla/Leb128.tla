------------------------------- MODULE Leb128 --------------------------------
(***************************************************************************)
(* readULEB128() and readSLEB128() of raise.c.  A byte is a number below    *)
(* 256, a 64-bit value the set of its one bits: TLC's integers would        *)
(* overflow where C's int does.                                             *)
(***************************************************************************)
EXTENDS Integers, SequencesExt

Word64 == 0..63
Word32 == 0..31

Bits(n)      == {k \in 0..7 : (n \div 2^k) % 2 = 1}
Payload(n)   == Bits(n) \ {7}
LastByte(n)  == n < 128

\* The values of bit sets that are small enough for an integer of TLC.
Num(bits)    == MapThenSumSet(LAMBDA k : 2^k, bits)
SignedNum(bits) == IF 63 \in bits THEN 0 - Num(Word64 \ bits) - 1 ELSE Num(bits)

\* bits << shift on an int: the processor takes the count modulo 32, and the
\* result is sign-extended as it is combined with a uintptr_t.
IntShift(bits, shift) ==
  LET moved == {k + (shift % 32) : k \in bits} \cap Word32
  IN  IF 31 \in moved THEN moved \cup (32..63) ELSE moved

\* The bytes of the number that starts at position p, and where it ends.
LebLength(mem, p) == Min({n \in 1..(Len(mem) - p + 1) : LastByte(mem[p + n - 1])})

\* Negative control: eight bits per byte instead of seven.
Accumulate_Eights(mem, p, n) ==
  UNION {IntShift(Payload(mem[p + k]), 8 * k) : k \in 0..(n - 1)}

\* result |= (byte & 0x7f) << shift, for n bytes.
Accumulate(mem, p, n) ==
  UNION {IntShift(Payload(mem[p + k]), 7 * k) : k \in 0..(n - 1)}

readULEB128(mem, p) ==
  LET n == LebLength(mem, p) IN [value |-> Accumulate(mem, p, n), next |-> p + n]

\* Negative control: the sign is taken from bit 7, which no last byte has.
SignBit_Seven == 7

SignBit == 6

\* result |= ~0 << shift, if the last byte's sign bit is set and shift < 64.
readSLEB128(mem, p) ==
  LET n     == LebLength(mem, p)
      shift == 7 * n
      sign  == IF SignBit \in Bits(mem[p + n - 1]) /\ shift < 64
               THEN IntShift(Word32, shift)
               ELSE {}
  IN  [value |-> Accumulate(mem, p, n) \cup sign, next |-> p + n]

\* Encodings of numbers from -64 to 8191.
EncodeULEB128(n) == IF n < 128 THEN <<n>> ELSE <<128 + (n % 128), n \div 128>>
EncodeSLEB128(n) ==
  IF n < 0 THEN <<128 + n>> ELSE IF n < 64 THEN <<n>> ELSE <<128 + (n % 128), n \div 128>>

-----------------------------------------------------------------------------
(* The bytes of a number arrive one by one.                                *)

CONSTANTS
  MaxBytes,    \* bound: bytes of one number
  SomeBytes    \* the bytes it is made of

ASSUME Leb128Assumption == MaxBytes \in Nat /\ SomeBytes \subseteq 0..255

VARIABLE bytes

leb128Vars == <<bytes>>
Leb128Init == bytes = <<>>

NextByte ==
  /\ Len(bytes) < MaxBytes
  /\ \A k \in 1..Len(bytes) : ~LastByte(bytes[k])
  /\ \E b \in SomeBytes : bytes' = Append(bytes, b)

Leb128Spec == Leb128Init /\ [][NextByte]_leb128Vars

-----------------------------------------------------------------------------
\* What DWARF says the bytes mean.
Unsigned ==
  UNION {{k + 7 * (j - 1) : k \in Payload(bytes[j])} : j \in 1..Len(bytes)}
Signed ==
  LET n == Len(bytes)
  IN  IF 6 \in Payload(bytes[n]) THEN Unsigned \cup ((7 * n)..63) ELSE Unsigned

Whole == bytes # <<>> /\ LastByte(bytes[Len(bytes)])

\* A number below 2^31 is decoded exactly, however many bytes encode it, and the
\* int in readULEB128() loses every other one below 2^63.
UnsignedExact ==
  Whole /\ Unsigned \subseteq 0..62 =>
    (readULEB128(bytes, 1).value = Unsigned <=> Unsigned \subseteq 0..30)

\* The same of the signed numbers from -2^27 up to 2^31: the shift that extends
\* the sign wraps from the fifth byte on.
SignedExact ==
  Whole /\ (IF 63 \in Signed THEN Len(bytes) <= 4 ELSE Signed \subseteq 0..30) =>
    readSLEB128(bytes, 1).value = Signed
=============================================================================
