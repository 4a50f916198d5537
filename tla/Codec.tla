-------------------------------- MODULE Codec --------------------------------
(***************************************************************************)
(* How values get into and out of the payload of a packet: MAXPacket's     *)
(* setPosition and getPosition, and the two uses MAXPeer makes of them for *)
(* the elements of a frame.  A byte is the set of its bits that are one, so*)
(* | is \union and & is \intersect.  Positions and sizes are the numbers   *)
(* of the device descriptions times ten: 11.1 (byte 11, bit 1) is 111, a   *)
(* size of 0.6 (six bits) is 6 and of 1.1 (a byte and a bit) is 11.  The   *)
(* payload begins at position 9; the header before it is not modelled.     *)
(***************************************************************************)
EXTENDS Integers, Sequences

Bits == 0..7
Byte == SUBSET Bits

Shl(b, n) == {i \in Bits : i - n \in b}
Shr(b, n) == {i \in Bits : i + n \in b}
BitMask(n) == IF n = 0 THEN Bits ELSE {i \in Bits : i < n}     \* _bitmask

ByteOf(index) == (index - 90) \div 10 + 1
BitOf(index) == index % 10
Bytes(size) == (size + 9) \div 10
Partial(index, size) == BitOf(index) # 0 \/ size < 8

\* The payload p with at least n bytes, and with the bytes of data ored into
\* it from byte k on.
Pad(p, n) == [i \in 1..(IF Len(p) < n THEN n ELSE Len(p)) |-> IF i <= Len(p) THEN p[i] ELSE {}]
OrAt(p, k, data) ==
    [i \in DOMAIN p |-> p[i] \union IF i - k + 1 \in DOMAIN data THEN data[i - k + 1] ELSE {}]

-----------------------------------------------------------------------------
\* Less than a byte: the last byte of the value is shifted to its place.
SetBits(p, index, value) ==
    LET last == IF value = <<>> THEN {} ELSE value[Len(value)]
    IN  OrAt(Pad(p, ByteOf(index)), ByteOf(index), <<Shl(last, BitOf(index))>>)
SetBitsUnshifted(p, index, value) ==
    OrAt(Pad(p, ByteOf(index)), ByteOf(index), <<value[Len(value)]>>)

\* Whole bytes: of the first one only the bits the size leaves; a value that
\* is too short is aligned at the end.
SetBytes(p, index, size, value) ==
    LET n == Bytes(size)
        padded == Pad(p, ByteOf(index) + n - 1)
    IN  IF Len(value) < n
          THEN OrAt(padded, ByteOf(index) + n - Len(value), value)
          ELSE OrAt(padded, ByteOf(index),
                    [i \in 1..n |-> IF i = 1 THEN value[1] \intersect BitMask(BitOf(size))
                                    ELSE value[i]])

\* setPosition
SetPosition(p, index, size, value) ==
    IF index < 90 \/ (Partial(index, size) /\ size > 10) THEN p
    ELSE IF Partial(index, size) THEN SetBits(p, index, value)
    ELSE SetBytes(p, index, size, value)

\* getPosition(index, size, -1), of a position in the payload
GetPosition(p, index, size) ==
    IF ByteOf(index) > Len(p) \/ (Partial(index, size) /\ size > 10) THEN <<{}>>
    ELSE IF Partial(index, size)
      THEN <<Shr(p[ByteOf(index)], BitOf(index)) \intersect BitMask(size)>>
    ELSE [i \in 1..Bytes(size) |->
            IF i = 1 THEN p[ByteOf(index)] \intersect BitMask(BitOf(size))
            ELSE IF ByteOf(index) + i - 1 <= Len(p) THEN p[ByteOf(index) + i - 1]
            ELSE {}]

-----------------------------------------------------------------------------
(* Elements of a frame.  A value may be split: its low bits are at index,   *)
(* the others at index2, to be moved up by offset bits.                     *)

WriteWhole(p, e, value) == SetPosition(p, e.index, e.size, value)
\* setValue: an element with an offset holds the bits from the offset on.
WriteElement(p, e, value) ==
    SetPosition(p, e.index, e.size,
                IF "offset" \in DOMAIN e /\ Len(value) = 1 THEN <<Shr(value[1], e.offset)>>
                ELSE value)

\* getValuesFromPacket
ReadElement(p, e) ==
    LET low == GetPosition(p, e.index, e.size)
    IN  IF "index2" \notin DOMAIN e \/ ByteOf(e.index2) > Len(p) THEN low
        ELSE LET high == GetPosition(p, e.index2, e.size2)
                 k == e.offset \div 8 + 1
             IN  IF k \in DOMAIN low
                   THEN [low EXCEPT ![k] = @ \union Shl(high[1], e.offset % 8)]
                   ELSE high \o low
=============================================================================
