--------------------------- MODULE ResponseCodec ---------------------------
(***************************************************************************)
(* The wire form of a target's response, LEN DATA CRC with every byte      *)
(* escaped: AA23EncodeResponse and aa23ValidateEncodedResponse of          *)
(* localworker/aa23_plans.go, and the encoder of protocol/slave_encode.go  *)
(* over the table of internal/crc.  Bytes are numbers; the validator is a  *)
(* step per symbol or escape pair of the wire.                             *)
(***************************************************************************)
EXTENDS Integers, SequencesExt, Bitwise

VARIABLES
  wire,       \* the encoded response under validation
  offset,     \* symbols taken from it
  crc, decoded, declared, receivedCRC,
  verdict     \* "open", "valid" or "invalid"

codecVars == <<wire, offset, crc, decoded, declared, receivedCRC, verdict>>

Escape == 169
Syn == 170
Byte == 0 .. 255

-----------------------------------------------------------------------------
(* CRC                                                                     *)

\* One turn of the loop of aa23CRCStep: polynomial 0x9B.
Shifted(c) == IF c >= 128 THEN ((2 * c) % 256) ^^ 155 ELSE 2 * c

\* aa23CRCStep shifts eight times; the shifts do not depend on the value.
EightShifts == [c \in Byte |-> Shifted(Shifted(Shifted(Shifted(Shifted(Shifted(Shifted(Shifted(c))))))))]
CRCStep(c, value) == EightShifts[c] ^^ value

\* The symbols of one logical byte on the wire, aa23AppendEscaped.
Escaped(value) == IF value = Escape THEN <<Escape, 0>> ELSE IF value = Syn THEN <<Escape, 1>> ELSE <<value>>

\* aa23CRCUpdate feeds a logical byte as the wire carries it.
CRCUpdateLogical(c, value) == CRCStep(c, value)
CRCUpdate(c, value) ==
  LET symbols == Escaped(value)
  IN  IF Len(symbols) = 2 THEN CRCStep(CRCStep(c, symbols[1]), symbols[2]) ELSE CRCStep(c, value)

\* internal/crc: the precomputed table, and Update over it.
lookupTable == <<
  0, 155, 173, 54, 193, 90, 108, 247, 25, 130, 180, 47, 216, 67, 117, 238,
  50, 169, 159, 4, 243, 104, 94, 197, 43, 176, 134, 29, 234, 113, 71, 220,
  100, 255, 201, 82, 165, 62, 8, 147, 125, 230, 208, 75, 188, 39, 17, 138,
  86, 205, 251, 96, 151, 12, 58, 161, 79, 212, 226, 121, 142, 21, 35, 184,
  200, 83, 101, 254, 9, 146, 164, 63, 209, 74, 124, 231, 16, 139, 189, 38,
  250, 97, 87, 204, 59, 160, 150, 13, 227, 120, 78, 213, 34, 185, 143, 20,
  172, 55, 1, 154, 109, 246, 192, 91, 181, 46, 24, 131, 116, 239, 217, 66,
  158, 5, 51, 168, 95, 196, 242, 105, 135, 28, 42, 177, 70, 221, 235, 112,
  11, 144, 166, 61, 202, 81, 103, 252, 18, 137, 191, 36, 211, 72, 126, 229,
  57, 162, 148, 15, 248, 99, 85, 206, 32, 187, 141, 22, 225, 122, 76, 215,
  111, 244, 194, 89, 174, 53, 3, 152, 118, 237, 219, 64, 183, 44, 26, 129,
  93, 198, 240, 107, 156, 7, 49, 170, 68, 223, 233, 114, 133, 30, 40, 179,
  195, 88, 110, 245, 2, 153, 175, 52, 218, 65, 119, 236, 27, 128, 182, 45,
  241, 106, 92, 199, 48, 171, 157, 6, 232, 115, 69, 222, 41, 178, 132, 31,
  167, 60, 10, 145, 102, 253, 203, 80, 190, 37, 19, 136, 127, 228, 210, 73,
  149, 14, 56, 163, 84, 207, 249, 98, 140, 23, 33, 186, 77, 214, 224, 123>>
TableUpdate(c, value) == lookupTable[c + 1] ^^ value

-----------------------------------------------------------------------------
(* Encoding                                                                *)

EscapedAll(bytes) == FlattenSeq([i \in DOMAIN bytes |-> Escaped(bytes[i])])

AA23EncodeResponse(data) ==
  LET segment == <<Len(data)>> \o data IN EscapedAll(Append(segment, FoldLeft(CRCUpdate, 0, segment)))

\* Sum over the table, protocol.CRC, which escapes in place, and EncodeSlaveResponse.
TableSum(bytes) == FoldLeft(TableUpdate, 0, bytes)
ProtocolCRC(bytes) == TableSum(EscapedAll(bytes))
EncodeSlaveResponse(data) ==
  LET segment == <<Len(data)>> \o data IN EscapedAll(Append(segment, ProtocolCRC(segment)))

-----------------------------------------------------------------------------
(* Validation                                                              *)

CodecInit(w) ==
  /\ wire = w /\ offset = 0
  /\ crc = 0 /\ decoded = 0 /\ declared = -1 /\ receivedCRC = -1
  /\ verdict = "open"

Refuse == verdict' = "invalid" /\ UNCHANGED <<wire, offset, crc, decoded, declared, receivedCRC>>

\* A logical byte that took n symbols: the length first, the CRC after DATA.
Take(value, n) ==
  LET length == IF decoded = 0 THEN value ELSE declared
  IN  /\ declared' = length
      /\ IF decoded = length + 1 THEN receivedCRC' = value /\ UNCHANGED crc
         ELSE crc' = CRCUpdate(crc, value) /\ UNCHANGED receivedCRC
      /\ decoded' = decoded + 1
      /\ offset' = offset + n
      /\ UNCHANGED <<wire, verdict>>

TakeSymbol ==
  /\ verdict = "open" /\ offset < Len(wire)
  /\ wire[offset + 1] \notin {Escape, Syn}
  /\ Take(wire[offset + 1], 1)

TakePair ==
  /\ verdict = "open" /\ offset + 1 < Len(wire)
  /\ wire[offset + 1] = Escape
  /\ \/ wire[offset + 2] = 0 /\ Take(Escape, 2)
     \/ wire[offset + 2] = 1 /\ Take(Syn, 2)

RefuseSymbol ==
  /\ verdict = "open" /\ offset < Len(wire)
  /\ \/ wire[offset + 1] = Syn
     \/ wire[offset + 1] = Escape /\ offset + 1 = Len(wire)
     \/ wire[offset + 1] = Escape /\ offset + 1 < Len(wire) /\ wire[offset + 2] \notin {0, 1}
  /\ Refuse

CompleteAnyLength == declared >= 0 /\ receivedCRC = crc
Complete == declared >= 0 /\ decoded = declared + 2 /\ receivedCRC = crc

Decide ==
  /\ verdict = "open" /\ offset = Len(wire)
  /\ verdict' = IF Complete THEN "valid" ELSE "invalid"
  /\ UNCHANGED <<wire, offset, crc, decoded, declared, receivedCRC>>

CodecNext == TakeSymbol \/ TakePair \/ RefuseSymbol \/ Decide

-----------------------------------------------------------------------------

\* Decoding by definition: the bytes of which a wire is the escaping, if any.
\* Every wire symbol is a byte or the start of a pair, so there is at most one.
Unescaped(w) ==
  LET bytes[n \in 0 .. Len(w)] ==
        IF n = 0 THEN {<<>>}
        ELSE {Append(b, w[n]) : b \in {x \in bytes[n - 1] : w[n] \notin {Escape, Syn}}}
             \cup (IF n < 2 \/ w[n - 1] # Escape THEN {}
                   ELSE {Append(b, IF w[n] = 0 THEN Escape ELSE Syn) : b \in {x \in bytes[n - 2] : w[n] \in {0, 1}}})
  IN  bytes[Len(w)]

\* The validator accepts exactly the wires that the encoder produces, so that a
\* plan never answers with a response whose length, escaping or CRC is off.
ValidatesEncodings ==
  /\ verdict = "valid" => \E b \in Unescaped(wire) : Len(b) >= 2 /\ wire = AA23EncodeResponse(SubSeq(b, 2, Len(b) - 1))
  /\ verdict = "invalid" => \A b \in Unescaped(wire) :
       Len(b) >= 2 => wire # AA23EncodeResponse(SubSeq(b, 2, Len(b) - 1))
=============================================================================
