----------------------------- MODULE Addressing -----------------------------
(***************************************************************************)
(* The address tables of protocol/: sourceAddressTableV1 with its lookups, *)
(* the four address classes, companions, the frame type that an address    *)
(* implies, and ValidateFrameAddressing.  Addresses are bytes.             *)
(***************************************************************************)
EXTENDS Integers, Sequences, FiniteSets

Addresses == 0 .. 255
Broadcast == 254

Row(source, priority, description, companion) ==
  [source |-> source, priority |-> priority, description |-> description, companion |-> companion]

\* The 25 rows, without the wording of the official table.
sourceAddressTableV1 == <<
  Row(0, 0, "PCModem", 5), Row(16, 0, "HeatingRegulator", 21), Row(48, 0, "HeatingCircuitRegulator1", 53),
  Row(112, 0, "HeatingCircuitRegulator2", 117), Row(240, 0, "HeatingCircuitRegulator3", 245),
  Row(1, 1, "HandheldProgrammerRemote", 6), Row(17, 1, "BusInterfaceClimateRegulator", 22),
  Row(49, 1, "BusInterface", 54), Row(113, 1, "HeatingRegulator", 118),
  Row(241, 1, "HeatingRegulator", 246), Row(3, 2, "CombustionController1", 8),
  Row(19, 2, "CombustionController2", 24), Row(51, 2, "CombustionController3", 56),
  Row(115, 2, "CombustionController4", 120), Row(243, 2, "CombustionController5", 248),
  Row(7, 3, "NotPreallocated", 12), Row(23, 3, "NotPreallocated", 28), Row(55, 3, "NotPreallocated", 60),
  Row(119, 3, "NotPreallocated", 124), Row(247, 3, "NotPreallocated", 252),
  Row(15, 4, "ClockRadioClockModule", 20), Row(31, 4, "NotPreallocated", 36),
  Row(63, 4, "NotPreallocated", 68), Row(127, 4, "NotPreallocated", 132), Row(255, 4, "PC", 4)>>

Rows == {sourceAddressTableV1[i] : i \in DOMAIN sourceAddressTableV1}
IsCanonicalSource(a) == \E row \in Rows : row.source = a
LookupSourceAddress(a) == CHOOSE row \in Rows : row.source = a

\* 0xA9 and 0xAA never stand for an address on the wire.
Reserved == {169, 170}

AddressClassOf(a) ==
  CASE a = Broadcast -> "Broadcast"
    [] a \in Reserved -> "Reserved"
    [] a \notin Reserved \cup {Broadcast} /\ IsCanonicalSource(a) -> "Master"
    [] OTHER -> "Slave"

\* The bit patterns of initiators: 0000, 0001, 0011, 0111, 1111 in each half.
InitiatorParts == {0, 1, 3, 7, 15}
IsInitiatorLowPart(a) == a % 16 \in InitiatorParts
IsInitiatorCapableAddress(a) == a % 16 \in InitiatorParts /\ a \div 16 \in InitiatorParts

\* The companions as the set of answers, empty for none.
Companion(a) ==
  IF IsCanonicalSource(a) THEN {LookupSourceAddress(a).companion}
  ELSE {row.source : row \in {r \in Rows : r.companion = a}}

FrameTypeForTarget(a) ==
  CASE a = Broadcast -> "M2BC"
    [] a \in Reserved -> "Unknown"
    [] a \notin Reserved \cup {Broadcast} /\ IsInitiatorCapableAddress(a) -> "M2M"
    [] OTHER -> "M2S"

FrameTypes == {"Unknown", "M2BC", "M2S", "M2M"}
TargetClass == [M2S |-> "Slave", M2M |-> "Master", M2BC |-> "Broadcast"]

ValidateFrameAddressing(type, src, dst) ==
  /\ type # "Unknown" /\ src # dst
  /\ AddressClassOf(src) = "Master"
  /\ AddressClassOf(dst) = TargetClass[type]
=============================================================================
