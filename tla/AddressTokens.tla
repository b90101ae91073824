---------------------------- MODULE AddressTokens ----------------------------
(***************************************************************************)
(* The tokens by which compiled code names memory to the device:           *)
(* translate_runtime_paddr in runtime/src/CiraRuntime.cpp.  Which of its   *)
(* sources answers depends on the environment.                             *)
(*                                                                         *)
(* Addresses have Width bits; the fields of a last-level cache address     *)
(* (64 bits, 6 of line and 11 of set, slices from bit 56) are scaled down  *)
(* with them.  The kernel is external: what it says of a page.             *)
(***************************************************************************)
EXTENDS Naturals, Sequences, Bitwise

CONSTANTS
  LineBits, SetBits,  \* CIRA_LLC_LINE_BITS, CIRA_LLC_SET_BITS
  SliceShift, Slices, \* CIRA_LLC_SLICE_SHIFT, CIRA_LLC_SLICES
  SliceMasks,         \* CIRA_LLC_SLICE_MASKS
  Frames,             \* the frame the kernel shows for a page, 0 for none
  Driver              \* the driver's answer: device and host address, 0 for none

Modes == {"unset", "region", "driver", "llc", "physical", "virtual"}
Unknown == 0

-----------------------------------------------------------------------------
(* What the kernel and the driver know *)

PageSize == 2

Physical(a) ==
  IF Frames[a \div PageSize] = 0 THEN Unknown
  ELSE Frames[a \div PageSize] * PageSize + (a % PageSize)

\* The driver may have opened, answered, and still know no address.
FromDriver(a) ==
  IF Driver[a].device # 0 THEN Driver[a].device ELSE Driver[a].host

PhysicalOrVirtual(a) == IF Physical(a) # Unknown THEN Physical(a) ELSE a

-----------------------------------------------------------------------------
(* The last-level cache address *)

Bit(v, k) == (v \div 2^k) % 2

\* parity64 folds the halves onto each other and looks a nibble up in 0x6996.
Parity(v) == Bit(27030, ((v \div 16) % 16) ^^ (v % 16))

MaskedBit(basis, k) == Parity(basis & SliceMasks[k]) * 2^(k - 1)
MaskedSlice[basis \in Nat, k \in 0..Len(SliceMasks)] ==
  IF k = 0 THEN 0 ELSE MaskedSlice[basis, k - 1] + MaskedBit(basis, k)

SliceOf(basis) ==
  (IF SliceMasks # <<>> THEN MaskedSlice[basis, Len(SliceMasks)]
   ELSE (basis \div 2^LineBits)) % Slices

\* Faulty: the tag starts where the set does.
EncodedShort(basis) ==
  LET offset == basis % 2^LineBits
      set == (basis \div 2^LineBits) % 2^SetBits
      tag == basis \div 2^(LineBits + SetBits)
  IN  ((tag * 2^LineBits) | (set * 2^LineBits) | offset) | (SliceOf(basis) * 2^SliceShift)

Encoded(basis) ==
  LET offset == basis % 2^LineBits
      set == (basis \div 2^LineBits) % 2^SetBits
      tag == basis \div 2^(LineBits + SetBits)
  IN  ((tag * 2^(SetBits + LineBits)) | (set * 2^LineBits) | offset)
        | (SliceOf(basis) * 2^SliceShift)

FromCache == [a \in DOMAIN Driver |-> Encoded(PhysicalOrVirtual(a))]

-----------------------------------------------------------------------------

\* region is the registered translation of a, or Unknown.
Token(mode, a, region) ==
  CASE mode \in {"unset", "region", "driver"} /\ region # Unknown -> region
    [] mode \in {"unset", "driver"} /\ FromDriver(a) # Unknown -> FromDriver(a)
    [] mode = "physical" -> PhysicalOrVirtual(a)
    [] mode = "virtual" -> a
    [] OTHER -> FromCache[a]
==============================================================================
