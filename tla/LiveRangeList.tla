---------------------------- MODULE LiveRangeList ----------------------------
(***************************************************************************)
(* The live ranges of a parameter or a local: m_liveRangeList of           *)
(* VariableSymbol.  A range is [id, offset, size, loc]; offsets are those  *)
(* from the start of the function, whose code is one address range.        *)
(* Sums wrap around at the width of an address.                            *)
(***************************************************************************)
EXTENDS Integers, SequencesExt

CONSTANTS
  AddressSpan,   (* 2^64 in the code.                                      *)
  FunctionBase   (* Where the function begins.                             *)

Wrapped(n) == n % AddressSpan
RangeStart(range) == Wrapped(FunctionBase + range.offset)
RangeEnd(range) == Wrapped(FunctionBase + range.offset + range.size)
Within(range, address) == RangeStart(range) <= address /\ address < RangeEnd(range)

(* ValidateLiveRange.  Either end has to lie in the function, and then both*)
(* do; neither may lie in another range.                                   *)
InFunction(range, functionSize) ==
  LET end == FunctionBase + functionSize IN
  /\ \E at \in {RangeStart(range), RangeEnd(range)} : FunctionBase <= at /\ at < end
  /\ FunctionBase <= RangeStart(range) /\ RangeEnd(range) <= end
(* A definition named "...Wrong" is a plausible bug in the definition that *)
(* follows it; no specification uses it.                                   *)
MeetsOtherWrong(range, other) == Within(other, RangeStart(range))
MeetsOther(range, other) == Within(other, RangeStart(range)) \/ Within(other, RangeEnd(range))
ValidateLiveRange(list, range, functionSize) ==
  /\ InFunction(range, functionSize)
  /\ \A i \in DOMAIN list : list[i].id # range.id => ~MeetsOther(range, list[i])

(* AddLiveRange: a range that is not valid is not added.                   *)
AddLiveRange(list, range, functionSize) ==
  IF ValidateLiveRange(list, range, functionSize) THEN Append(list, range) ELSE list

(* GetLiveRangeByOffset: the first of the list that covers the offset.     *)
Covers(range, at) == range.offset <= at /\ at < Wrapped(range.offset + range.size)
NoLocation == [kind |-> "none", reg |-> "none", off |-> 0]
LocationAt(list, at) ==
  LET i == SelectInSeq(list, LAMBDA range : Covers(range, at))
  IN IF i = 0 THEN NoLocation ELSE list[i].loc
=============================================================================
