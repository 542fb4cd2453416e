----------------------------- MODULE PublicList -----------------------------
(***************************************************************************)
(* The class PublicList of SymBuilder: the addresses of a symbol set's     *)
(* public symbols, in order, each with the ids of the symbols at it.       *)
(***************************************************************************)
LOCAL INSTANCE Naturals
LOCAL INSTANCE Sequences
LOCAL INSTANCE SequencesExt

(* std::lower_bound: the first entry of a list not below the address.      *)
LowerBound(list, address) ==
  Len(SelectSeq(list, LAMBDA entry : entry.addr < address)) + 1

IsAt(list, it, address) == it <= Len(list) /\ list[it].addr = address

(* The symbols that FindNearestSymbols returns, none where it returns      *)
(* false: those at the address, or at the nearest one below it.            *)
FindNearestSymbols(list, address) ==
  LET it == LowerBound(list, address)
  IN CASE IsAt(list, it, address) -> list[it].symbols
       [] ~IsAt(list, it, address) /\ it > 1 -> list[it - 1].symbols
       [] ~IsAt(list, it, address) /\ it = 1 -> <<>>

AddSymbol(list, address, symbol) ==
  LET it == LowerBound(list, address)
  IN IF IsAt(list, it, address)
     THEN [list EXCEPT ![it].symbols = Append(@, symbol)]
     ELSE InsertAt(list, it, [addr |-> address, symbols |-> <<symbol>>])

(* An entry whose last symbol goes is erased.                              *)
RemoveSymbol(list, address, symbol) ==
  LET it == LowerBound(list, address)
      left == RemoveFirst(list[it].symbols, symbol)
  IN CASE ~IsAt(list, it, address) -> list
       [] IsAt(list, it, address) /\ left = <<>> -> RemoveAt(list, it)
       [] IsAt(list, it, address) /\ left # <<>> ->
            [list EXCEPT ![it].symbols = left]
=============================================================================
