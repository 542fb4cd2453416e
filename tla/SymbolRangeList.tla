-------------------------- MODULE SymbolRangeList --------------------------
(***************************************************************************)
(* The class SymbolRangeList of SymBuilder: the address ranges [start, end)*)
(* of a symbol set, in order, each with the ids of the symbols in it.  The *)
(* loops are recursive operators: TLC evaluates them.                      *)
(***************************************************************************)
LOCAL INSTANCE Naturals
LOCAL INSTANCE Sequences
LOCAL INSTANCE SequencesExt

(* std::lower_bound with rng.End < address: the first range of a list that *)
(* does not end before the address.                                        *)
LowerBound(list, address) ==
  Len(SelectSeq(list, LAMBDA rng : rng.end < address)) + 1

(* A definition named "...Wrong" is a plausible bug in the definition that *)
(* follows it; no specification uses it.                                   *)
FindSymbolsWrong(list, address) ==
  LET it == LowerBound(list, address)
  IN IF it > Len(list) THEN <<>> ELSE list[it].symbols

(* The symbols that FindSymbols returns, none where it returns false.      *)
FindSymbols(list, address) ==
  LET it == LowerBound(list, address)
  IN IF it > Len(list) \/ list[it].start > address
     THEN <<>>
     ELSE list[it].symbols

(* The range at cur becomes two, with the same symbols.                    *)
Split(list, cur, at) ==
  InsertAt([list EXCEPT ![cur].end = at],
           cur + 1, [list[cur] EXCEPT !.start = at])

(* RemoveSymbolFromList: the first occurrence in the range at cur.         *)
Unlist(list, cur, symbol) ==
  [list EXCEPT ![cur].symbols = RemoveFirst(@, symbol)]

(* The loop of AddSymbol: what is left of [start, end) begins before, in or*)
(* behind the range at cur.                                                *)
RECURSIVE AddFrom(_, _, _, _, _)
AddFrom(list, cur, start, end, symbol) ==
  LET rng == list[cur]
      New(to) == [start |-> start, end |-> to, symbols |-> <<symbol>>]
      Listed == [list EXCEPT ![cur].symbols = Append(@, symbol)]
      first == IF end < rng.start THEN end ELSE rng.start
  IN CASE start >= end -> list
       [] start < end /\ cur > Len(list) -> Append(list, New(end))
       [] OTHER ->
          CASE start < rng.start ->
                 AddFrom(InsertAt(list, cur, New(first)), cur + 1, first, end, symbol)
            [] start >= rng.end ->
                 AddFrom(list, cur + 1, start, end, symbol)
            [] rng.start < start /\ start < rng.end ->
                 AddFrom(Split(list, cur, start), cur + 1, start, end, symbol)
            [] start = rng.start /\ start < rng.end /\ end >= rng.end ->
                 AddFrom(Listed, cur + 1, rng.end, end, symbol)
            [] start = rng.start /\ end < rng.end ->
                 [Split(list, cur, end) EXCEPT ![cur].symbols = Append(@, symbol)]

AddSymbol(list, start, end, symbol) ==
  LET it == LowerBound(list, start)
      new == [start |-> start, end |-> end, symbols |-> <<symbol>>]
  IN IF it > Len(list) \/ end <= list[it].start
     THEN InsertAt(list, it, new)
     ELSE AddFrom(list, it, start, end, symbol)

(* The loop of RemoveSymbol; it breaks at a range that ends where [start,  *)
(* end) begins.                                                            *)
RECURSIVE RemoveFrom(_, _, _, _, _)
RemoveFrom(list, cur, start, end, symbol) ==
  LET rng == list[cur]
      RemoveNext(l) == RemoveFrom(l, cur + 1, start, end, symbol)
  IN IF cur > Len(list) \/ end <= rng.start
     THEN list
     ELSE CASE start <= rng.start /\ end >= rng.end ->
                 RemoveNext(Unlist(list, cur, symbol))
            [] rng.start < start /\ start < rng.end ->
                 RemoveNext(Unlist(Split(list, cur, start), cur + 1, symbol))
            [] (start <= rng.start \/ start >= rng.end) /\ end < rng.end ->
                 RemoveNext(Unlist(Split(list, cur, end), cur, symbol))
            [] rng.start < start /\ start >= rng.end /\ end >= rng.end ->
                 list

RemoveSymbol(list, start, end, symbol) ==
  LET it == LowerBound(list, start)
  IN IF it > Len(list) \/ list[it].start > end
     THEN list
     ELSE RemoveFrom(list, it, start, end, symbol)
=============================================================================
